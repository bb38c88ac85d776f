-------------------------- MODULE WorkStoreProofs --------------------------
(***************************************************************************)
(* Safety of the work store for any number of sessions, items and          *)
(* attempts, any clock, any retry ceiling and any resource constraints,    *)
(* and that it implements leases of work.                                  *)
(***************************************************************************)
EXTENDS WorkStore, FiniteSetTheorems, TLAPS

(* Inductive by itself: each conjunct leans on the others.  That a running *)
(* attempt is unused elsewhere (OneOutcome) is what lets a recovery move   *)
(* it; that a claimed attempt id is fresh (TypeOK: outcome rows refer to   *)
(* used attempts) is what keeps outcomes apart when work is claimed.       *)
Safety == TypeOK /\ RunningOwned /\ OneAssignment /\ OneOutcome /\ NoWorkLost

USE DEF vars, sessionVars, itemVars, attemptVars, outcomeVars

(* ON CONFLICT DO NOTHING never takes a row out of queued_work, and after  *)
(* it every item of the set has one.                                       *)
LEMMA RequeueKeepsAndAdds ==
    ASSUME TypeOK, NEW S \in SUBSET Items, NEW at \in Nat
    PROVE  /\ Requeue(S, at) \in [Items -> Times]
           /\ \A i \in Items : queuedAt[i] # NoRow => Requeue(S, at)[i] # NoRow
           /\ \A i \in S : Requeue(S, at)[i] # NoRow
BY DEF TypeOK, Requeue, Times, NoRow

(* The text of a whole second names a natural number of units.             *)
LEMMA RFC3339Type == ASSUME NEW t \in Nat PROVE RFC3339(t) \in Nat
BY UnitsAssumption DEF RFC3339, Second

(* There is no row at first.                                               *)
LEMMA SafetyInit == Init => Safety
BY StoreAssumption DEF Init, Safety, TypeOK, RunningOwned, OneAssignment, OneOutcome,
   NoWorkLost, Used, Times, NoRow, Statuses, Reasons, Abandoned

(* A session's running work, removed as a whole, leaves the others'.       *)
LEMMA SafetyRecover ==
    ASSUME Safety, NEW at \in Nat, RecoverExpiredWorkerSessions(at)
    PROVE  Safety'
<1> DEFINE gone == {s \in Sessions : status[s] = "active" /\ Expired(s, at - DeadAfter)}
           lost == RunningOf(gone)
           exhausted == {a \in lost : RetryExhausted(itemOf[a])}
           back == {itemOf[a] : a \in lost \ exhausted}
<1>1. /\ status' = [s \in Sessions |-> IF s \in gone THEN "dead" ELSE status[s]]
      /\ abandoned' = [abandoned EXCEPT !["heartbeat_expired"] = @ \cup lost]
      /\ running' = running \ lost
      /\ failed' = failed \cup exhausted
      /\ queuedAt' = Requeue(back, at)
      /\ UNCHANGED <<now, heartbeat, createdAt, itemOf, sessionOf, completed>>
  BY Zenon DEF RecoverExpiredWorkerSessions
<1>2. /\ lost = {a \in running : sessionOf[a] \in gone}
      /\ exhausted \subseteq lost
      /\ gone \subseteq Sessions
      /\ \A s \in gone : status[s] = "active"
  BY Zenon DEF RunningOf
<1>3. back \in SUBSET Items
  <2>1. \A a \in running : itemOf[a] \in Items
    BY Zenon DEF Safety, TypeOK, Used
  <2>2. QED
    BY Zenon, <1>2, <2>1
<1>4. /\ queuedAt' \in [Items -> Times]
      /\ \A i \in Items : queuedAt[i] # NoRow => queuedAt'[i] # NoRow
      /\ \A a \in lost \ exhausted : queuedAt'[itemOf[a]] # NoRow
  BY Zenon, <1>1, <1>3, RequeueKeepsAndAdds DEF Safety
<1> HIDE DEF gone, lost, exhausted, back
<1>5. TypeOK'
  BY Zenon, <1>1, <1>2, <1>4 DEF Safety, TypeOK, Used, Statuses, Reasons
<1>6. RunningOwned'
  BY Zenon, <1>1, <1>2, StoreAssumption DEF Safety, TypeOK, RunningOwned, Used, Statuses
<1>7. OneAssignment'
  BY Zenon, <1>1 DEF Safety, OneAssignment
<1>8. OneOutcome'
  BY Zenon, <1>1, <1>2 DEF Safety, TypeOK, OneOutcome, Abandoned, Reasons
<1>9. NoWorkLost'
  BY <1>1, <1>2, <1>4 DEF Safety, TypeOK, NoWorkLost, Used, Queued
<1>10. QED
  BY Zenon, <1>5, <1>6, <1>7, <1>8, <1>9 DEF Safety

(* A worker that stops: its one row goes and its item is queued again.     *)
LEMMA SafetyStop ==
    ASSUME Safety, NEW s \in Sessions, NEW at \in Nat, StopWorkerSessionAndRecoverWork(s, at)
    PROVE  Safety'
<1> DEFINE lost == RunningOf({s})
           back == {itemOf[a] : a \in lost}
<1>1. /\ status[s] = "active"
      /\ status' = [status EXCEPT ![s] = "stopped"]
      /\ abandoned' = [abandoned EXCEPT !["worker_stopped"] = @ \cup lost]
      /\ running' = running \ lost
      /\ queuedAt' = Requeue(back, at)
      /\ UNCHANGED <<now, heartbeat, createdAt, itemOf, sessionOf, completed, failed>>
  BY Zenon DEF StopWorkerSessionAndRecoverWork
<1>2. lost = {a \in running : sessionOf[a] = s}
  BY Zenon DEF RunningOf
<1>3. back \in SUBSET Items
  <2>1. \A a \in running : itemOf[a] \in Items
    BY Zenon DEF Safety, TypeOK, Used
  <2>2. QED
    BY Zenon, <1>2, <2>1
<1>4. /\ queuedAt' \in [Items -> Times]
      /\ \A i \in Items : queuedAt[i] # NoRow => queuedAt'[i] # NoRow
      /\ \A a \in lost : queuedAt'[itemOf[a]] # NoRow
  BY Zenon, <1>1, <1>3, RequeueKeepsAndAdds DEF Safety
<1> HIDE DEF lost, back
<1>5. TypeOK'
  BY Zenon, <1>1, <1>2, <1>4 DEF Safety, TypeOK, Used, Statuses, Reasons
<1>6. RunningOwned'
  BY Zenon, <1>1, <1>2, StoreAssumption DEF Safety, TypeOK, RunningOwned, Used, Statuses
<1>7. OneAssignment'
  BY Zenon, <1>1 DEF Safety, OneAssignment
<1>8. OneOutcome'
  BY Zenon, <1>1, <1>2 DEF Safety, TypeOK, OneOutcome, Abandoned, Reasons
<1>9. NoWorkLost'
  BY <1>1, <1>2, <1>4 DEF Safety, TypeOK, NoWorkLost, Used, Queued
<1>10. QED
  BY Zenon, <1>5, <1>6, <1>7, <1>8, <1>9 DEF Safety

(* The attempt id is fresh, the session idle and the item not running, so  *)
(* the new assignment clashes with no other.                               *)
LEMMA SafetyClaim ==
    ASSUME Safety, NEW s \in Sessions, NEW a \in Attempts, NEW i \in Items, NEW at \in Nat,
           ClaimNextWork(s, a, i, at)
    PROVE  Safety'
<1>1. /\ status[s] = "active"
      /\ \A b \in running : sessionOf[b] # s /\ itemOf[b] # i
      /\ itemOf[a] = None
      /\ itemOf' = [itemOf EXCEPT ![a] = i]
      /\ sessionOf' = [sessionOf EXCEPT ![a] = s]
      /\ running' = running \cup {a}
      /\ queuedAt' = [queuedAt EXCEPT ![i] = NoRow]
      /\ UNCHANGED <<now, status, heartbeat, createdAt, completed, failed, abandoned>>
  BY Zenon DEF ClaimNextWork, validateWorkerSessionCanClaim, Live, RunningOf, RunningItems, Used
<1>2. a \notin Used /\ a \notin running /\ a \notin completed /\ a \notin failed /\ a \notin Abandoned
  BY Zenon, <1>1 DEF Safety, TypeOK, Used, Abandoned, Reasons
<1>3. TypeOK'
  <2>1. TypeOK /\ NoRow \in Times
    BY Zenon DEF Safety, Times
  <2>2. /\ itemOf' \in [Attempts -> Items \cup {None}] /\ sessionOf' \in [Attempts -> Sessions \cup {None}]
        /\ queuedAt' \in [Items -> Times]
    BY Zenon, <1>1, <2>1 DEF TypeOK
  <2>3. i # None /\ s # None
    BY Zenon, StoreAssumption
  <2>4. /\ itemOf'[a] = i /\ sessionOf'[a] = s
        /\ \A b \in Attempts : b # a => itemOf'[b] = itemOf[b] /\ sessionOf'[b] = sessionOf[b]
    BY Zenon, <1>1, <2>1 DEF TypeOK
  <2>5. \A b \in Attempts : itemOf'[b] = None <=> sessionOf'[b] = None
    BY Zenon, <2>1, <2>3, <2>4 DEF TypeOK
  <2>6. Used \subseteq Used' /\ a \in Used'
    BY Zenon, <1>1, <2>3, <2>4 DEF Used
  <2>7. running' \subseteq Used' /\ completed' \subseteq Used' /\ failed' \subseteq Used'
    BY Zenon, <1>1, <2>1, <2>6 DEF TypeOK
  <2>8. abandoned' \in [Reasons -> SUBSET Used']
    BY Zenon, <1>1, <2>1, <2>6 DEF TypeOK
  <2> QED
    BY Zenon, <1>1, <2>1, <2>2, <2>5, <2>7, <2>8 DEF TypeOK
<1>4. RunningOwned'
  BY <1>1, <1>2 DEF Safety, TypeOK, RunningOwned, Used
<1>5. OneAssignment'
  BY <1>1, <1>2 DEF Safety, TypeOK, OneAssignment, Used
<1>6. OneOutcome'
  BY <1>1, <1>2 DEF Safety, TypeOK, OneOutcome, Abandoned, Reasons
<1>7. NoWorkLost'
  BY <1>1, <1>2 DEF Safety, TypeOK, NoWorkLost, Used, Queued
<1>8. QED
  BY Zenon, <1>3, <1>4, <1>5, <1>6, <1>7 DEF Safety

(* A report moves a running attempt to one outcome.                        *)
LEMMA SafetyReport ==
    ASSUME Safety, NEW a \in Attempts, NEW reporter \in Reporters, NEW at \in Nat,
           CompleteAttempt(a, reporter, at) \/ FailAttempt(a, reporter, at)
    PROVE  Safety'
<1>1. /\ a \in running
      /\ running' = running \ {a}
      /\ \/ completed' = completed \cup {a} /\ failed' = failed
         \/ failed' = failed \cup {a} /\ completed' = completed
      /\ UNCHANGED <<now, status, heartbeat, createdAt, queuedAt, itemOf, sessionOf, abandoned>>
  BY Zenon DEF CompleteAttempt, FailAttempt
<1>2. TypeOK'
  BY Zenon, <1>1 DEF Safety, TypeOK, Used
<1>3. RunningOwned' /\ OneAssignment'
  BY Zenon, <1>1 DEF Safety, RunningOwned, OneAssignment
<1>4. OneOutcome'
  BY Zenon, <1>1 DEF Safety, OneOutcome, Abandoned
<1>5. NoWorkLost'
  BY Zenon, <1>1 DEF Safety, TypeOK, NoWorkLost, Used, Queued
<1>6. QED
  BY Zenon, <1>2, <1>3, <1>4, <1>5 DEF Safety

(* Queuing adds rows only for the items it names.                          *)
LEMMA SafetyQueue ==
    ASSUME Safety, NEW at \in Nat,
           \/ \E b \in Batches : QueueWorkItems(b, at)
           \/ \E S \in SUBSET Held : EnqueueWorkItems(S, at)
    PROVE  Safety'
<1>1. PICK S \in SUBSET Items :
      /\ queuedAt' = Requeue(S, RFC3339(at))
      /\ createdAt' \in [Items -> Times]
      /\ UNCHANGED <<now, status, heartbeat, itemOf, sessionOf, running, completed, failed, abandoned>>
  <2>1. CASE \E b \in Batches : QueueWorkItems(b, at)
    BY <2>1, RFC3339Type, StoreAssumption DEF QueueWorkItems, Safety, TypeOK, Times
  <2>2. CASE \E S \in SUBSET Held : EnqueueWorkItems(S, at)
    BY Zenon, <2>2 DEF EnqueueWorkItems, Inserted, Safety, TypeOK
  <2>3. QED
    BY Zenon, <2>1, <2>2
<1>2. /\ queuedAt' \in [Items -> Times]
      /\ \A i \in Items : queuedAt[i] # NoRow => queuedAt'[i] # NoRow
  BY Zenon, <1>1, RequeueKeepsAndAdds, RFC3339Type DEF Safety
<1>3. TypeOK'
  BY Zenon, <1>1, <1>2 DEF Safety, TypeOK, Used
<1>4. RunningOwned' /\ OneAssignment' /\ OneOutcome'
  BY Zenon, <1>1 DEF Safety, RunningOwned, OneAssignment, OneOutcome, Abandoned
<1>5. NoWorkLost'
  BY Zenon, <1>1, <1>2 DEF Safety, TypeOK, NoWorkLost, Used, Queued
<1>6. QED
  BY Zenon, <1>3, <1>4, <1>5 DEF Safety

(* A session starts, beats or ends with no work of its own running.        *)
LEMMA SafetySession ==
    ASSUME Safety, NEW s \in Sessions,
           \/ \E at \in Nat : RegisterWorkerSession(s, at) \/ HeartbeatWorkerSession(s, at)
           \/ \E final \in {"stopped", "dead"} : EndWorkerSession(s, final)
    PROVE  Safety'
<1>1. /\ status' \in [Sessions -> Statuses]
      /\ heartbeat' \in [Sessions -> Times]
      /\ \A a \in running : status'[sessionOf[a]] = status[sessionOf[a]]
      /\ UNCHANGED <<now, createdAt, queuedAt, itemOf, sessionOf, running, completed, failed, abandoned>>
  BY DEF RegisterWorkerSession, HeartbeatWorkerSession, EndWorkerSession, RunningOf,
         Safety, TypeOK, RunningOwned, Used, Statuses, Times
<1>2. TypeOK'
  BY Zenon, <1>1 DEF Safety, TypeOK, Used
<1>3. RunningOwned' /\ OneAssignment' /\ OneOutcome' /\ NoWorkLost'
  BY <1>1 DEF Safety, RunningOwned, OneAssignment, OneOutcome, NoWorkLost, Abandoned, Used, Queued
<1>4. QED
  BY Zenon, <1>2, <1>3 DEF Safety

(* Time passes, and nothing else does.                                     *)
LEMMA SafetyUnchanged ==
    ASSUME Safety, \/ Tick
                   \/ UNCHANGED vars
    PROVE  Safety'
<1>1. /\ now' \in Nat
      /\ UNCHANGED <<status, heartbeat, createdAt, queuedAt, itemOf, sessionOf,
                     running, completed, failed, abandoned>>
  BY DEF Tick, Safety, TypeOK
<1>2. QED
  BY <1>1 DEF Safety, TypeOK, RunningOwned, OneAssignment, OneOutcome, NoWorkLost,
              Abandoned, Used, Queued

(* One step per action of Next.                                            *)
LEMMA SafetyNext == Safety /\ [Next]_vars => Safety'
<1> SUFFICES ASSUME Safety, [Next]_vars PROVE Safety'
  BY Zenon
<1>1. \A at \in Stamps : at \in Nat
  BY DEF Stamps, Safety, TypeOK
<1>2. CASE Tick \/ UNCHANGED vars
  BY Zenon, <1>2, SafetyUnchanged
<1>3. CASE \E at \in Stamps : RecoverExpiredWorkerSessions(at)
  BY Zenon, <1>1, <1>3, SafetyRecover
<1>4. CASE \E at \in Stamps, s \in Sessions :
             RegisterWorkerSession(s, at) \/ HeartbeatWorkerSession(s, at)
  BY Zenon, <1>1, <1>4, SafetySession
<1>5. CASE \E at \in Stamps, s \in Sessions : StopWorkerSessionAndRecoverWork(s, at)
  BY Zenon, <1>1, <1>5, SafetyStop
<1>6. CASE \E at \in Stamps, s \in Sessions, a \in Attempts, i \in Items : ClaimNextWork(s, a, i, at)
  BY Zenon, <1>1, <1>6, SafetyClaim
<1>7. CASE \E at \in Stamps : \/ \E b \in Batches : QueueWorkItems(b, at)
                              \/ \E S \in SUBSET Held : EnqueueWorkItems(S, at)
  BY Zenon, <1>1, <1>7, SafetyQueue
<1>8. CASE \E at \in Stamps, a \in Attempts, reporter \in Reporters :
             CompleteAttempt(a, reporter, at) \/ FailAttempt(a, reporter, at)
  BY Zenon, <1>1, <1>8, SafetyReport
<1>9. CASE \E s \in Sessions, final \in {"stopped", "dead"} : EndWorkerSession(s, final)
  BY Zenon, <1>9, SafetySession
<1>10. QED
  BY Zenon, <1>2, <1>3, <1>4, <1>5, <1>6, <1>7, <1>8, <1>9 DEF Next

(* The store keeps its safety invariants for every instance.               *)
THEOREM StoreSafety == Spec => []Safety
BY SafetyInit, SafetyNext, PTL DEF Spec

(* Type correctness of the tables.                                         *)
THEOREM StoreTypeCorrect == Spec => []TypeOK
BY StoreSafety, PTL DEF Safety

(* An item has at most one running attempt, and a session at most one.     *)
THEOREM StoreAssignments == Spec => []OneAssignment
BY StoreSafety, PTL DEF Safety

(* The session of a running attempt is active: no stop, expiry or restart  *)
(* leaves work with a session that has ended.                              *)
THEOREM StoreRunningOwned == Spec => []RunningOwned
BY StoreSafety, PTL DEF Safety

(* Completion, failure, stop and expiry never settle an attempt twice.     *)
THEOREM StoreOutcomes == Spec => []OneOutcome
BY StoreSafety, PTL DEF Safety

(* Claimed work is never dropped.                                          *)
THEOREM StoreLosesNoWork == Spec => []NoWorkLost
BY StoreSafety, PTL DEF Safety

----------------------------------------------------------------------------
(* The retry ceiling.                                                      *)

(* The ceiling, with what counting needs: the counted sets are finite.     *)
RetryInv ==
    /\ RetryCeiling
    /\ \A i \in Items : IsFiniteSet(ExpiredAbandonments(i))

(* Steps that record no expiry keep every count, because the attempts they *)
(* fail were running, and so not abandoned.                                *)
LEMMA RetryUnchanged ==
    ASSUME RetryInv,
           \A i \in Items : /\ ExpiredAbandonments(i)' = ExpiredAbandonments(i)
                            /\ ExpiredAbandonments(i) \cap failed' = ExpiredAbandonments(i) \cap failed
    PROVE  RetryInv'
<1>1. \A i \in Items : ExpiredAbandonments(i) \ failed' = ExpiredAbandonments(i) \ failed
  BY Zenon
<1>2. QED
  BY Zenon, <1>1 DEF RetryInv, RetryCeiling

(* A recovery abandons at most one attempt of an item, OneAssignment says, *)
(* so that the count it compared with the ceiling is the right one.        *)
LEMMA RetryRecover ==
    ASSUME Safety, RetryInv, NEW at \in Nat, RecoverExpiredWorkerSessions(at)
    PROVE  RetryInv'
<1> DEFINE gone == {s \in Sessions : status[s] = "active" /\ Expired(s, at - DeadAfter)}
           lost == RunningOf(gone)
           exhausted == {a \in lost : RetryExhausted(itemOf[a])}
<1>1. /\ abandoned' = [abandoned EXCEPT !["heartbeat_expired"] = @ \cup lost]
      /\ failed' = failed \cup exhausted
      /\ itemOf' = itemOf
  BY Zenon DEF RecoverExpiredWorkerSessions
<1>2. /\ lost \subseteq running
      /\ \A a \in Attempts : a \in exhausted <=> a \in lost /\ RetryExhausted(itemOf[a])
      /\ exhausted \subseteq lost
  BY Zenon DEF RunningOf, Safety, TypeOK, Used
<1> HIDE DEF gone, lost, exhausted
<1> SUFFICES ASSUME NEW i \in Items
             PROVE  /\ IsFiniteSet(ExpiredAbandonments(i)')
                    /\ Cardinality(ExpiredAbandonments(i)' \ failed') <= RequeueLimit
                    /\ ExpiredAbandonments(i)' \cap failed' # {}
                           => Cardinality(ExpiredAbandonments(i)') > RequeueLimit
  BY Zenon DEF RetryInv, RetryCeiling
<1> DEFINE old == ExpiredAbandonments(i)
<1>3. /\ ExpiredAbandonments(i)' = old \cup (lost \cap AttemptsOf(i))
      /\ old \cap running = {}
      /\ old \cap failed' = old \cap failed
      /\ old \ failed' = old \ failed
  BY Zenon, <1>1, <1>2 DEF ExpiredAbandonments, AttemptsOf, Safety, TypeOK, OneOutcome, Abandoned, Reasons
<1>4. /\ IsFiniteSet(old)
      /\ Cardinality(old \ failed) <= RequeueLimit
      /\ old \cap failed # {} => Cardinality(old) > RequeueLimit
  BY Zenon DEF RetryInv, RetryCeiling
<1>5. CASE lost \cap AttemptsOf(i) = {}
  BY Zenon, <1>3, <1>4, <1>5
<1>6. CASE lost \cap AttemptsOf(i) # {}
  <2>1. PICK a \in Attempts : a \in lost /\ itemOf[a] = i
    BY Zenon, <1>6 DEF AttemptsOf
  <2>2. lost \cap AttemptsOf(i) = {a}
    BY Zenon, <1>2, <2>1 DEF AttemptsOf, Safety, OneAssignment
  <2>3. /\ ExpiredAbandonments(i)' = old \cup {a}
        /\ a \notin old
        /\ a \notin failed
    BY Zenon, <1>2, <1>3, <2>1, <2>2 DEF Safety, OneOutcome
  <2>4. /\ Cardinality(old) \in Nat
        /\ IsFiniteSet(old \cup {a})
        /\ Cardinality(old \cup {a}) = Cardinality(old) + 1
    BY Zenon, <1>4, <2>3, FS_AddElement, FS_CardinalityType
  <2>5. a \in exhausted <=> Cardinality(old) + 1 > RequeueLimit
    BY Zenon, <1>2, <2>1 DEF RetryExhausted
  <2>6. CASE a \in exhausted
    <3>1. (old \cup {a}) \ failed' = old \ failed
      BY Zenon, <1>1, <1>3, <2>6
    <3>2. QED
      BY Zenon, <1>4, <2>3, <2>4, <2>5, <2>6, <3>1
  <2>7. CASE a \notin exhausted
    <3>1. a \notin failed'
      BY Zenon, <1>1, <2>3, <2>7
    <3>2. Cardinality((old \cup {a}) \ failed') <= Cardinality(old \cup {a})
      BY Zenon, <2>4, FS_Subset
    <3>3. Cardinality((old \cup {a}) \ failed') \in Nat
      BY Zenon, <2>4, FS_Subset, FS_CardinalityType
    <3>4. Cardinality(old) + 1 <= RequeueLimit
      BY <2>4, <2>5, <2>7, StoreAssumption
    <3>5. (old \cup {a}) \cap failed' = {}
      BY <1>3, <1>4, <2>4, <3>1, <3>4, StoreAssumption
    <3>6. QED
      BY Zenon, <2>3, <2>4, <3>2, <3>3, <3>4, <3>5, StoreAssumption
  <2>8. QED
    BY Zenon, <2>6, <2>7
<1>7. QED
  BY Zenon, <1>5, <1>6

(* Nothing is abandoned at first.                                          *)
LEMMA RetryInit == Init => RetryInv
<1> SUFFICES ASSUME Init PROVE RetryInv
  BY Zenon
<1>1. \A i \in Items : ExpiredAbandonments(i) = {}
  BY Zenon DEF Init, ExpiredAbandonments, Reasons
<1>2. \A i \in Items : ExpiredAbandonments(i) \ failed = {} /\ ExpiredAbandonments(i) \cap failed = {}
  BY Zenon, <1>1
<1>3. IsFiniteSet({}) /\ Cardinality({}) <= RequeueLimit
  BY FS_EmptySet, StoreAssumption
<1>4. QED
  BY Zenon, <1>1, <1>2, <1>3 DEF RetryInv, RetryCeiling

(* Every step keeps the count of expired attempts below the ceiling.       *)
LEMMA RetryNext == Safety /\ RetryInv /\ [Next]_vars => RetryInv'
<1> SUFFICES ASSUME Safety, RetryInv, [Next]_vars PROVE RetryInv'
  BY Zenon
<1>1. CASE \E at \in Stamps : RecoverExpiredWorkerSessions(at)
  BY <1>1, RetryRecover DEF Stamps, Safety, TypeOK
<1>2. CASE \E s \in Sessions, a \in Attempts, i \in Items, at \in Stamps : ClaimNextWork(s, a, i, at)
  <2>1. PICK a \in Attempts, i \in Items :
          /\ itemOf[a] = None
          /\ itemOf' = [itemOf EXCEPT ![a] = i]
          /\ UNCHANGED <<failed, abandoned>>
    BY Zenon, <1>2 DEF ClaimNextWork, Used
  <2>2. a \notin abandoned["heartbeat_expired"]
    BY Zenon, <2>1 DEF Safety, TypeOK, Used, Reasons
  <2>3. \A j \in Items : ExpiredAbandonments(j)' = ExpiredAbandonments(j)
    BY Zenon, <2>1, <2>2 DEF ExpiredAbandonments, AttemptsOf, Safety, TypeOK
  <2>4. QED
    BY Zenon, <2>1, <2>3, RetryUnchanged
<1>3. CASE \E a \in Attempts, reporter \in Reporters, at \in Stamps : FailAttempt(a, reporter, at)
  <2>1. PICK a \in running : failed' = failed \cup {a} /\ UNCHANGED <<itemOf, abandoned>>
    BY Zenon, <1>3 DEF FailAttempt
  <2>2. a \notin abandoned["heartbeat_expired"]
    BY Zenon, <2>1 DEF Safety, OneOutcome, Abandoned
  <2>3. QED
    BY Zenon, <2>1, <2>2, RetryUnchanged DEF ExpiredAbandonments, AttemptsOf
<1>4. CASE \E s \in Sessions, at \in Stamps : StopWorkerSessionAndRecoverWork(s, at)
  <2>1. abandoned'["heartbeat_expired"] = abandoned["heartbeat_expired"] /\ UNCHANGED <<itemOf, failed>>
    BY Zenon, <1>4 DEF StopWorkerSessionAndRecoverWork, Safety, TypeOK, Reasons
  <2>2. QED
    BY Zenon, <2>1, RetryUnchanged DEF ExpiredAbandonments, AttemptsOf
<1>5. CASE UNCHANGED <<itemOf, failed, abandoned>>
  BY Zenon, <1>5, RetryUnchanged DEF ExpiredAbandonments, AttemptsOf
<1>6. QED
  BY Zenon, <1>1, <1>2, <1>3, <1>4, <1>5
  DEF Next, Tick, RegisterWorkerSession, HeartbeatWorkerSession, EndWorkerSession,
      QueueWorkItems, EnqueueWorkItems, CompleteAttempt

(* Expired sessions requeue an item at most RequeueLimit times, and the    *)
(* ceiling never fails it before that.                                     *)
THEOREM StoreRetryCeiling == Spec => []RetryCeiling
<1>1. Spec => []RetryInv
  BY RetryInit, RetryNext, StoreSafety, PTL DEF Spec
<1>2. QED
  BY <1>1, PTL DEF RetryInv

----------------------------------------------------------------------------
(* The resource limits.                                                    *)

(* The limit, with what counting needs: the units in use are finitely many.*)
ResourceInv ==
    /\ ResourceLimitHeld
    /\ \A k \in ResourceKeys : IsFiniteSet(UnitsInUse(k))

(* A stored constraint has a key, a number of units and a target.          *)
LEMMA ConstraintTypes ==
    ASSUME NEW i \in Items, NEW n \in DOMAIN Constraints[i]
    PROVE  Constraints[i][n] \in ResourceConstraint
<1>1. Constraints[i] \in Seq(ResourceConstraint)
  BY Zenon, StoreAssumption
<1> QED
  BY <1>1

(* What an attempt of item i holds of resource k while it runs.            *)
UnitsFor(a, i, k) ==
    UNION {{<<a, m, u>> : u \in 1 .. Constraints[i][m].units} :
               m \in {m \in DOMAIN Constraints[i] : Constraints[i][m].key = k}}

(* An item names a resource at most once, so that its attempt holds no     *)
(* more units of it than the one constraint asks for, which is what the    *)
(* admission test added.                                                   *)
LEMMA UnitsOfItem ==
    ASSUME NEW a, NEW i \in Items, NEW k, NEW n \in DOMAIN Constraints[i], Constraints[i][n].key = k
    PROVE  IsFiniteSet(UnitsFor(a, i, k)) /\ Cardinality(UnitsFor(a, i, k)) <= Constraints[i][n].units
<1> DEFINE units == Constraints[i][n].units
           T == {<<a, n, u>> : u \in 1 .. units}
<1>1. units \in Nat /\ units > 0
  BY ConstraintTypes DEF ResourceConstraint
<1>2. UnitsFor(a, i, k) = T
  <2>1. {m \in DOMAIN Constraints[i] : Constraints[i][m].key = k} = {n}
    BY Zenon, OneConstraintPerKey
  <2> QED
    BY <2>1 DEF UnitsFor
<1> HIDE DEF units
<1>3. [t \in T |-> t[3]] \in Injection(T, 1 .. units)
  <2>1. [t \in T |-> t[3]] \in [T -> 1 .. units]
    OBVIOUS
  <2>2. \A t, r \in T : t[3] = r[3] => t = r
    OBVIOUS
  <2> QED
    BY Zenon, <2>1, <2>2 DEF Injection, IsInjective
<1>4. IsFiniteSet(1 .. units) /\ Cardinality(1 .. units) = units
  BY <1>1, FS_Interval
<1> HIDE DEF T
<1>5. IsFiniteSet(T) /\ Cardinality(T) <= units
  BY <1>3, <1>4, FS_Injection
<1> QED
  BY Zenon, <1>2, <1>5 DEF units

(* Work that ends gives its units back.                                    *)
LEMMA ResourceReleased ==
    ASSUME ResourceInv, running' \subseteq running, UNCHANGED itemOf
    PROVE  ResourceInv'
<1>1. ASSUME NEW k \in ResourceKeys
      PROVE  IsFiniteSet(UnitsInUse(k)') /\ TotalUnits'[k] <= TotalUnits[k] /\ TotalUnits[k] \in Nat
             /\ TotalUnits'[k] \in Nat
  <2>1. UnitsInUse(k)' \subseteq UnitsInUse(k)
    BY DEF UnitsInUse, UnitsHeld
  <2>2. IsFiniteSet(UnitsInUse(k)) /\ IsFiniteSet(UnitsInUse(k)')
        /\ Cardinality(UnitsInUse(k)') <= Cardinality(UnitsInUse(k))
    BY Zenon, <2>1, FS_Subset DEF ResourceInv
  <2> QED
    BY Zenon, <2>2, FS_CardinalityType DEF TotalUnits
<1>2. ResourceLimitHeld'
  <2> SUFFICES ASSUME NEW i \in Items, NEW n \in DOMAIN Constraints[i],
                      \A j \in Items : \A m \in DOMAIN Constraints[j] :
                          Constraints[j][m].key = Constraints[i][n].key
                              => /\ Constraints[j][m].op = "<="
                                 /\ Constraints[j][m].target = Constraints[i][n].target
               PROVE  TotalUnits'[Constraints[i][n].key] <= Constraints[i][n].target
    BY Zenon DEF ResourceLimitHeld
  <2>1. TotalUnits[Constraints[i][n].key] <= Constraints[i][n].target
    BY Zenon DEF ResourceInv, ResourceLimitHeld
  <2>2. Constraints[i][n].key \in ResourceKeys /\ Constraints[i][n].target \in Nat
    BY Zenon, ConstraintTypes DEF ResourceConstraint
  <2> QED
    <3> DEFINE before == TotalUnits[Constraints[i][n].key]
               after == TotalUnits'[Constraints[i][n].key]
               target == Constraints[i][n].target
    <3>1. before \in Nat /\ after \in Nat /\ after <= before
      BY Zenon, <1>1, <2>2
    <3>2. before <= target /\ target \in Nat
      BY Zenon, <2>1, <2>2
    <3>3. after <= target
      <4> HIDE DEF before, after, target
      <4> QED
        BY ONLY <3>1, <3>2
    <3> QED
      BY ONLY Zenon, <3>3
<1> QED
  BY Zenon, <1>1, <1>2 DEF ResourceInv

(* A claim adds the units the admission test has added.                    *)
LEMMA ResourceClaimed ==
    ASSUME Safety, ResourceInv, NEW s \in Sessions, NEW a \in Attempts, NEW i \in Items, NEW at \in Nat,
           ClaimNextWork(s, a, i, at)
    PROVE  ResourceInv'
<1>1. /\ ResourceConstraintChecksAllow(TotalUnits, Constraints[i])
      /\ a \notin running /\ running' = running \cup {a}
      /\ itemOf'[a] = i /\ \A b \in running : itemOf'[b] = itemOf[b]
  BY Zenon DEF ClaimNextWork, NextClaimable, Safety, TypeOK, Used
<1>2. \A k \in ResourceKeys : UnitsInUse(k)' = UnitsInUse(k) \cup UnitsHeld(a, k)'
  <2> SUFFICES ASSUME NEW k \in ResourceKeys
               PROVE  UnitsInUse(k)' = UnitsInUse(k) \cup UnitsHeld(a, k)'
    BY Zenon
  <2>1. \A b \in running : UnitsHeld(b, k)' = UnitsHeld(b, k)
    <3>1. ASSUME NEW b \in running
          PROVE  UnitsHeld(b, k) = UnitsFor(b, itemOf[b], k) /\ UnitsHeld(b, k)' = UnitsFor(b, itemOf'[b], k)
      BY Zenon DEF UnitsHeld, UnitsFor
    <3> QED
      BY Zenon, <1>1, <3>1
  <2>2. UnitsInUse(k)' = UNION {UnitsHeld(b, k)' : b \in running'}
    BY Zenon DEF UnitsInUse
  <2> QED
    BY Zenon, <1>1, <2>1, <2>2 DEF UnitsInUse
<1>3. \A k \in ResourceKeys : IsFiniteSet(UnitsInUse(k)) /\ TotalUnits[k] = Cardinality(UnitsInUse(k))
                             /\ TotalUnits'[k] = Cardinality(UnitsInUse(k)') /\ TotalUnits[k] \in Nat
  BY Zenon, FS_CardinalityType DEF ResourceInv, TotalUnits
<1>4. ASSUME NEW k \in ResourceKeys, \A n \in DOMAIN Constraints[i] : Constraints[i][n].key # k
      PROVE  UnitsInUse(k)' = UnitsInUse(k)
  <2>1. UnitsHeld(a, k)' = {}
    BY Zenon, <1>1, <1>4 DEF UnitsHeld
  <2> QED
    BY Zenon, <1>2, <2>1
<1>5. ASSUME NEW k \in ResourceKeys, NEW n \in DOMAIN Constraints[i], Constraints[i][n].key = k
      PROVE  IsFiniteSet(UnitsInUse(k)') /\ TotalUnits'[k] \in Nat
             /\ TotalUnits'[k] <= TotalUnits[k] + Constraints[i][n].units
  <2> DEFINE A == UnitsInUse(k)
             B == UnitsHeld(a, k)'
             units == Constraints[i][n].units
  <2>1. IsFiniteSet(B) /\ Cardinality(B) <= units
    <3>1. B = UnitsFor(a, i, k)
      <4>1. itemOf'[a] = i
        BY Zenon, <1>1
      <4> QED
        BY ONLY <4>1 DEF B, UnitsHeld, UnitsFor
    <3> HIDE DEF B
    <3> QED
      BY Zenon, <1>5, <3>1, UnitsOfItem
  <2>2. units \in Nat
    BY Zenon, ConstraintTypes DEF ResourceConstraint
  <2>3. IsFiniteSet(A)
    BY Zenon, <1>3
  <2> HIDE DEF A, B, units
  <2>4. IsFiniteSet(A \cup B) /\ Cardinality(A \cup B) = Cardinality(A) + Cardinality(B) - Cardinality(A \cap B)
    BY Zenon, <2>1, <2>3, FS_Union
  <2>5. IsFiniteSet(A \cap B)
    BY Zenon, <2>3, FS_Subset
  <2>6. Cardinality(A) \in Nat /\ Cardinality(B) \in Nat /\ Cardinality(A \cap B) \in Nat /\ Cardinality(A \cup B) \in Nat
    BY Zenon, <2>1, <2>3, <2>4, <2>5, FS_CardinalityType
  <2>7. Cardinality(A \cup B) <= Cardinality(A) + units
    BY <2>1, <2>2, <2>4, <2>6
  <2> QED
    BY Zenon, <1>2, <1>3, <2>4, <2>6, <2>7 DEF A, B, units
<1>6. ResourceLimitHeld'
  <2> SUFFICES ASSUME NEW j \in Items, NEW m \in DOMAIN Constraints[j],
                      \A jj \in Items : \A mm \in DOMAIN Constraints[jj] :
                          Constraints[jj][mm].key = Constraints[j][m].key
                              => /\ Constraints[jj][mm].op = "<="
                                 /\ Constraints[jj][mm].target = Constraints[j][m].target
               PROVE  TotalUnits'[Constraints[j][m].key] <= Constraints[j][m].target
    BY Zenon DEF ResourceLimitHeld
  <2> DEFINE c == Constraints[j][m]
  <2>1. c.key \in ResourceKeys /\ c.target \in Nat
    BY Zenon, ConstraintTypes DEF ResourceConstraint
  <2>2. CASE \A n \in DOMAIN Constraints[i] : Constraints[i][n].key # c.key
    <3>1. TotalUnits[c.key] <= c.target
      BY Zenon DEF ResourceInv, ResourceLimitHeld
    <3> QED
      BY Zenon, <1>3, <1>4, <2>1, <2>2, <3>1
  <2>3. ASSUME NEW n \in DOMAIN Constraints[i], Constraints[i][n].key = c.key
        PROVE  TotalUnits'[c.key] <= c.target
    <3>1. Constraints[i][n].op = "<=" /\ Constraints[i][n].target = c.target
      BY Zenon, <2>3
    <3>2. TotalUnits[c.key] + Constraints[i][n].units <= c.target
      BY Zenon, <1>1, <2>3, <3>1 DEF ResourceConstraintChecksAllow, ResourceConstraintAllows, Compare
    <3>3. Constraints[i][n].units \in Nat
      BY Zenon, ConstraintTypes DEF ResourceConstraint
    <3>4. TotalUnits'[c.key] \in Nat /\ TotalUnits'[c.key] <= TotalUnits[c.key] + Constraints[i][n].units
      BY Zenon, <1>5, <2>1, <2>3
    <3>5. TotalUnits[c.key] \in Nat
      BY Zenon, <1>3, <2>1
    <3> DEFINE before == TotalUnits[c.key]
               after == TotalUnits'[c.key]
               units == Constraints[i][n].units
               target == c.target
    <3>6. before + units <= target /\ after <= before + units
          /\ before \in Nat /\ after \in Nat /\ units \in Nat /\ target \in Nat
      BY Zenon, <2>1, <3>2, <3>3, <3>4, <3>5
    <3> HIDE DEF before, after, units, target
    <3>7. after <= target
      BY ONLY <3>6
    <3> QED
      BY Zenon, <3>7 DEF after, target
  <2> QED
    BY Zenon, <2>2, <2>3
<1>7. \A k \in ResourceKeys : IsFiniteSet(UnitsInUse(k)')
  BY Zenon, <1>3, <1>4, <1>5
<1> QED
  BY Zenon, <1>6, <1>7 DEF ResourceInv

(* Nothing runs at first.                                                  *)
LEMMA ResourceInit == Init => ResourceInv
<1> SUFFICES ASSUME Init PROVE ResourceInv
  BY Zenon
<1>1. \A k \in ResourceKeys : UnitsInUse(k) = {}
  BY Zenon DEF Init, UnitsInUse
<1>2. \A k \in ResourceKeys : IsFiniteSet(UnitsInUse(k)) /\ TotalUnits[k] = 0
  BY Zenon, <1>1, FS_EmptySet DEF TotalUnits
<1>3. \A i \in Items : \A n \in DOMAIN Constraints[i] :
          Constraints[i][n].key \in ResourceKeys /\ Constraints[i][n].target \in Nat
  BY Zenon, ConstraintTypes DEF ResourceConstraint
<1> QED
  <2>1. ASSUME NEW i \in Items, NEW n \in DOMAIN Constraints[i]
        PROVE  TotalUnits[Constraints[i][n].key] <= Constraints[i][n].target
    <3>1. TotalUnits[Constraints[i][n].key] = 0 /\ Constraints[i][n].target \in Nat
      BY Zenon, <1>2, <1>3
    <3> QED
      BY ONLY <3>1
  <2> QED
    BY Zenon, <1>2, <2>1 DEF ResourceInv, ResourceLimitHeld

(* Only a claim adds to what is in use.                                    *)
LEMMA ResourceNext == Safety /\ ResourceInv /\ [Next]_vars => ResourceInv'
<1> SUFFICES ASSUME Safety, ResourceInv, [Next]_vars PROVE ResourceInv'
  BY Zenon
<1>1. CASE \E s \in Sessions, a \in Attempts, i \in Items, at \in Stamps : ClaimNextWork(s, a, i, at)
  <2>1. Stamps \subseteq Nat
    BY DEF Stamps
  <2> QED
    BY Zenon, <1>1, <2>1, ResourceClaimed
<1>2. CASE running' \subseteq running /\ UNCHANGED itemOf
  BY Zenon, <1>2, ResourceReleased
<1> QED
  BY Zenon, <1>1, <1>2 DEF Next, Tick, RecoverExpiredWorkerSessions, RegisterWorkerSession, HeartbeatWorkerSession,
     StopWorkerSessionAndRecoverWork, EndWorkerSession, QueueWorkItems, EnqueueWorkItems, CompleteAttempt,
     FailAttempt

(* Running work holds no more of a resource than the target its            *)
(* constraints agree on, however claims, reports and recoveries interleave.*)
THEOREM StoreResourceLimit == Spec => []ResourceLimitHeld
<1>1. Spec => []ResourceInv
  BY ResourceInit, ResourceNext, StoreSafety, PTL DEF Spec
<1> QED
  BY <1>1, PTL DEF ResourceInv

----------------------------------------------------------------------------
(* Action properties.                                                      *)

(* Multiplying by a number of units keeps the order of seconds.            *)
LEMMA SecondsScale ==
    ASSUME NEW u \in Nat, NEW m \in Int, NEW n \in Int, m < n
    PROVE  u * m + u <= u * n
<1>1. /\ n - m - 1 \in Nat
      /\ u * (n - m - 1) \in Nat
  OBVIOUS
<1>2. u * n = u * m + u + u * (n - m - 1)
  OBVIOUS
<1>3. QED
  BY <1>1, <1>2

(* Comparing texts instead of instants errs by less than one second.       *)
LEMMA TextOrderWithinSecond ==
    ASSUME NEW s \in Int, NEW t \in Int
    PROVE  /\ TextBefore(s, t) => s < t + UnitsPerSecond
           /\ ~TextBefore(s, t) => s > t - UnitsPerSecond
<1> DEFINE U == UnitsPerSecond
<1>1. /\ Second(s) \in Int /\ Fraction(s) \in 0 .. U-1 /\ s = U * Second(s) + Fraction(s)
      /\ Second(t) \in Int /\ Fraction(t) \in 0 .. U-1 /\ t = U * Second(t) + Fraction(t)
  BY UnitsAssumption DEF Second, Fraction
<1>2. /\ TextRank(s) \in U * Second(s) .. U * Second(s) + U - 1
      /\ TextRank(t) \in U * Second(t) .. U * Second(t) + U - 1
  BY <1>1, UnitsAssumption DEF TextRank
<1>3. /\ Second(s) < Second(t) => U * Second(s) + U <= U * Second(t)
      /\ Second(t) < Second(s) => U * Second(t) + U <= U * Second(s)
  BY Zenon, <1>1, UnitsAssumption, SecondsScale
<1>4. /\ TextBefore(s, t) => ~(Second(t) < Second(s))
      /\ ~TextBefore(s, t) => ~(Second(s) < Second(t))
  BY <1>1, <1>2, <1>3, UnitsAssumption DEF TextBefore
<1>5. QED
  BY <1>1, <1>3, <1>4, UnitsAssumption

(* What the clock readings of a step are.                                  *)
LEMMA StampType ==
    ASSUME TypeOK, NEW at \in Stamps
    PROVE  at \in Nat /\ at <= now /\ now - at <= MaxLag
BY DEF Stamps, TypeOK

(* The sessions a recovery marks dead have a silent heartbeat.             *)
LEMMA ExpiredIsSilent ==
    ASSUME TypeOK, NEW s \in Sessions, NEW at \in Stamps, Expired(s, at - DeadAfter)
    PROVE  now - heartbeat[s] > DeadAfter - UnitsPerSecond
<1>1. heartbeat[s] \in Int /\ at \in Int /\ at - DeadAfter \in Int /\ at <= now /\ now \in Int
  BY StampType, StoreAssumption DEF TypeOK, Times, NoRow
<1>2. heartbeat[s] < at - DeadAfter + UnitsPerSecond
  BY Zenon, <1>1, TextOrderWithinSecond DEF Expired
<1>3. QED
  BY <1>1, <1>2, StoreAssumption, UnitsAssumption

(* A session found live has a recent heartbeat.                            *)
LEMMA LiveIsRecent ==
    ASSUME TypeOK, NEW s \in Sessions, NEW at \in Stamps, Live(s, at - DeadAfter)
    PROVE  now - heartbeat[s] < DeadAfter + MaxLag + UnitsPerSecond
<1>1. heartbeat[s] \in Int /\ at \in Int /\ at - DeadAfter \in Int /\ now - at <= MaxLag /\ now \in Int
  BY StampType, StoreAssumption DEF TypeOK, Times, NoRow
<1>2. heartbeat[s] > at - DeadAfter - UnitsPerSecond
  BY Zenon, <1>1, TextOrderWithinSecond DEF Live, Expired
<1>3. QED
  BY <1>1, <1>2, StoreAssumption, UnitsAssumption

(* Dead and stopped sessions stay so, and settle or take nothing.          *)
THEOREM StoreDeadSessionsStayDead == Spec => DeadSessionsStayDead
<1>1. Safety /\ [Next]_vars => [DeadStaysDead]_vars
  <2> SUFFICES ASSUME Safety, Next, NEW s \in Sessions, status[s] \in {"dead", "stopped"}
               PROVE  /\ status'[s] = status[s]
                      /\ \A a \in Attempts : sessionOf'[a] = s =>
                            a \in Used /\ (a \in completed' => a \in completed)
    BY Zenon DEF DeadStaysDead
  <2>1. status'[s] = status[s]
    BY ZenonT(60) DEF Next, Tick, RecoverExpiredWorkerSessions, RegisterWorkerSession, HeartbeatWorkerSession,
           StopWorkerSessionAndRecoverWork, EndWorkerSession, ClaimNextWork, QueueWorkItems,
           EnqueueWorkItems, CompleteAttempt, FailAttempt, Safety, TypeOK
  <2>2. ASSUME NEW a \in Attempts, sessionOf'[a] = s PROVE sessionOf[a] = s
    <3>1. CASE \E r \in Sessions, b \in Attempts, i \in Items, at \in Stamps : ClaimNextWork(r, b, i, at)
      BY Zenon, <2>2, <3>1 DEF ClaimNextWork, validateWorkerSessionCanClaim, Live, Safety, TypeOK
    <3>2. CASE UNCHANGED sessionOf
      BY Zenon, <2>2, <3>2
    <3>3. QED
      BY Zenon, <3>1, <3>2 DEF Next, Tick, RecoverExpiredWorkerSessions, RegisterWorkerSession,
           HeartbeatWorkerSession, StopWorkerSessionAndRecoverWork, EndWorkerSession,
           QueueWorkItems, EnqueueWorkItems, CompleteAttempt, FailAttempt
  <2>3. ASSUME NEW a \in Attempts, sessionOf[a] = s, a \in completed' PROVE a \in completed
    <3>1. a \notin running
      BY Zenon, <2>3 DEF Safety, RunningOwned
    <3>2. QED
      BY <2>3, <3>1, ZenonT(60) DEF Next, Tick, RecoverExpiredWorkerSessions, RegisterWorkerSession,
           HeartbeatWorkerSession, StopWorkerSessionAndRecoverWork, EndWorkerSession, ClaimNextWork,
           QueueWorkItems, EnqueueWorkItems, CompleteAttempt, FailAttempt
  <2>4. QED
    BY Zenon, <2>1, <2>2, <2>3, StoreAssumption DEF Used, Safety, TypeOK
<1>2. QED
  BY <1>1, StoreSafety, PTL DEF Spec, DeadSessionsStayDead

(* Recovery of a session is one transition.                                *)
THEOREM StoreRecoveryAtomic == Spec => RecoveryAtomic
<1>1. Safety /\ [Next]_vars => [RecoversWhole]_vars
  <2> SUFFICES ASSUME Safety, Next PROVE RecoversWhole
    BY Zenon
  <2>1. CASE \E at \in Stamps : RecoverExpiredWorkerSessions(at)
    <3>1. PICK at \in Stamps : RecoverExpiredWorkerSessions(at)
      BY Zenon, <2>1
    <3> DEFINE gone == {s \in Sessions : status[s] = "active" /\ Expired(s, at - DeadAfter)}
               lost == RunningOf(gone)
               exhausted == {a \in lost : RetryExhausted(itemOf[a])}
               back == {itemOf[a] : a \in lost \ exhausted}
    <3>2. /\ status' = [s \in Sessions |-> IF s \in gone THEN "dead" ELSE status[s]]
          /\ abandoned' = [abandoned EXCEPT !["heartbeat_expired"] = @ \cup lost]
          /\ running' = running \ lost
          /\ failed' = failed \cup exhausted
          /\ queuedAt' = Requeue(back, at)
      BY Zenon, <3>1 DEF RecoverExpiredWorkerSessions
    <3>3. /\ \A a \in lost : a \in running /\ sessionOf[a] \in gone
          /\ gone \subseteq Sessions
      BY Zenon DEF RunningOf
    <3>4. back \in SUBSET Items
      <4>1. \A a \in running : itemOf[a] \in Items
        BY Zenon DEF Safety, TypeOK, Used
      <4>2. QED
        BY Zenon, <3>3, <4>1
    <3>5. \A a \in lost \ exhausted : queuedAt'[itemOf[a]] # NoRow
      BY Zenon, <3>2, <3>4, StampType, RequeueKeepsAndAdds DEF Safety
    <3> HIDE DEF gone, lost, exhausted, back
    <3>6. Abandoned' \ Abandoned \subseteq lost
      BY Zenon, <3>2 DEF Abandoned, Safety, TypeOK, Reasons
    <3>7. QED
      BY Zenon, <3>2, <3>3, <3>5, <3>6 DEF RecoversWhole
  <2>2. CASE \E s \in Sessions, at \in Stamps : StopWorkerSessionAndRecoverWork(s, at)
    <3>1. PICK s \in Sessions, at \in Stamps : StopWorkerSessionAndRecoverWork(s, at)
      BY Zenon, <2>2
    <3> DEFINE lost == RunningOf({s})
               back == {itemOf[a] : a \in lost}
    <3>2. /\ status' = [status EXCEPT ![s] = "stopped"]
          /\ abandoned' = [abandoned EXCEPT !["worker_stopped"] = @ \cup lost]
          /\ running' = running \ lost
          /\ queuedAt' = Requeue(back, at)
      BY Zenon, <3>1 DEF StopWorkerSessionAndRecoverWork
    <3>3. \A a \in lost : a \in running /\ sessionOf[a] = s
      BY Zenon DEF RunningOf
    <3>4. back \in SUBSET Items
      <4>1. \A a \in running : itemOf[a] \in Items
        BY Zenon DEF Safety, TypeOK, Used
      <4>2. QED
        BY Zenon, <3>3, <4>1
    <3>5. \A a \in lost : queuedAt'[itemOf[a]] # NoRow
      BY Zenon, <3>2, <3>4, StampType, RequeueKeepsAndAdds DEF Safety
    <3> HIDE DEF lost, back
    <3>6. Abandoned' \ Abandoned \subseteq lost
      BY Zenon, <3>2 DEF Abandoned, Safety, TypeOK, Reasons
    <3>7. QED
      BY Zenon, <3>2, <3>3, <3>5, <3>6 DEF RecoversWhole, Safety, TypeOK
  <2>3. CASE UNCHANGED abandoned
    BY Zenon, <2>3 DEF RecoversWhole, Abandoned
  <2>4. QED
    BY Zenon, <2>1, <2>2, <2>3 DEF Next, Tick, RegisterWorkerSession, HeartbeatWorkerSession,
       EndWorkerSession, ClaimNextWork, QueueWorkItems, EnqueueWorkItems, CompleteAttempt, FailAttempt
<1>2. QED
  BY <1>1, StoreSafety, PTL DEF Spec, RecoveryAtomic

(* Expiry takes work from silent sessions only.                            *)
THEOREM StoreExpiresSilent == Spec => ExpiredOnlyWhenSilent
<1>1. TypeOK /\ [Next]_vars => [ExpiresSilent]_vars
  <2> SUFFICES ASSUME TypeOK, Next PROVE ExpiresSilent
    BY Zenon
  <2>1. CASE \E at \in Stamps : RecoverExpiredWorkerSessions(at)
    <3>1. PICK at \in Stamps : RecoverExpiredWorkerSessions(at)
      BY Zenon, <2>1
    <3>2. \A a \in NewlyExpired : sessionOf[a] \in Sessions /\ Expired(sessionOf[a], at - DeadAfter)
      BY Zenon, <3>1 DEF RecoverExpiredWorkerSessions, RunningOf, NewlyExpired, TypeOK, Reasons
    <3>3. QED
      BY Zenon, <3>2, ExpiredIsSilent DEF ExpiresSilent
  <2>2. CASE abandoned'["heartbeat_expired"] = abandoned["heartbeat_expired"]
    BY Zenon, <2>2 DEF ExpiresSilent, NewlyExpired
  <2>3. QED
    BY Zenon, <2>1, <2>2 DEF Next, Tick, RegisterWorkerSession, HeartbeatWorkerSession, TypeOK, Reasons,
       StopWorkerSessionAndRecoverWork, EndWorkerSession, ClaimNextWork, QueueWorkItems,
       EnqueueWorkItems, CompleteAttempt, FailAttempt
<1>2. QED
  BY <1>1, StoreTypeCorrect, PTL DEF Spec, ExpiredOnlyWhenSilent

(* Where every report names its session, none is accepted from a session   *)
(* that is not active or that has been silent for too long.                *)
THEOREM StoreOutcomesFenced == ASSUME Reporters \subseteq Sessions PROVE Spec => OutcomesFenced
<1>1. Safety /\ [Next]_vars => [SettlesFenced]_vars
  <2> SUFFICES ASSUME Safety, Next PROVE SettlesFenced
    BY Zenon
  <2>1. CASE \E a \in Attempts, reporter \in Reporters, at \in Stamps :
               CompleteAttempt(a, reporter, at) \/ FailAttempt(a, reporter, at)
    <3>1. PICK a \in Attempts, s \in Sessions, at \in Stamps :
            CompleteAttempt(a, s, at) \/ FailAttempt(a, s, at)
      BY Zenon, <2>1
    <3>2. sessionOf[a] = s /\ Live(s, at - DeadAfter)
      BY Zenon, <3>1, StoreAssumption DEF CompleteAttempt, FailAttempt, validateRunningAssignmentOwner
    <3>3. \A b \in (completed' \ completed) \cup (failed' \ (failed \cup Abandoned')) : b = a
      BY Zenon, <3>1 DEF CompleteAttempt, FailAttempt
    <3>4. QED
      BY Zenon, <3>2, <3>3, LiveIsRecent DEF SettlesFenced, Live, Safety
  <2>2. CASE \E at \in Stamps : RecoverExpiredWorkerSessions(at)
    <3>1. completed' = completed /\ failed' \ failed \subseteq Abandoned'
      BY Zenon, <2>2 DEF RecoverExpiredWorkerSessions, Abandoned, Safety, TypeOK, Reasons
    <3> QED
      BY Zenon, <3>1 DEF SettlesFenced
  <2>3. CASE UNCHANGED <<completed, failed>>
    BY Zenon, <2>3 DEF SettlesFenced
  <2>4. QED
    BY Zenon, <2>1, <2>2, <2>3 DEF Next, Tick, RegisterWorkerSession, HeartbeatWorkerSession,
       StopWorkerSessionAndRecoverWork, EndWorkerSession, ClaimNextWork, QueueWorkItems,
       EnqueueWorkItems
<1>2. QED
  BY <1>1, StoreSafety, PTL DEF Spec, OutcomesFenced

----------------------------------------------------------------------------
(* The store implements WorkLeases: with queued_work as the offered items, *)
(* running_work as the leases and ended sessions as the retired holders,   *)
(* every transaction is a step of the abstract specification or leaves its *)
(* variables alone.                                                        *)

(* What the abstract variables hold, in terms of the tables.               *)
LEMMA HeldItems ==
    ASSUME NEW H \in SUBSET Sessions
    PROVE  Leases!HeldBy(H) = {itemOf[a] : a \in RunningOf(H)}
<1>1. ASSUME NEW i \in Leases!HeldBy(H) PROVE i \in {itemOf[a] : a \in RunningOf(H)}
  <2>1. PICK l \in LeasePairs : l[2] \in H /\ i = l[1]
    BY Zenon DEF Leases!HeldBy
  <2>2. PICK a \in running : l = <<itemOf[a], sessionOf[a]>>
    BY Zenon, <2>1 DEF LeasePairs
  <2>3. a \in RunningOf(H)
    BY Zenon, <2>1, <2>2 DEF RunningOf
  <2>4. QED
    BY Zenon, <2>1, <2>2, <2>3
<1>2. ASSUME NEW a \in RunningOf(H) PROVE itemOf[a] \in Leases!HeldBy(H)
  <2>1. <<itemOf[a], sessionOf[a]>> \in LeasePairs
    BY Zenon DEF RunningOf, LeasePairs
  <2>2. QED
    BY <2>1 DEF RunningOf, Leases!HeldBy
<1>3. QED
  BY Zenon, <1>1, <1>2

(* No lease is offered, granted or retired at first.                       *)
LEMMA LeasesInit == Init => Leases!Init
<1> SUFFICES ASSUME Init PROVE Leases!Init
  BY Zenon
<1>1. Queued = {}
  BY Zenon DEF Init, Queued
<1>2. LeasePairs = {} /\ OutcomePairs = {}
  BY Zenon DEF Init, LeasePairs, OutcomePairs
<1>3. Retired = {}
  BY Zenon DEF Init, Retired
<1> QED
  BY Zenon, <1>1, <1>2, <1>3 DEF Leases!Init

(* What is queued again joins what is queued.                              *)
LEMMA RequeueQueued ==
    ASSUME TypeOK, NEW S \in SUBSET Items, NEW at \in Nat, queuedAt' = Requeue(S, at)
    PROVE  Queued' = Queued \cup S
<1>1. at # NoRow
  BY DEF NoRow
<1>2. \A i \in Items : queuedAt'[i] # NoRow <=> queuedAt[i] # NoRow \/ i \in S
  BY Zenon, <1>1 DEF Requeue
<1> QED
  BY Zenon, <1>2 DEF Queued

(* A transaction that touches neither the queue, the running rows, the     *)
(* outcomes nor the end of a session.                                      *)
LEMMA LeasesUnchanged ==
    ASSUME UNCHANGED <<queuedAt, attemptVars, running, completed, failed>>, Retired' = Retired
    PROVE  UNCHANGED Leases!leaseVars
BY Zenon DEF Leases!leaseVars, Queued, LeasePairs, OutcomePairs

(* Queuing is an offer.                                                    *)
LEMMA LeasesOffer ==
    ASSUME TypeOK, NEW S \in SUBSET Items, NEW at \in Nat, queuedAt' = Requeue(S, at),
           UNCHANGED <<sessionVars, attemptVars, running, completed, failed>>
    PROVE  Leases!Next
<1>1. Queued' = Queued \cup S
  BY Zenon, RequeueQueued
<1>2. UNCHANGED <<LeasePairs, OutcomePairs, Retired>>
  BY Zenon DEF LeasePairs, OutcomePairs, Retired
<1>3. Leases!Offer(S)
  BY Zenon, <1>1, <1>2 DEF Leases!Offer
<1>4. QED
  BY Zenon, <1>3 DEF Leases!Next

(* A claim is a grant.                                                     *)
LEMMA LeasesGrant ==
    ASSUME Safety, NEW s \in Sessions, NEW a \in Attempts, NEW i \in Items, NEW at \in Nat,
           ClaimNextWork(s, a, i, at)
    PROVE  Leases!Next
<1>1. /\ i \in Queued /\ status[s] = "active" /\ a \notin Used
      /\ \A b \in running : sessionOf[b] # s /\ itemOf[b] # i
      /\ itemOf' = [itemOf EXCEPT ![a] = i]
      /\ sessionOf' = [sessionOf EXCEPT ![a] = s]
      /\ running' = running \cup {a}
      /\ queuedAt' = [queuedAt EXCEPT ![i] = NoRow]
      /\ UNCHANGED <<status, completed, failed>>
  BY Zenon DEF ClaimNextWork, NextClaimable, validateWorkerSessionCanClaim, Live, RunningOf,
         RunningItems
<1>2. /\ a \notin running \cup completed \cup failed
      /\ running \cup completed \cup failed \subseteq Attempts
      /\ itemOf \in [Attempts -> Items \cup {None}]
      /\ sessionOf \in [Attempts -> Sessions \cup {None}]
      /\ queuedAt \in [Items -> Times]
  BY Zenon, <1>1 DEF Safety, TypeOK, Used
<1>3. Queued' = Queued \ {i}
  BY Zenon, <1>1, <1>2 DEF Queued
<1>4. LeasePairs' = LeasePairs \cup {<<i, s>>}
  <2>1. itemOf'[a] = i /\ sessionOf'[a] = s
    BY Zenon, <1>1, <1>2
  <2>2. \A b \in running : itemOf'[b] = itemOf[b] /\ sessionOf'[b] = sessionOf[b]
    BY Zenon, <1>1, <1>2
  <2>3. LeasePairs' = {<<itemOf'[b], sessionOf'[b]>> : b \in running \cup {a}}
    BY Zenon, <1>1 DEF LeasePairs
  <2> QED
    BY ONLY Zenon, <2>1, <2>2, <2>3 DEF LeasePairs
<1>5. OutcomePairs' = OutcomePairs
  <2>1. \A b \in completed \cup failed : itemOf'[b] = itemOf[b]
    BY Zenon, <1>1, <1>2
  <2> QED
    BY ONLY Zenon, <1>1, <2>1 DEF OutcomePairs
<1>6. \A l \in LeasePairs : l[1] # i /\ l[2] # s
  <2>1. \A b \in running : itemOf[b] # i /\ sessionOf[b] # s
    BY Zenon, <1>1
  <2> QED
    BY ONLY <2>1 DEF LeasePairs
<1>7. s \notin Retired /\ Retired' = Retired
  BY Zenon, <1>1 DEF Retired
<1>8. Leases!Grant(i, s)
  BY Zenon, <1>1, <1>3, <1>4, <1>5, <1>6, <1>7 DEF Leases!Grant
<1>9. QED
  BY Zenon, <1>8 DEF Leases!Next

(* A completion or a failure ends the one lease of its attempt.            *)
LEMMA LeasesSettle ==
    ASSUME Safety, NEW a \in Attempts, NEW reporter \in Reporters, NEW at \in Nat,
           CompleteAttempt(a, reporter, at) \/ FailAttempt(a, reporter, at)
    PROVE  Leases!Next
<1> DEFINE i == itemOf[a]
           s == sessionOf[a]
<1>1. /\ a \in running /\ running' = running \ {a}
      /\ UNCHANGED <<sessionVars, itemVars, attemptVars>>
      /\ \/ completed' = completed \cup {a} /\ failed' = failed
         \/ failed' = failed \cup {a} /\ completed' = completed
  BY Zenon DEF CompleteAttempt, FailAttempt
<1>2. i \in Items /\ s \in Sessions
  BY Zenon, <1>1 DEF Safety, TypeOK, Used
<1>3. \A b \in running : itemOf[b] = i \/ sessionOf[b] = s => b = a
  BY Zenon, <1>1 DEF Safety, OneAssignment
<1>4. LeasePairs' = LeasePairs \ {<<i, s>>}
  <2>1. LeasePairs' = {<<itemOf[b], sessionOf[b]>> : b \in running \ {a}}
    BY Zenon, <1>1 DEF LeasePairs
  <2>2. \A b \in running : <<itemOf[b], sessionOf[b]>> = <<i, s>> <=> b = a
    BY Zenon, <1>1, <1>3
  <2> HIDE DEF i, s
  <2> QED
    BY Zenon, <2>1, <2>2 DEF LeasePairs
<1>5. <<i, s>> \in LeasePairs
  BY Zenon, <1>1 DEF LeasePairs
<1>6. UNCHANGED <<Queued, Retired>>
  BY Zenon, <1>1 DEF Queued, Retired
<1>7. PICK outcome \in Leases!Outcomes : OutcomePairs' = OutcomePairs \cup {<<i, outcome>>}
  BY Zenon, <1>1 DEF OutcomePairs, Leases!Outcomes
<1>8. Leases!Settle(i, s, outcome)
  BY Zenon, <1>4, <1>5, <1>6, <1>7 DEF Leases!Settle
<1>9. QED
  BY Zenon, <1>2, <1>8 DEF Leases!Next

(* Sessions that end, whatever the reason: what they ran is queued again,  *)
(* except the attempts that become failed.                                 *)
LEMMA LeasesRetire ==
    ASSUME Safety, NEW H \in SUBSET Sessions, NEW exhausted \in SUBSET RunningOf(H),
           NEW at \in Nat,
           running' = running \ RunningOf(H),
           failed' = failed \cup exhausted,
           queuedAt' = Requeue({itemOf[a] : a \in RunningOf(H) \ exhausted}, at),
           Retired' = Retired \cup H,
           UNCHANGED <<attemptVars, completed>>
    PROVE  Leases!Next
<1> DEFINE givenUp == {itemOf[a] : a \in exhausted}
           back == {itemOf[a] : a \in RunningOf(H) \ exhausted}
<1>1. RunningOf(H) \subseteq running
  BY Zenon DEF RunningOf
<1>2. \A a \in running : itemOf[a] \in Items
  BY Zenon DEF Safety, TypeOK, Used
<1>3. givenUp \in SUBSET Items /\ back \in SUBSET Items
  BY Zenon, <1>1, <1>2
<1>4. \A a, b \in running : itemOf[a] = itemOf[b] => a = b
  BY Zenon DEF Safety, OneAssignment
<1>5. back = Leases!HeldBy(H) \ givenUp
  <2>1. exhausted \subseteq running
    BY Zenon, <1>1
  <2>2. \A a \in RunningOf(H) \ exhausted : itemOf[a] \notin givenUp
    BY Zenon, <1>1, <1>4, <2>1
  <2>3. \A a \in RunningOf(H) : itemOf[a] \notin givenUp => a \notin exhausted
    BY Zenon
  <2>4. Leases!HeldBy(H) = {itemOf[a] : a \in RunningOf(H)}
    BY Zenon, HeldItems
  <2> QED
    BY Zenon, <2>2, <2>3, <2>4
<1>6. Queued' = Queued \cup back
  BY Zenon, <1>3, RequeueQueued DEF Safety
<1>7. LeasePairs' = {l \in LeasePairs : l[2] \notin H}
  <2>1. LeasePairs' = {<<itemOf[a], sessionOf[a]>> : a \in running \ RunningOf(H)}
    BY Zenon DEF LeasePairs
  <2>2. \A a \in running : a \in RunningOf(H) <=> sessionOf[a] \in H
    BY Zenon DEF RunningOf
  <2>3. LeasePairs = {<<itemOf[a], sessionOf[a]>> : a \in running}
    BY Zenon DEF LeasePairs
  <2> QED
    BY ONLY <2>1, <2>2, <2>3
<1>8. OutcomePairs' = OutcomePairs \cup {<<i, "failed">> : i \in givenUp}
  BY Zenon DEF OutcomePairs
<1>9. givenUp = Leases!HeldBy(H) \cap givenUp
  BY Zenon, HeldItems
<1>10. Leases!Retire(H, givenUp)
  BY Zenon, <1>5, <1>6, <1>7, <1>8, <1>9 DEF Leases!Retire
<1>11. QED
  BY Zenon, <1>3, <1>10 DEF Leases!Next

(* Every step is a step of the leases, or none at all.                     *)
LEMMA LeasesNext == Safety /\ [Next]_vars => [Leases!Next]_(Leases!leaseVars)
<1> SUFFICES ASSUME Safety, [Next]_vars
             PROVE  Leases!Next \/ UNCHANGED Leases!leaseVars
  BY Zenon
<1>1. CASE UNCHANGED vars \/ Tick
  BY Zenon, <1>1, LeasesUnchanged DEF Tick, Retired
<1>2. ASSUME NEW at \in Stamps, RecoverExpiredWorkerSessions(at) PROVE Leases!Next
  <2> DEFINE gone == {s \in Sessions : status[s] = "active" /\ Expired(s, at - DeadAfter)}
             exhausted == {a \in RunningOf(gone) : RetryExhausted(itemOf[a])}
  <2>1. at \in Nat /\ gone \in SUBSET Sessions /\ exhausted \in SUBSET RunningOf(gone)
    BY DEF Stamps
  <2>2. Retired' = Retired \cup gone
    BY Zenon, <1>2 DEF RecoverExpiredWorkerSessions, Retired, Safety, TypeOK, Statuses
  <2>3. /\ running' = running \ RunningOf(gone)
        /\ failed' = failed \cup exhausted
        /\ queuedAt' = Requeue({itemOf[a] : a \in RunningOf(gone) \ exhausted}, at)
        /\ UNCHANGED <<attemptVars, completed>>
    BY Zenon, <1>2 DEF RecoverExpiredWorkerSessions
  <2> HIDE DEF gone, exhausted
  <2>4. QED
    BY Zenon, <2>1, <2>2, <2>3, LeasesRetire
<1>3. ASSUME NEW at \in Stamps, NEW s \in Sessions, StopWorkerSessionAndRecoverWork(s, at)
      PROVE  Leases!Next
  <2>1. at \in Nat /\ {s} \in SUBSET Sessions /\ {} \in SUBSET RunningOf({s})
    BY DEF Stamps
  <2>2. Retired' = Retired \cup {s}
    BY Zenon, <1>3 DEF StopWorkerSessionAndRecoverWork, Retired, Safety, TypeOK
  <2>3. /\ running' = running \ RunningOf({s})
        /\ failed' = failed \cup {}
        /\ queuedAt' = Requeue({itemOf[a] : a \in RunningOf({s}) \ {}}, at)
        /\ UNCHANGED <<attemptVars, completed>>
    BY Zenon, <1>3 DEF StopWorkerSessionAndRecoverWork
  <2>4. QED
    BY Zenon, <2>1, <2>2, <2>3, LeasesRetire
<1>4. ASSUME NEW s \in Sessions, NEW final \in {"stopped", "dead"}, EndWorkerSession(s, final)
      PROVE  Leases!Next
  <2>1. {s} \in SUBSET Sessions /\ {} \in SUBSET RunningOf({s}) /\ 0 \in Nat
    BY Zenon
  <2>2. Retired' = Retired \cup {s}
    BY Zenon, <1>4 DEF EndWorkerSession, Retired, Safety, TypeOK
  <2>3. /\ running' = running \ RunningOf({s})
        /\ failed' = failed \cup {}
        /\ UNCHANGED <<attemptVars, completed>>
    BY Zenon, <1>4 DEF EndWorkerSession
  <2>4. queuedAt' = Requeue({itemOf[a] : a \in RunningOf({s}) \ {}}, 0)
    BY Zenon, <1>4 DEF EndWorkerSession, Requeue, Safety, TypeOK
  <2>5. QED
    BY Zenon, <2>1, <2>2, <2>3, <2>4, LeasesRetire
<1>5. ASSUME NEW at \in Stamps, NEW s \in Sessions,
             RegisterWorkerSession(s, at) \/ HeartbeatWorkerSession(s, at)
      PROVE  UNCHANGED Leases!leaseVars
  <2>1. Retired' = Retired
    BY Zenon, <1>5 DEF RegisterWorkerSession, HeartbeatWorkerSession, Retired, Safety, TypeOK
  <2>2. UNCHANGED <<queuedAt, attemptVars, running, completed, failed>>
    BY Zenon, <1>5 DEF RegisterWorkerSession, HeartbeatWorkerSession
  <2>3. QED
    BY Zenon, <2>1, <2>2, LeasesUnchanged
<1>6. ASSUME NEW at \in Stamps, NEW s \in Sessions, NEW a \in Attempts, NEW i \in Items,
             ClaimNextWork(s, a, i, at)
      PROVE  Leases!Next
  BY <1>6, LeasesGrant DEF Stamps
<1>7. ASSUME NEW at \in Stamps, NEW b \in Batches, QueueWorkItems(b, at) PROVE Leases!Next
  <2>1. at \in Nat /\ RFC3339(at) \in Nat /\ b.ready \in SUBSET Items
    BY RFC3339Type, StoreAssumption, SMTT(30) DEF Stamps
  <2>2. QED
    BY Zenon, <1>7, <2>1, LeasesOffer DEF QueueWorkItems, Safety
<1>8. ASSUME NEW at \in Stamps, NEW S \in SUBSET Held, EnqueueWorkItems(S, at)
      PROVE  Leases!Next
  <2>1. at \in Nat /\ RFC3339(at) \in Nat /\ S \in SUBSET Items
    BY <1>8, RFC3339Type DEF Stamps, EnqueueWorkItems, Inserted
  <2>2. QED
    BY Zenon, <1>8, <2>1, LeasesOffer DEF EnqueueWorkItems, Safety
<1>9. ASSUME NEW at \in Stamps, NEW a \in Attempts, NEW reporter \in Reporters,
             CompleteAttempt(a, reporter, at) \/ FailAttempt(a, reporter, at)
      PROVE  Leases!Next
  BY <1>9, LeasesSettle DEF Stamps
<1>10. QED
  BY Zenon, <1>1, <1>2, <1>3, <1>4, <1>5, <1>6, <1>7, <1>8, <1>9 DEF Next

(* The store keeps the promise of WorkLeases: sessions, heartbeats, text   *)
(* timestamps, queue order and resource limits are one way of leasing      *)
(* work, and no transaction of it leases, settles or returns work in a way *)
(* the abstract specification does not allow.                              *)
THEOREM StoreImplementsLeases == Spec => ImplementsLeases
<1>1. Init => Leases!Init
  BY Zenon, LeasesInit
<1>2. Safety /\ [Next]_vars => [Leases!Next]_(Leases!leaseVars)
  BY Zenon, LeasesNext
<1>3. QED
  BY <1>1, <1>2, StoreSafety, PTL DEF Spec, Leases!Spec, ImplementsLeases
============================================================================
