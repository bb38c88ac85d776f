----------------------------- MODULE WorkStore -----------------------------
(***************************************************************************)
(* The controller's SQLite store of work (internal/persistence): worker    *)
(* sessions, queued and running work, attempts and their outcomes.  Each   *)
(* action is one transaction of the store.  A transaction that reports an  *)
(* error, a conflict or "nothing to do" commits no change, and so is a     *)
(* stuttering step; the guards are the conditions of the other path.       *)
(*                                                                         *)
(* The state is durable: a controller that crashes and restarts finds it   *)
(* as the last committed transaction left it, so a crash is no step here.  *)
(***************************************************************************)
EXTENDS Timestamps, ResourceAdmission, FiniteSets

CONSTANTS Sessions,      \* worker_session_id values (random, one worker each)
          Items,         \* work_item_id values; their order is the id order
          Attempts,      \* attempt_id values (random, never reused)
          None,          \* NULL, or the empty id of a request
          Reporters,     \* session ids a terminal report may carry
          Constraints,   \* resource constraints stored with each item
          Batches,       \* items a stage or raw submission stores together,
                         \* and those of them it also enqueues
          DeadAfter,     \* worker_dead_after
          RequeueLimit,  \* expiredSessionRequeueLimit (3 in the code)
          MaxLag,        \* bound: units between reading the clock and commit
          MaxTime        \* bound: the last instant

ASSUME StoreAssumption ==
    /\ Items \subseteq Nat
    /\ None \notin Sessions /\ None \notin Items
    /\ Reporters \subseteq Sessions \cup {None}
    /\ Constraints \in [Items -> Seq(ResourceConstraint)]
    /\ Batches \subseteq [items : SUBSET Items, ready : (SUBSET Items) \ {{}}]
    /\ \A b \in Batches : b.ready \subseteq b.items
    /\ DeadAfter \in Nat \ {0}
    /\ RequeueLimit \in Nat
    /\ MaxLag \in Nat /\ MaxTime \in Nat

(* validateConstraints: an item names a resource at most once.             *)
ASSUME OneConstraintPerKey ==
    \A i \in Items : \A m, n \in DOMAIN Constraints[i] :
        Constraints[i][m].key = Constraints[i][n].key => m = n

VARIABLES now,        \* the controller's clock
          status,     \* worker_sessions.status; "none" is no row
          heartbeat,  \* worker_sessions.last_heartbeat_at
          createdAt,  \* work_items.created_at
          queuedAt,   \* queued_work.queued_at
          itemOf,     \* work_item_attempts.work_item_id
          sessionOf,  \* work_item_attempts.worker_session_id
          running,    \* running_work
          completed,  \* completed_work
          failed,     \* failed_work
          abandoned   \* abandoned_work, by reason

sessionVars == <<status, heartbeat>>
itemVars == <<createdAt, queuedAt>>
attemptVars == <<itemOf, sessionOf>>
outcomeVars == <<completed, failed, abandoned>>
vars == <<now, sessionVars, itemVars, attemptVars, running, outcomeVars>>

(* Items stored with a batch but enqueued only once what they depend on has *)
(* completed.                                                              *)
Held == UNION {b.items \ b.ready : b \in Batches}

NoRow == -1
Times == Nat \cup {NoRow}
Statuses == {"none", "active", "stopped", "dead"}
Reasons == {"heartbeat_expired", "worker_stopped"}

----------------------------------------------------------------------------
(* Queries.                                                                *)

Inserted == {i \in Items : createdAt[i] # NoRow}
Queued == {i \in Items : queuedAt[i] # NoRow}
Used == {a \in Attempts : itemOf[a] # None}
AttemptsOf(i) == {a \in Attempts : itemOf[a] = i}
RunningOf(S) == {a \in running : sessionOf[a] \in S}
RunningItems == {itemOf[a] : a \in running}
Abandoned == abandoned["heartbeat_expired"] \cup abandoned["worker_stopped"]

(* Clock readings a handler may bring to its transaction.                  *)
Stamps == {t \in 0 .. now : now - t <= MaxLag}

(* Faulty: measures the silence from now instead of from the cutoff.       *)
ExpiredAtOnce(s, cutoff) == TextBefore(heartbeat[s], cutoff + DeadAfter)
Expired(s, cutoff) == TextBefore(heartbeat[s], cutoff)
Live(s, cutoff) == status[s] = "active" /\ ~Expired(s, cutoff)

(* View queued_resource_constraint_checks: the units of each resource that *)
(* running work holds, counted one by one.                                 *)
UnitsHeld(a, k) ==
    LET cs == Constraints[itemOf[a]]
    IN  UNION {{<<a, n, u>> : u \in 1 .. cs[n].units} : n \in {m \in DOMAIN cs : cs[m].key = k}}
UnitsInUse(k) == UNION {UnitsHeld(a, k) : a \in running}
TotalUnits == [k \in ResourceKeys |-> Cardinality(UnitsInUse(k))]

(* ORDER BY queued_at, work_item_id.                                       *)
Ahead(j, i) ==
    \/ TextBefore(queuedAt[j], queuedAt[i])
    \/ queuedAt[j] = queuedAt[i] /\ j < i

(* The scan of ClaimNextWork stops at item i and tries to claim it.        *)
NextClaimable(i) ==
    /\ i \in Queued
    /\ ResourceConstraintChecksAllow(TotalUnits, Constraints[i])
    /\ \A j \in Queued : Ahead(j, i) =>
           /\ ~ResourceConstraintChecksAllow(TotalUnits, Constraints[j])
           /\ ~ResourceConstraintChecksError(TotalUnits, Constraints[j])

(* INSERT INTO queued_work ... ON CONFLICT DO NOTHING, for a set of items. *)
Requeue(S, at) ==
    [i \in Items |-> IF i \in S /\ queuedAt[i] = NoRow THEN at ELSE queuedAt[i]]

----------------------------------------------------------------------------
Init ==
    /\ now = 0
    /\ status = [s \in Sessions |-> "none"]
    /\ heartbeat = [s \in Sessions |-> NoRow]
    /\ createdAt = [i \in Items |-> NoRow]
    /\ queuedAt = [i \in Items |-> NoRow]
    /\ itemOf = [a \in Attempts |-> None]
    /\ sessionOf = [a \in Attempts |-> None]
    /\ running = {} /\ completed = {} /\ failed = {}
    /\ abandoned = [r \in Reasons |-> {}]

Tick ==
    /\ now < MaxTime
    /\ now' = now + 1
    /\ UNCHANGED <<sessionVars, itemVars, attemptVars, running, outcomeVars>>

(* A registration of an id the table already holds changes nothing.        *)
RegisterWorkerSession(s, at) ==
    /\ status[s] = "none"
    /\ status' = [status EXCEPT ![s] = "active"]
    /\ heartbeat' = [heartbeat EXCEPT ![s] = at]
    /\ UNCHANGED <<now, itemVars, attemptVars, running, outcomeVars>>

(* Faulty: a late heartbeat brings an ended session back.                  *)
HeartbeatRevives(s, at) ==
    /\ status[s] # "none"
    /\ status' = [status EXCEPT ![s] = "active"]
    /\ heartbeat' = [heartbeat EXCEPT ![s] = at]
    /\ UNCHANGED <<now, itemVars, attemptVars, running, outcomeVars>>

(* No cutoff is consulted: an expired session not yet marked dead revives. *)
HeartbeatWorkerSession(s, at) ==
    /\ status[s] = "active"
    /\ heartbeat' = [heartbeat EXCEPT ![s] = at]
    /\ UNCHANGED <<now, status, itemVars, attemptVars, running, outcomeVars>>

(* Abandonments of an item that count against the retry ceiling.           *)
ExpiredAbandonments(i) == abandoned["heartbeat_expired"] \cap AttemptsOf(i)

(* Faulty: counts only the earlier abandonments.                           *)
RetryExhaustedLate(i) == Cardinality(ExpiredAbandonments(i)) > RequeueLimit

(* The abandonment being recorded is itself counted, hence the "+ 1".      *)
RetryExhausted(i) == Cardinality(ExpiredAbandonments(i)) + 1 > RequeueLimit

RecoverExpiredWorkerSessions(at) ==
    LET gone == {s \in Sessions : status[s] = "active" /\ Expired(s, at - DeadAfter)}
        lost == RunningOf(gone)
        exhausted == {a \in lost : RetryExhausted(itemOf[a])}
    IN  /\ gone # {}
        /\ status' = [s \in Sessions |-> IF s \in gone THEN "dead" ELSE status[s]]
        /\ abandoned' = [abandoned EXCEPT !["heartbeat_expired"] = @ \cup lost]
        /\ running' = running \ lost
        /\ failed' = failed \cup exhausted
        /\ queuedAt' = Requeue({itemOf[a] : a \in lost \ exhausted}, at)
        /\ UNCHANGED <<now, heartbeat, createdAt, attemptVars, completed>>

(* Faulty: abandons the work of a stopped session without requeueing it.   *)
StopWithoutRequeue(s, at) ==
    LET lost == RunningOf({s})
    IN  /\ status[s] = "active"
        /\ status' = [status EXCEPT ![s] = "stopped"]
        /\ abandoned' = [abandoned EXCEPT !["worker_stopped"] = @ \cup lost]
        /\ running' = running \ lost
        /\ UNCHANGED <<now, heartbeat, itemVars, attemptVars, completed, failed>>

StopWorkerSessionAndRecoverWork(s, at) ==
    LET lost == RunningOf({s})
    IN  /\ status[s] = "active"
        /\ status' = [status EXCEPT ![s] = "stopped"]
        /\ abandoned' = [abandoned EXCEPT !["worker_stopped"] = @ \cup lost]
        /\ running' = running \ lost
        /\ queuedAt' = Requeue({itemOf[a] : a \in lost}, at)
        /\ UNCHANGED <<now, heartbeat, createdAt, attemptVars, completed, failed>>

(* Faulty: ends a session without looking for running assignments.         *)
EndBusySession(s, final) ==
    /\ status[s] = "active"
    /\ status' = [status EXCEPT ![s] = final]
    /\ UNCHANGED <<now, heartbeat, itemVars, attemptVars, running, outcomeVars>>

EndWorkerSession(s, final) ==
    /\ status[s] = "active"
    /\ RunningOf({s}) = {}
    /\ status' = [status EXCEPT ![s] = final]
    /\ UNCHANGED <<now, heartbeat, itemVars, attemptVars, running, outcomeVars>>

(* enqueueWorkItems: a row with the same queued_at is left alone, one with *)
(* another is an error.  Placement elsewhere is not looked at.             *)
EnqueueAllowed(S, at) == \A i \in S : queuedAt[i] \in {NoRow, at}

(* An item already stored must be the same record, created_at included.    *)
QueueWorkItems(b, at) ==
    /\ \A i \in b.items : createdAt[i] \in {NoRow, RFC3339(at)}
    /\ EnqueueAllowed(b.ready, RFC3339(at))
    /\ createdAt' = [i \in Items |-> IF i \in b.items THEN RFC3339(at) ELSE createdAt[i]]
    /\ queuedAt' = Requeue(b.ready, RFC3339(at))
    /\ UNCHANGED <<now, sessionVars, attemptVars, running, outcomeVars>>

EnqueueWorkItems(S, at) ==
    /\ S # {} /\ S \subseteq Inserted
    /\ EnqueueAllowed(S, RFC3339(at))
    /\ queuedAt' = Requeue(S, RFC3339(at))
    /\ UNCHANGED <<now, sessionVars, createdAt, attemptVars, running, outcomeVars>>

(* Faulty: a busy session may claim.                                       *)
BusySessionCanClaim(s, cutoff) == Live(s, cutoff)

validateWorkerSessionCanClaim(s, cutoff) ==
    /\ Live(s, cutoff)
    /\ RunningOf({s}) = {}

(* running_work.work_item_id is unique: when the item the scan stops at is *)
(* running, the insert fails and the whole claim with it.                  *)
ClaimNextWork(s, a, i, at) ==
    /\ validateWorkerSessionCanClaim(s, at - DeadAfter)
    /\ NextClaimable(i)
    /\ a \notin Used
    /\ i \notin RunningItems
    /\ itemOf' = [itemOf EXCEPT ![a] = i]
    /\ sessionOf' = [sessionOf EXCEPT ![a] = s]
    /\ running' = running \cup {a}
    /\ queuedAt' = [queuedAt EXCEPT ![i] = NoRow]
    /\ UNCHANGED <<now, sessionVars, createdAt, outcomeVars>>

(* Faulty: the owner may report however long it has been silent.           *)
SilentOwnerAccepted(a, reporter, cutoff) == reporter # None => reporter = sessionOf[a]

(* A report that names no session is not checked against one.              *)
validateRunningAssignmentOwner(a, reporter, cutoff) ==
    reporter # None => reporter = sessionOf[a] /\ Live(reporter, cutoff)

(* Faulty: completes an attempt that is not running.                       *)
CompleteUnclaimed(a, reporter, at) ==
    /\ validateRunningAssignmentOwner(a, reporter, at - DeadAfter)
    /\ completed' = completed \cup {a}
    /\ running' = running \ {a}
    /\ UNCHANGED <<now, sessionVars, itemVars, attemptVars, failed, abandoned>>

(* Faulty: leaves the running row behind.                                  *)
CompleteKeepsRunning(a, reporter, at) ==
    /\ a \in running
    /\ validateRunningAssignmentOwner(a, reporter, at - DeadAfter)
    /\ completed' = completed \cup {a}
    /\ UNCHANGED <<now, sessionVars, itemVars, attemptVars, running, failed, abandoned>>

CompleteAttempt(a, reporter, at) ==
    /\ a \in running
    /\ validateRunningAssignmentOwner(a, reporter, at - DeadAfter)
    /\ completed' = completed \cup {a}
    /\ running' = running \ {a}
    /\ UNCHANGED <<now, sessionVars, itemVars, attemptVars, failed, abandoned>>

(* Faulty: drops the attempt without a failed_work row.                    *)
FailUnrecorded(a, reporter, at) ==
    /\ a \in running
    /\ validateRunningAssignmentOwner(a, reporter, at - DeadAfter)
    /\ running' = running \ {a}
    /\ UNCHANGED <<now, sessionVars, itemVars, attemptVars, outcomeVars>>

FailAttempt(a, reporter, at) ==
    /\ a \in running
    /\ validateRunningAssignmentOwner(a, reporter, at - DeadAfter)
    /\ failed' = failed \cup {a}
    /\ running' = running \ {a}
    /\ UNCHANGED <<now, sessionVars, itemVars, attemptVars, completed, abandoned>>

Next ==
    \/ Tick
    \/ \E at \in Stamps :
        \/ RecoverExpiredWorkerSessions(at)
        \/ \E s \in Sessions :
            \/ RegisterWorkerSession(s, at)
            \/ HeartbeatWorkerSession(s, at)
            \/ StopWorkerSessionAndRecoverWork(s, at)
            \/ \E a \in Attempts, i \in Items : ClaimNextWork(s, a, i, at)
        \/ \E b \in Batches : QueueWorkItems(b, at)
        \/ \E S \in SUBSET Held : EnqueueWorkItems(S, at)
        \/ \E a \in Attempts, reporter \in Reporters :
            \/ CompleteAttempt(a, reporter, at)
            \/ FailAttempt(a, reporter, at)
    \/ \E s \in Sessions, final \in {"stopped", "dead"} : EndWorkerSession(s, final)

Spec == Init /\ [][Next]_vars
----------------------------------------------------------------------------
(* Properties.                                                             *)

(* The columns hold values of their types; an attempt has an item exactly  *)
(* when it has a session, and outcome rows refer to stored attempts.       *)
TypeOK ==
    /\ now \in Nat
    /\ status \in [Sessions -> Statuses]
    /\ heartbeat \in [Sessions -> Times]
    /\ createdAt \in [Items -> Times]
    /\ queuedAt \in [Items -> Times]
    /\ itemOf \in [Attempts -> Items \cup {None}]
    /\ sessionOf \in [Attempts -> Sessions \cup {None}]
    /\ \A a \in Attempts : itemOf[a] = None <=> sessionOf[a] = None
    /\ running \subseteq Used /\ completed \subseteq Used /\ failed \subseteq Used
    /\ abandoned \in [Reasons -> SUBSET Used]

(* Running work always belongs to a session that is still active: neither  *)
(* expiry, nor a stop, nor EndWorkerSession leaves work with a session     *)
(* that can no longer report it.                                           *)
RunningOwned == \A a \in running : status[sessionOf[a]] = "active"

(* However enqueues, claims and recoveries interleave, an item is being    *)
(* run by at most one attempt and a session runs at most one attempt.      *)
OneAssignment ==
    \A a, b \in running :
        itemOf[a] = itemOf[b] \/ sessionOf[a] = sessionOf[b] => a = b

(* Exactly one of completion, failure, stop and expiry settles an attempt, *)
(* whatever order they race in.  The one attempt with two records is the   *)
(* one the retry ceiling fails: it is abandoned and failed.                *)
OneOutcome ==
    /\ running \cap (completed \cup failed \cup Abandoned) = {}
    /\ completed \cap (failed \cup Abandoned) = {}
    /\ abandoned["worker_stopped"] \cap (failed \cup abandoned["heartbeat_expired"]) = {}

(* Work is never lost: an item that was ever claimed is still queued, or   *)
(* is running, or has a completed or failed attempt.                       *)
NoWorkLost ==
    \A a \in Used :
        \/ itemOf[a] \in Queued
        \/ \E b \in running \cup completed \cup failed : itemOf[b] = itemOf[a]

(* Expired sessions put an item back in the queue at most RequeueLimit     *)
(* times, and the ceiling fails it no sooner than the abandonment after    *)
(* that; abandonments by a stopped worker do not count.                    *)
RetryCeiling ==
    \A i \in Items :
        /\ Cardinality(ExpiredAbandonments(i) \ failed) <= RequeueLimit
        /\ ExpiredAbandonments(i) \cap failed # {}
               => Cardinality(ExpiredAbandonments(i)) > RequeueLimit

(* When all constraints on a resource are "<=" with one target, the units  *)
(* its running work holds never exceed the target, also while abandoned    *)
(* work returns to the queue.                                              *)
ResourceLimitHeld ==
    \A i \in Items : \A n \in DOMAIN Constraints[i] :
        LET c == Constraints[i][n]
            uniform == \A j \in Items : \A m \in DOMAIN Constraints[j] :
                           Constraints[j][m].key = c.key
                               => Constraints[j][m].op = "<=" /\ Constraints[j][m].target = c.target
        IN  uniform => TotalUnits[c.key] <= c.target

(* A session that is dead or stopped keeps that status for ever, and no    *)
(* step completes an attempt of such a session or claims work for it.      *)
DeadStaysDead ==
    \A s \in Sessions : status[s] \in {"dead", "stopped"} =>
        /\ status'[s] = status[s]
        /\ \A a \in Attempts : sessionOf'[a] = s =>
               /\ a \in Used
               /\ a \in completed' => a \in completed
DeadSessionsStayDead == [][DeadStaysDead]_vars

(* A transaction that abandons an attempt does all of it: the attempt      *)
(* leaves running_work, its session is no longer active, and its item is   *)
(* queued again or the attempt is failed.                                  *)
RecoversWhole ==
    \A a \in Abandoned' \ Abandoned :
        /\ a \in running /\ a \notin running'
        /\ status'[sessionOf[a]] # "active"
        /\ queuedAt'[itemOf[a]] # NoRow \/ a \in failed'
RecoveryAtomic == [][RecoversWhole]_vars

(* An attempt is settled by a report only while its session's last         *)
(* heartbeat is recent: no older than DeadAfter, the time between reading  *)
(* the clock and the commit, and the second that comparing texts may err.  *)
SettlesFenced ==
    \A a \in (completed' \ completed) \cup (failed' \ (failed \cup Abandoned')) :
        /\ status[sessionOf[a]] = "active"
        /\ now - heartbeat[sessionOf[a]] < DeadAfter + MaxLag + UnitsPerSecond
OutcomesFenced == [][SettlesFenced]_vars

(* Expiry takes work only from a session that has been silent: its last    *)
(* heartbeat is older than DeadAfter, less the second that comparing       *)
(* texts may err.                                                          *)
NewlyExpired == abandoned'["heartbeat_expired"] \ abandoned["heartbeat_expired"]
ExpiresSilent ==
    \A a \in NewlyExpired : now - heartbeat[sessionOf[a]] > DeadAfter - UnitsPerSecond
ExpiredOnlyWhenSilent == [][ExpiresSilent]_vars

(* The tables implement leases of work: every transaction offers items,    *)
(* grants, settles or takes back leases as WorkLeases says, or changes     *)
(* nothing it speaks of.                                                   *)
LeasePairs == {<<itemOf[a], sessionOf[a]>> : a \in running}
OutcomePairs ==
    {<<itemOf[a], "completed">> : a \in completed} \cup {<<itemOf[a], "failed">> : a \in failed}
Retired == {s \in Sessions : status[s] \in {"dead", "stopped"}}
Leases == INSTANCE WorkLeases WITH
    Holders <- Sessions, offered <- Queued, leases <- LeasePairs,
    outcomes <- OutcomePairs, retired <- Retired
ImplementsLeases == Leases!Spec

(* The documented definition: a session whose last heartbeat is no older   *)
(* than worker_dead_after is live, so expiry never takes its work.         *)
LiveSessionsKeepWork ==
    [][\A a \in NewlyExpired : now - heartbeat[sessionOf[a]] > DeadAfter]_vars
============================================================================
