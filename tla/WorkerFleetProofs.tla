------------------------- MODULE WorkerFleetProofs -------------------------
(***************************************************************************)
(* No signal to the caretaker is lost and only the session that has an     *)
(* item decides it, for every number of workers and items, every heartbeat *)
(* and launch interval, and any number of crashes and lost messages.  And  *)
(* a worker does not outlive its session by more than the two clocks of    *)
(* that session can differ, whatever its interval, deadline and timeout.   *)
(***************************************************************************)
EXTENDS WorkerFleet, TLAPS

FleetTypes ==
    /\ place \in [Items -> {"new", "queued", "running", "done", "failed"}]
    /\ active \subseteq Slots
    /\ worker \in [Slots -> {"off", "launched", "registering", "poll", "idle", "work", "complete",
                              "fail", "stop"}]

(* At first no worker runs.                                                *)
LEMMA InitFleet == Init => FleetTypes
BY SMT DEF Init, FleetTypes

(* Every step of a worker, of its heartbeat and of the caretaker keeps the *)
(* types.                                                                  *)
LEMMA NextFleet ==
    ASSUME FleetTypes, [Next]_vars
    PROVE  FleetTypes'
<1> USE DEF FleetTypes, storeVars, workerVars, caretakerVars, signalVars
<1>1. CASE UNCHANGED vars
  BY Zenon, <1>1 DEF vars
<1>2. CASE Tick \/ ReconcileError
  BY Zenon, <1>2 DEF Tick, ReconcileError
<1>3. ASSUME NEW i \in Items, Enqueue(i) PROVE FleetTypes'
  BY ZenonT(30), <1>3 DEF Enqueue
<1>4. ASSUME NEW s \in Slots, RegisterWorkerSession(s) \/ ConfirmOldestInflightStartRegistered(s)
      PROVE  FleetTypes'
  BY ZenonT(30), <1>4 DEF RegisterWorkerSession, ConfirmOldestInflightStartRegistered
<1>5. ASSUME NEW s \in Slots, RunHeartbeat(s) \/ Suspend(s) PROVE FleetTypes'
  BY Zenon, <1>5 DEF RunHeartbeat, Suspend
<1>6. ASSUME NEW s \in Slots, FetchWorkItem(s) PROVE FleetTypes'
  BY SMTT(30), <1>6 DEF FetchWorkItem, Exit, Goto, Claim, AfterEmptyPoll, Queued
<1>7. ASSUME NEW s \in Slots, Run(s) \/ StopUnreported(s) \/ Crash(s) PROVE FleetTypes'
  BY ZenonT(30), <1>7 DEF Run, Goto, StopUnreported, Crash, Exit
<1>8. ASSUME NEW s \in Slots, Report(s) PROVE FleetTypes'
  BY SMTT(30), <1>8 DEF Report, Exit, Goto
<1>9. ASSUME NEW s \in Slots, StopWorker(s) PROVE FleetTypes'
  BY SMTT(30), <1>9 DEF StopWorker, stopWorkerHandler, Exit
<1>10. CASE WakeBySignal \/ WakeByTimer \/ ReadQueued \/ ReadRunning \/ ReadLive
            \/ WorkerCapacitySnapshot \/ EvaluateDemand
  BY Zenon, <1>10 DEF WakeBySignal, WakeByTimer, ReadQueued, ReadRunning, ReadLive, 
     WorkerCapacitySnapshot, EvaluateDemand
<1>11. CASE RecoverExpiredWorkerSessions
  BY Zenon, <1>11 DEF RecoverExpiredWorkerSessions
<1>12. CASE StartWorkers
  <2> DEFINE free == {s \in Slots \ active : worker[s] = "off"}
  <2>1. UNCHANGED <<place, active>>
    BY Zenon, <1>12 DEF StartWorkers
  <2>2. \/ UNCHANGED worker
        \/ worker' = [s \in Slots |-> IF s \in free /\ s = Min(free) THEN "launched" ELSE worker[s]]
    BY Zenon, <1>12 DEF StartWorkers
  <2> DEFINE next == Min(free)
  <2> HIDE DEF free, next
  <2>3. UNCHANGED worker
        \/ worker' = [s \in Slots |-> IF s \in free /\ s = next THEN "launched" ELSE worker[s]]
    BY Zenon, <2>2 DEF next
  <2> QED
    BY Zenon, <2>1, <2>3
<1> QED
  BY Zenon, <1>1, <1>2, <1>3, <1>4, <1>5, <1>6, <1>7, <1>8, <1>9, <1>10, <1>11, <1>12
     DEF Next, WorkerLoop, CareTaker

(* A step makes an item done only as the report of the session that has it *)
(* and leaves that report behind.                                          *)
LEMMA NextHolder ==
    ASSUME FleetTypes, [Next]_vars, NEW i \in Items, place[i] # place'[i], place'[i] = "done"
    PROVE  \E s \in active : holds[s] = i /\ worker[s] = "complete" /\ worker'[s] # "complete"
<1> USE DEF FleetTypes, storeVars, workerVars, caretakerVars, signalVars
<1>1. ~UNCHANGED place
  BY Zenon
<1>2. ~(Tick \/ (CareTaker /\ ~RecoverExpiredWorkerSessions) \/ ReconcileError)
  BY Zenon, <1>1 DEF Tick, CareTaker, WakeBySignal, WakeByTimer, ReadQueued, ReadRunning, ReadLive, WorkerCapacitySnapshot,
     EvaluateDemand, StartWorkers, ReconcileError
<1>3. ~RecoverExpiredWorkerSessions
  BY Zenon DEF RecoverExpiredWorkerSessions
<1>4. ~\E j \in Items : Enqueue(j)
  BY Zenon DEF Enqueue
<1>5. ASSUME NEW s \in Slots
      PROVE  ~(\/ RegisterWorkerSession(s) \/ ConfirmOldestInflightStartRegistered(s) \/ Run(s)
               \/ StopUnreported(s) \/ RunHeartbeat(s) \/ Suspend(s) \/ Crash(s))
  BY Zenon, <1>1 DEF RegisterWorkerSession, ConfirmOldestInflightStartRegistered, Run, StopUnreported,
     RunHeartbeat, Suspend, Crash
<1>6. ASSUME NEW s \in Slots PROVE ~(FetchWorkItem(s) \/ StopWorker(s))
  BY Zenon, <1>1 DEF FetchWorkItem, Claim, StopWorker, stopWorkerHandler
<1>7. PICK s \in Slots : Report(s)
  BY Zenon, <1>1, <1>2, <1>3, <1>4, <1>5, <1>6 DEF Next, WorkerLoop, vars
<1>8. /\ AcceptsReport(s)
      /\ place' = [place EXCEPT ![job[s]] = IF worker[s] = "complete" THEN "done" ELSE "failed"]
      /\ worker' = [worker EXCEPT ![s] = "off"]
         \/ worker' = [worker EXCEPT ![s] = IF worker[s] = "complete" THEN "poll" ELSE "stop"]
  BY Zenon, <1>1, <1>7 DEF Report, Goto, Exit
<1>9. i = job[s] /\ worker[s] = "complete"
  BY Zenon, <1>8
<1> QED
  BY Zenon, <1>8, <1>9 DEF AcceptsReport

(* The types hold throughout.                                              *)
LEMMA FleetInvariant == Spec => []FleetTypes
BY InitFleet, NextFleet, PTL DEF Spec

(* A signal for the caretaker is never lost: until a pass begins after it  *)
(* the slot of the channel is full.                                        *)
THEOREM FleetSignalNotLost == Spec => []SignalNotLost
<1>1. Init => SignalNotLost
  BY Zenon DEF Init, SignalNotLost
<1>2. SignalNotLost /\ [Next]_vars => SignalNotLost'
  <2> SUFFICES ASSUME SignalNotLost, [Next]_vars PROVE SignalNotLost'
    BY Zenon
  <2> USE DEF SignalNotLost, signalVars, Signal
  <2>1. CASE UNCHANGED vars
    BY Zenon, <2>1 DEF vars
  <2>2. CASE Tick \/ ReconcileError \/ \E i \in Items : Enqueue(i)
    BY Zenon, <2>2 DEF Tick, ReconcileError, Enqueue
  <2>3. ASSUME NEW s \in Slots, WorkerLoop(s) \/ RunHeartbeat(s) \/ Suspend(s) \/ Crash(s)
        PROVE  SignalNotLost'
    BY Zenon, <2>3 DEF WorkerLoop, RunHeartbeat, Suspend, Crash, RegisterWorkerSession,
       ConfirmOldestInflightStartRegistered, FetchWorkItem, Claim, Run, StopUnreported, Report,
       StopWorker, stopWorkerHandler
  <2>4. CASE CareTaker
    BY Zenon, <2>4 DEF CareTaker, WakeBySignal, WakeByTimer, RecoverExpiredWorkerSessions, ReadQueued,
       ReadRunning, ReadLive, WorkerCapacitySnapshot, EvaluateDemand, StartWorkers
  <2> QED
    BY Zenon, <2>1, <2>2, <2>3, <2>4 DEF Next
<1> QED
  BY <1>1, <1>2, PTL DEF Spec

(* Only the session that has an item makes it done, with a report of its   *)
(* own: what a worker sends after its expiry decides nothing.              *)
THEOREM FleetHolderDecides == Spec => HolderDecides
<1> DEFINE Decides == \A i \in Items : place[i] # place'[i] /\ place'[i] = "done" =>
          \E s \in active : holds[s] = i /\ worker[s] = "complete" /\ worker'[s] # "complete"
<1>1. FleetTypes /\ [Next]_vars => [Decides]_vars
  BY Zenon, NextHolder
<1> QED
  BY <1>1, FleetInvariant, PTL DEF Spec, HolderDecides
-----------------------------------------------------------------------------
(* The clocks of one session.                                              *)
CONSTANTS HeartbeatInterval, Timeout
VARIABLES session, heard, loop, accepted, ticker, tick, waited, stray

Session == INSTANCE WorkerHeartbeat WITH age <- heard, since <- accepted

SessionTypes ==
    /\ session \in {"active", "ended"} /\ tick \in 0 .. 1 /\ stray \in 0 .. 1
    /\ loop \in {"wait"} \cup Session!Asking \cup Session!Ended
    /\ heard \in Nat /\ accepted \in Nat
    /\ ticker \in 1 .. HeartbeatInterval /\ waited \in 0 .. Timeout

(* The worker's clock is behind the controller's by what the answer to an  *)
(* accepted request took, at most.                                         *)
ClocksClose ==
    /\ loop = "register" => accepted = 0 /\ heard <= waited
    /\ loop = "accepted" => heard <= waited
    /\ heard <= accepted + Timeout

(* The goroutine goes on only from before its deadline, to the next tick   *)
(* and through the request of that beat.                                   *)
BeatsInTime ==
    /\ loop = "wait" /\ tick = 0 => accepted + ticker < DeadAfter + HeartbeatInterval
    /\ loop = "wait" /\ tick = 1 => accepted < DeadAfter + HeartbeatInterval
    /\ loop \in Session!Asking => accepted < DeadAfter + HeartbeatInterval + waited

SessionInv == SessionTypes /\ (loop \notin Session!Ended => ClocksClose /\ BeatsInTime)

(* Every step of the goroutine and the controller keeps the clocks close.  *)
LEMMA NextSession ==
    ASSUME Session!PolicyAssumption, SessionInv, [Session!Next]_Session!vars
    PROVE  SessionInv'
<1> USE DEF Session!PolicyAssumption, SessionInv, SessionTypes, ClocksClose, BeatsInTime, Session!Asking,
        Session!Ended
<1>1. CASE UNCHANGED Session!vars
  BY <1>1 DEF Session!vars
<1>2. CASE Session!Pass
  BY <1>2, SMTT(30) DEF Session!Pass, Session!Older, Session!Latest
<1>3. CASE Session!RegisterWorker \/ Session!SendBeat
  BY <1>3 DEF Session!RegisterWorker, Session!SendBeat
<1>4. CASE Session!HandleBeat \/ Session!HandleStray
  BY <1>4 DEF Session!HandleBeat, Session!HandleStray, Session!heartbeatWorkerHandler
<1>5. CASE Session!BeatAccepted \/ Session!BeatRefused \/ Session!BeatFailed
  BY <1>5 DEF Session!BeatAccepted, Session!BeatRefused, Session!BeatFailed, Session!SelfFences
<1>6. CASE Session!RecoverExpiredWorkerSessions \/ Session!StopWorker
  BY <1>6 DEF Session!RecoverExpiredWorkerSessions, Session!StopWorker
<1> QED
  BY <1>1, <1>2, <1>3, <1>4, <1>5, <1>6 DEF Session!Next

(* For every interval, deadline and timeout, a heartbeat goroutine ends by *)
(* the time the controller has not heard of it for dead_after, an interval *)
(* and twice the time a request may take (RunHeartbeat).                   *)
THEOREM SessionFencedInTime ==
    ASSUME Session!PolicyAssumption
    PROVE  Session!Spec => []Session!FencedInTime
<1>1. Session!Init => SessionInv
  BY DEF Session!PolicyAssumption, Session!Init, SessionInv, SessionTypes, ClocksClose, BeatsInTime,
     Session!Asking, Session!Ended
<1>2. SessionInv /\ [Session!Next]_Session!vars => SessionInv'
  BY NextSession
<1>3. SessionInv => Session!FencedInTime
  BY DEF Session!PolicyAssumption, SessionInv, SessionTypes, ClocksClose, BeatsInTime, Session!Asking,
     Session!Ended, Session!FencedInTime, Session!Latest
<1> QED
  BY <1>1, <1>2, <1>3, PTL DEF Session!Spec
============================================================================
