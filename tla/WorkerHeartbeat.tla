-------------------------- MODULE WorkerHeartbeat --------------------------
(***************************************************************************)
(* The two clocks of one worker session: last_heartbeat_at, which the      *)
(* controller takes when it handles a registration or a beat, and          *)
(* lastAccepted, which the worker's heartbeat goroutine takes when the     *)
(* answer has come back.  Time passes between every two of these moments,  *)
(* in units that have nothing to do with the heartbeat interval.  What the *)
(* sessions are for is WorkerFleet's subject.                              *)
(***************************************************************************)
EXTENDS Integers

CONSTANTS HeartbeatInterval, DeadAfter,
          Timeout                \* of a request, controllerhttp.DefaultTimeout

(* validateWorkerHeartbeatPolicy; DeadAfter is any multiple or none.       *)
PolicyAssumption ==
    /\ {HeartbeatInterval, DeadAfter, Timeout} \subseteq Nat
    /\ HeartbeatInterval > 0 /\ DeadAfter >= 2 * HeartbeatInterval

VARIABLES session,    \* "active" or "ended"
          age,        \* since last_heartbeat_at
          loop,       \* where RunHeartbeat is
          since,      \* since lastAccepted
          ticker,     \* until the ticker's next tick
          tick,       \* in the ticker's channel of one slot, 0 or 1
          waited,     \* for the answer to the request
          stray       \* requests under way that the worker gave up, 0 or 1

vars == <<session, age, loop, since, ticker, tick, waited, stray>>

(* A request, on its way to the controller or back with its answer.        *)
Asking == {"register", "asked", "accepted", "refused"}
Ended == {"rejected", "fenced", "exited"}

(* The latest moment of a goroutine's end, by last_heartbeat_at.  The bound *)
(* only keeps the two ages finite.                                         *)
Latest == DeadAfter + HeartbeatInterval + 2 * Timeout
Older(a) == IF a < Latest THEN a + 1 ELSE a

(* The registration has just been recorded; its answer is under way.       *)
Init ==
    /\ session = "active" /\ age = 0
    /\ loop = "register" /\ since = 0 /\ ticker = HeartbeatInterval /\ tick = 0
    /\ waited = 0 /\ stray = 0

(* Time passes while the goroutine waits for a tick or for an answer, the  *)
(* latter up to the client's timeout.  A tick that finds its slot full is  *)
(* dropped.                                                                *)
Pass ==
    /\ loop \notin Ended /\ (loop = "wait" => tick = 0)
    /\ loop \in Asking => waited < Timeout
    /\ age' = Older(age)
    /\ since' = IF loop = "register" THEN 0 ELSE Older(since)
    /\ waited' = IF loop \in Asking THEN waited + 1 ELSE 0
    /\ IF loop = "register" THEN UNCHANGED <<ticker, tick>>
       ELSE IF ticker > 1 THEN ticker' = ticker - 1 /\ UNCHANGED tick
       ELSE ticker' = HeartbeatInterval /\ tick' = 1
    /\ UNCHANGED <<session, loop, stray>>

(* The registration's answer arrives and the goroutine starts its clock    *)
(* and its ticker, or the answer is lost and the process ends.             *)
RegisterWorker ==
    /\ loop = "register"
    /\ \/ loop' = "wait" \/ loop' = "exited"
    /\ waited' = 0
    /\ UNCHANGED <<session, age, since, ticker, tick, stray>>

(* A tick, and the request of its beat.                                    *)
SendBeat ==
    /\ loop = "wait" /\ tick = 1
    /\ loop' = "asked" /\ tick' = 0 /\ waited' = 0
    /\ UNCHANGED <<session, age, since, ticker, stray>>

(* Only an active session is renewed; another one's beat is a conflict.    *)
heartbeatWorkerHandler == age' = IF session = "active" THEN 0 ELSE age

HandleBeat ==
    /\ loop = "asked"
    /\ heartbeatWorkerHandler
    /\ loop' = IF session = "active" THEN "accepted" ELSE "refused"
    /\ UNCHANGED <<session, since, ticker, tick, waited, stray>>

HandleStray ==
    /\ stray = 1
    /\ heartbeatWorkerHandler
    /\ stray' = 0
    /\ UNCHANGED <<session, loop, since, ticker, tick, waited>>

(* The answer of an accepted beat: lastAccepted = clock.Now().             *)
BeatAccepted ==
    /\ loop = "accepted"
    /\ loop' = "wait" /\ since' = 0 /\ waited' = 0
    /\ UNCHANGED <<session, age, ticker, tick, stray>>

BeatRefused ==
    /\ loop = "refused"
    /\ loop' = "rejected" /\ waited' = 0
    /\ UNCHANGED <<session, age, since, ticker, tick, stray>>

(* Faulty: gives up only once the deadline is past.                        *)
FencesLate == since > DeadAfter

(* now.Sub(lastAccepted) >= DeadAfter, looked at after a failed beat only. *)
SelfFences == since >= DeadAfter

(* The request or its answer is lost, or the client's timeout is up.  What *)
(* was not handled by then may still be.                                   *)
BeatFailed ==
    /\ loop \in {"asked", "accepted", "refused"}
    /\ loop' = IF SelfFences THEN "fenced" ELSE "wait"
    /\ waited' = 0
    /\ stray' \in IF loop = "asked" THEN {stray, 1} ELSE {stray}
    /\ UNCHANGED <<session, age, since, ticker, tick>>

(* A pass of the caretaker, at any moment from the deadline on.            *)
RecoverExpiredWorkerSessions ==
    /\ session = "active" /\ age > DeadAfter
    /\ session' = "ended"
    /\ UNCHANGED <<age, loop, since, ticker, tick, waited, stray>>

(* The worker's loop ends the goroutine, and the session if it is told.    *)
StopWorker ==
    /\ loop \notin Ended \cup {"register"}
    /\ loop' = "exited" /\ waited' = 0
    /\ session' \in {session, "ended"}
    /\ UNCHANGED <<age, since, ticker, tick, stray>>

Next ==
    \/ Pass \/ RegisterWorker \/ SendBeat \/ HandleBeat \/ HandleStray
    \/ BeatAccepted \/ BeatRefused \/ BeatFailed
    \/ RecoverExpiredWorkerSessions \/ StopWorker

Spec == Init /\ [][Next]_vars
-----------------------------------------------------------------------------
(* A worker outlives its session, since its clock starts later and is only *)
(* looked at when a beat fails, but not for long: whichever requests and   *)
(* answers are lost, late or handled after they were given up, a heartbeat *)
(* goroutine has ended by the time the controller has not heard of it for  *)
(* dead_after, one interval and twice the time a request may take.         *)
FencedInTime == loop \notin Ended => age < Latest
============================================================================
