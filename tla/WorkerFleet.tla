---------------------------- MODULE WorkerFleet ----------------------------
(***************************************************************************)
(* Keeping enough workers running: worker processes with their heartbeat   *)
(* goroutine (cmd/worker), the endpoints they call, the caretaker loop and *)
(* the worker capacity manager (cmd/controller).                           *)
(*                                                                         *)
(* Time is kept as ages, in heartbeat intervals and capped, so behaviours  *)
(* are unbounded while states are finite.  Which of a session's expiry and *)
(* its worker's own deadline comes first is below this resolution and left *)
(* open; WorkerHeartbeat is about the moments in between.  A slot stands   *)
(* for one worker process and its session; it is used again, under a new   *)
(* random id, once the process has exited and the session has ended.  What *)
(* the store does in detail, its queue order included, is WorkStore's      *)
(* subject.                                                                *)
(***************************************************************************)
EXTENDS Integers, Sequences, FiniteSetsExt

CONSTANTS Slots, Items,
          None,
          DeadAfter,             \* worker_dead_after
          InflightStartTimeout,
          FallbackInterval,
          RetryMaximum,          \* RetryInitial is FallbackInterval
          MaxActiveWorkers,
          RequeueLimit,
          MaxPassTicks,          \* bound: ticks that fall into one pass
          MaxFaults              \* bound: crashes, lost messages, errors

ASSUME FleetAssumption ==
    /\ {DeadAfter, FallbackInterval, RetryMaximum, MaxActiveWorkers} \subseteq Nat \ {0}
    /\ DeadAfter > 1 /\ RetryMaximum >= FallbackInterval
    /\ {InflightStartTimeout, RequeueLimit, MaxPassTicks, MaxFaults} \subseteq Nat
    /\ Slots \subseteq Nat /\ None \notin Items

VARIABLES place,      \* of an item: "new", "queued", "running", "done" or "failed"
          expiries,   \* times an item was abandoned by expiry
          active,     \* the active worker sessions; others ended or were never begun
          age,        \* since last_heartbeat_at
          holds,      \* running_work of the session
          worker,     \* what the process does next
          job,        \* the item the process believes it has
          beat,       \* heartbeat goroutine: "off", "due", "sent", "late" or how it ended
          since,      \* since lastAccepted
          wake,       \* is the signal slot of the caretaker full
          unseen,     \* was anything signalled since the last pass began
          pass,       \* the caretaker's pass and what it has read
          timer,      \* until the caretaker's timer fires; None is no timer
          retryDelay,
          inflight,   \* ages of the reservations, oldest first
          faults

storeVars == <<place, expiries, active, age, holds>>
workerVars == <<worker, job, beat, since>>
caretakerVars == <<pass, timer, retryDelay>>
signalVars == <<wake, unseen>>
vars == <<storeVars, workerVars, caretakerVars, signalVars, inflight, faults>>

Fault == faults < MaxFaults /\ faults' = faults + 1

(* Faulty: an unbuffered channel, which drops what nobody waits for.       *)
SignalUnbuffered == unseen' = TRUE /\ wake' = (wake \/ pass.pc = "sleep")

(* A non-blocking send to a channel of one slot.                           *)
Signal == unseen' = TRUE /\ wake' = TRUE

Queued == {i \in Items : place[i] = "queued"}
Running == {i \in Items : place[i] = "running"}
Silent(s, at) == age[s] - at > DeadAfter

Asleep == [pc |-> "sleep", lag |-> 0, demand |-> 0, oldest |-> None]

Init ==
    /\ place = [i \in Items |-> "new"] /\ expiries = [i \in Items |-> 0]
    /\ active = {} /\ age = [s \in Slots |-> 0]
    /\ holds = [s \in Slots |-> None]
    /\ worker = [s \in Slots |-> "off"] /\ job = [s \in Slots |-> None]
    /\ beat = [s \in Slots |-> "off"] /\ since = [s \in Slots |-> 0]
    /\ wake = TRUE /\ unseen = TRUE        \* Run begins with Signal("startup")
    /\ pass = Asleep /\ timer = None /\ retryDelay = 0
    /\ inflight = <<>> /\ faults = 0

(* A live heartbeat goroutine beats once in every interval.  Starting up,  *)
(* waiting to poll and running an item take time; a request is answered or *)
(* lost within the interval it was sent in.                                *)
Unhurried == {"off", "launched", "idle", "work"}

Tick ==
    LET Older(a, cap) == IF a < cap THEN a + 1 ELSE cap
    IN  /\ \A s \in Slots : beat[s] # "due" /\ worker[s] \in Unhurried
        /\ pass.pc # "sleep" => pass.lag < MaxPassTicks
        /\ age' = [s \in Slots |-> IF s \in active
                                  THEN Older(age[s], DeadAfter + MaxPassTicks + 1) ELSE 0]
        /\ since' = [s \in Slots |-> IF beat[s] \in {"sent", "late"} THEN Older(since[s], DeadAfter + 1) ELSE 0]
        /\ beat' = [s \in Slots |-> IF beat[s] = "sent" THEN "due" ELSE beat[s]]
        /\ inflight' = [n \in DOMAIN inflight |->
                          Older(inflight[n], InflightStartTimeout + MaxPassTicks + 1)]
        /\ timer' = IF timer \in {None, 0} THEN timer ELSE timer - 1
        /\ pass' = IF pass.pc = "sleep" THEN pass ELSE [pass EXCEPT !.lag = @ + 1]
        /\ UNCHANGED <<place, expiries, active, holds, worker, job, signalVars,
                       retryDelay, faults>>

(* Work is queued and its submission or activation signals.                *)
Enqueue(i) ==
    /\ place[i] = "new"
    /\ place' = [place EXCEPT ![i] = "queued"]
    /\ Signal
    /\ UNCHANGED <<expiries, active, age, holds, workerVars, caretakerVars, inflight, faults>>

-----------------------------------------------------------------------------
(* Worker processes and their endpoints.                                   *)

Exit(s) ==
    /\ worker' = [worker EXCEPT ![s] = "off"]
    /\ job' = [job EXCEPT ![s] = None]
    /\ beat' = [beat EXCEPT ![s] = "off"]
    /\ since' = [since EXCEPT ![s] = 0]

Goto(s, pc) ==
    /\ worker' = [worker EXCEPT ![s] = pc]
    /\ UNCHANGED <<beat, since>>

RegisterWorkerSession(s) ==
    /\ worker[s] = "launched"
    /\ active' = active \cup {s}
    /\ age' = [age EXCEPT ![s] = 0]
    /\ worker' = [worker EXCEPT ![s] = "registering"]
    /\ UNCHANGED <<place, expiries, holds, job, beat, since, caretakerVars, signalVars,
                   inflight, faults>>

(* The rest of the registration: it waits for the capacity manager's       *)
(* mutex, which is held during a launch.                                   *)
ConfirmOldestInflightStartRegistered(s) ==
    /\ worker[s] = "registering" /\ pass.pc # "launch"
    /\ inflight' = IF inflight = <<>> THEN <<>> ELSE Tail(inflight)
    /\ Signal
    /\ worker' = [worker EXCEPT ![s] = "poll"]
    /\ beat' = [beat EXCEPT ![s] = "due"]
    /\ UNCHANGED <<storeVars, job, since, caretakerVars, faults>>

(* The age of the session after a beat: only an active one is renewed.     *)
heartbeatWorkerHandler(s) == [age EXCEPT ![s] = IF s \in active THEN 0 ELSE @]

(* Whether now.Sub(lastAccepted) >= DeadAfter after a failed beat: in the  *)
(* interval of the deadline it depends on the moments within it.           *)
SelfFences(s) ==
    CASE since[s] < DeadAfter -> {FALSE}
      [] since[s] = DeadAfter -> BOOLEAN
      [] since[s] > DeadAfter -> {TRUE}

(* The heartbeat goroutine's turn.  A beat that is lost either way counts  *)
(* as missed, and so may the ones after it; missing too long, or a session *)
(* that is not active, ends the goroutine.                                 *)
RunHeartbeat(s) ==
    /\ beat[s] \in {"due", "late"}
    /\ \/ /\ s \in active
          /\ age' = heartbeatWorkerHandler(s)
          /\ since' = [since EXCEPT ![s] = 0]
          /\ beat' = [beat EXCEPT ![s] = "sent"]
          /\ UNCHANGED faults
       \/ /\ s \notin active
          /\ beat' = [beat EXCEPT ![s] = "rejected"]
          /\ UNCHANGED <<age, since, faults>>
       \/ /\ IF since[s] > 1 THEN UNCHANGED faults ELSE Fault
          /\ age' \in {age, heartbeatWorkerHandler(s)}
          /\ \E fences \in SelfFences(s) :
                /\ beat' = [beat EXCEPT ![s] = IF fences THEN "fenced" ELSE "sent"]
                /\ since' = [since EXCEPT ![s] = IF fences THEN 0 ELSE @]
    /\ UNCHANGED <<place, expiries, active, holds, worker, job, caretakerVars, signalVars, inflight>>

(* The process is suspended while it runs an item: intervals pass before   *)
(* its next beat.                                                          *)
Suspend(s) ==
    /\ beat[s] = "due" /\ worker[s] = "work" /\ Fault
    /\ beat' = [beat EXCEPT ![s] = "late"]
    /\ UNCHANGED <<storeVars, worker, job, since, caretakerVars, signalVars, inflight>>

HeartbeatEnded(s) == beat[s] \in {"rejected", "fenced"}

(* FetchWorkItem.  Any error ends the process: a session that is not live, *)
(* a lost answer, or an item that could not be hydrated after its claim.   *)
Claim(s, i) ==
    /\ place' = [place EXCEPT ![i] = "running"]
    /\ holds' = [holds EXCEPT ![s] = i]
    /\ \/ Signal /\ Goto(s, "work") /\ job' = [job EXCEPT ![s] = i] /\ UNCHANGED faults
       \/ Fault /\ Exit(s) /\ UNCHANGED signalVars

(* The idle timeout is up at the second empty poll in a row.               *)
AfterEmptyPoll(s) == IF worker[s] = "poll" THEN "idle" ELSE "stop"

FetchWorkItem(s) ==
    /\ worker[s] \in {"poll", "idle"} /\ ~HeartbeatEnded(s)
    /\ IF s \notin active \/ Silent(s, 0) \/ holds[s] # None
       THEN Exit(s) /\ UNCHANGED <<place, holds, signalVars, faults>>
       ELSE \/ \E i \in Queued : Claim(s, i)
            \/ /\ Queued = {}
               /\ Goto(s, AfterEmptyPoll(s))
               /\ UNCHANGED <<place, holds, job, signalVars, faults>>
    /\ UNCHANGED <<expiries, active, age, caretakerVars, inflight>>

(* The item has run; the heartbeat is looked at before the report.         *)
Run(s) ==
    /\ worker[s] = "work" /\ ~HeartbeatEnded(s)
    /\ \E pc \in {"complete", "fail"} : Goto(s, pc)
    /\ UNCHANGED <<storeVars, job, caretakerVars, signalVars, inflight, faults>>

(* heartbeatStatus returned an error: the loop ends without a report.      *)
StopUnreported(s) ==
    /\ worker[s] \in {"poll", "idle", "work", "stop"} /\ HeartbeatEnded(s)
    /\ Exit(s)
    /\ UNCHANGED <<storeVars, caretakerVars, signalVars, inflight, faults>>

(* Faulty: any running item may be reported on.                            *)
AcceptsAnyReport(s) == place[job[s]] = "running"

(* The controller takes a report from the live session that has the item.  *)
AcceptsReport(s) == s \in active /\ ~Silent(s, 0) /\ holds[s] = job[s]

(* ReportWorkComplete and ReportWorkFailed.  A refused report, or a lost   *)
(* request or answer, ends the process; a failure is followed by a stop.   *)
Report(s) ==
    LET settled == [place EXCEPT ![job[s]] = IF worker[s] = "complete" THEN "done" ELSE "failed"]
        Settle == /\ AcceptsReport(s)
                  /\ place' = settled
                  /\ holds' = [holds EXCEPT ![s] = None]
                  /\ Signal
    IN  /\ worker[s] \in {"complete", "fail"}
        /\ \/ /\ Settle
              /\ Goto(s, IF worker[s] = "complete" THEN "poll" ELSE "stop")
              /\ job' = [job EXCEPT ![s] = None]
              /\ UNCHANGED faults
           \/ Settle /\ Fault /\ Exit(s)
           \/ Fault /\ Exit(s) /\ UNCHANGED <<place, holds, signalVars>>
           \/ ~AcceptsReport(s) /\ Exit(s) /\ UNCHANGED <<place, holds, signalVars, faults>>
        /\ UNCHANGED <<expiries, active, age, caretakerVars, inflight>>

(* What the session still holds goes back to the queue.                    *)
stopWorkerHandler(s) ==
    /\ s \in active
    /\ active' = active \ {s}
    /\ place' = [i \in Items |-> IF i = holds[s] THEN "queued" ELSE place[i]]
    /\ holds' = [holds EXCEPT ![s] = None]
    /\ Signal

(* stopWorker: the heartbeat ends first.  The answer does not matter.      *)
StopWorker(s) ==
    /\ worker[s] = "stop" /\ ~HeartbeatEnded(s)
    /\ Exit(s)
    /\ \/ stopWorkerHandler(s) /\ UNCHANGED faults
       \/ s \notin active /\ UNCHANGED <<active, place, holds, signalVars, faults>>
       \/ Fault /\ UNCHANGED <<active, place, holds, signalVars>>
    /\ UNCHANGED <<expiries, age, caretakerVars, inflight>>

Crash(s) ==
    /\ worker[s] # "off"
    /\ Fault /\ Exit(s)
    /\ UNCHANGED <<storeVars, caretakerVars, signalVars, inflight>>

-----------------------------------------------------------------------------
(* The caretaker.                                                          *)

(* Run: a signal, with the slot drained before the pass, or the timer,     *)
(* which every pass sets anew.                                             *)
WakeBySignal ==
    /\ pass.pc = "sleep" /\ wake
    /\ pass' = [Asleep EXCEPT !.pc = "recover"]
    /\ wake' = FALSE /\ unseen' = FALSE
    /\ timer' = None
    /\ UNCHANGED <<storeVars, workerVars, retryDelay, inflight, faults>>

WakeByTimer ==
    /\ pass.pc = "sleep" /\ timer = 0
    /\ pass' = [Asleep EXCEPT !.pc = "recover"]
    /\ unseen' = FALSE
    /\ timer' = None
    /\ UNCHANGED <<storeVars, workerVars, retryDelay, wake, inflight, faults>>

(* Faulty: a start under way for ever blocks the next one.                 *)
KeepInflightStarts == inflight

(* With a timeout of zero a reservation never expires.                     *)
pruneExpiredInflightStarts ==
    IF InflightStartTimeout = 0 THEN inflight
    ELSE SelectSeq(inflight, LAMBDA a : a - pass.lag <= InflightStartTimeout)

noteReconcileError ==
    IF retryDelay = 0 THEN FallbackInterval ELSE Min({retryDelay * 2, RetryMaximum})

(* calculateCareTakerNextWake, less the time the pass has taken.  A zero   *)
(* delay fires at once.                                                    *)
calculateCareTakerNextWake(oldest, starts, retry) ==
    LET at == {DeadAfter - a : a \in {oldest} \ {None}}
              \cup {InflightStartTimeout - (starts[n] - pass.lag) :
                      n \in {n \in DOMAIN starts : InflightStartTimeout > 0}}
              \cup ({retry} \ {0}) \cup {FallbackInterval}
    IN  Max({0, Min({Max({0, t}) : t \in at}) - pass.lag})

Finish(oldest, starts, retry) ==
    /\ inflight' = starts
    /\ retryDelay' = retry
    /\ timer' = calculateCareTakerNextWake(oldest, starts, retry)
    /\ pass' = Asleep

(* Any of the reads may fail: the pass ends and is tried again later.      *)
ReconcileError ==
    /\ pass.pc \in {"recover", "queued", "running", "live", "earliest"}
    /\ Fault
    /\ Finish(None, inflight, noteReconcileError)
    /\ UNCHANGED <<storeVars, workerVars, signalVars>>

RecoverExpiredWorkerSessions ==
    LET gone == {s \in active : Silent(s, pass.lag)}
        lost == {holds[s] : s \in gone} \ {None}
        Exhausted(i) == expiries[i] + 1 > RequeueLimit
    IN  /\ pass.pc = "recover"
        /\ active' = active \ gone
        /\ holds' = [s \in Slots |-> IF s \in gone THEN None ELSE holds[s]]
        /\ expiries' = [i \in Items |-> IF i \in lost THEN expiries[i] + 1 ELSE expiries[i]]
        /\ place' = [i \in Items |-> IF i \notin lost THEN place[i]
                                     ELSE IF Exhausted(i) THEN "failed" ELSE "queued"]
        /\ inflight' = pruneExpiredInflightStarts
        /\ pass' = [pass EXCEPT !.pc = "queued"]
        /\ UNCHANGED <<age, workerVars, timer, retryDelay, signalVars, faults>>

(* workerDemand reads queued work, running work and the live sessions one  *)
(* after the other.  No work here has resource constraints, so its reads   *)
(* of their checks come back empty and all queued work is claimable.       *)
ReadQueued ==
    /\ pass.pc = "queued"
    /\ pass' = [pass EXCEPT !.pc = "running", !.demand = Cardinality(Queued)]
    /\ UNCHANGED <<storeVars, workerVars, timer, retryDelay, signalVars, inflight, faults>>

(* Without claimable work nothing is wanted; else min of running plus      *)
(* claimable work and the maximum.                                         *)
ReadRunning ==
    /\ pass.pc = "running"
    /\ pass' = [pass EXCEPT !.pc = "live",
                  !.demand = IF @ = 0 THEN 0 ELSE Min({Cardinality(Running) + @, MaxActiveWorkers})]
    /\ UNCHANGED <<storeVars, workerVars, timer, retryDelay, signalVars, inflight, faults>>

LiveSessions == {s \in active : ~Silent(s, pass.lag)}

(* What remains is the shortfall.                                          *)
ReadLive ==
    /\ pass.pc = "live"
    /\ pass' = [pass EXCEPT !.pc = "earliest", !.demand = Max({0, @ - Cardinality(LiveSessions)})]
    /\ UNCHANGED <<storeVars, workerVars, timer, retryDelay, signalVars, inflight, faults>>

(* The sessions are read once more, for the earliest heartbeat.            *)
WorkerCapacitySnapshot ==
    /\ pass.pc = "earliest"
    /\ pass' = [pass EXCEPT !.pc = "evaluate",
                  !.oldest = IF LiveSessions = {} THEN None
                             ELSE Max({age[s] - pass.lag : s \in LiveSessions})]
    /\ UNCHANGED <<storeVars, workerVars, timer, retryDelay, signalVars, inflight, faults>>

(* OneByOneUntilSaturatedPattern.Plan starts one worker or none.           *)
Plan(starts) == pass.demand > Len(starts) /\ starts = <<>>

(* EvaluateDemand up to the launch; the mutex stays locked over it.        *)
EvaluateDemand ==
    LET starts == pruneExpiredInflightStarts
    IN  /\ pass.pc = "evaluate"
        /\ IF Plan(starts)
           THEN /\ inflight' = Append(starts, pass.lag)
                /\ pass' = [pass EXCEPT !.pc = "launch", !.demand = 0]
                /\ UNCHANGED <<timer, retryDelay>>
           ELSE Finish(pass.oldest, starts, 0)
        /\ UNCHANGED <<storeVars, workerVars, signalVars, faults>>

(* StartWorkers.  The reservation is withdrawn when the launch fails.      *)
(* Bound: with every slot in use a new process dies before it registers.   *)
StartWorkers ==
    LET free == {s \in Slots \ active : worker[s] = "off"}
    IN  /\ pass.pc = "launch"
        /\ \/ /\ worker' = [s \in Slots |-> IF s \in free /\ s = Min(free)
                                           THEN "launched" ELSE worker[s]]
              /\ Finish(pass.oldest, inflight, 0)
              /\ UNCHANGED faults
           \/ /\ Fault
              /\ Finish(pass.oldest, SubSeq(inflight, 1, Len(inflight) - 1), noteReconcileError)
              /\ UNCHANGED worker
        /\ UNCHANGED <<storeVars, job, beat, since, signalVars>>

-----------------------------------------------------------------------------
WorkerLoop(s) ==
    \/ RegisterWorkerSession(s) \/ ConfirmOldestInflightStartRegistered(s)
    \/ FetchWorkItem(s) \/ Run(s) \/ StopUnreported(s) \/ Report(s) \/ StopWorker(s)

CareTaker ==
    \/ WakeBySignal \/ WakeByTimer
    \/ RecoverExpiredWorkerSessions
    \/ ReadQueued \/ ReadRunning \/ ReadLive \/ WorkerCapacitySnapshot
    \/ EvaluateDemand \/ StartWorkers

Next ==
    \/ Tick
    \/ \E i \in Items : Enqueue(i)
    \/ \E s \in Slots : WorkerLoop(s) \/ RunHeartbeat(s) \/ Suspend(s) \/ Crash(s)
    \/ CareTaker
    \/ ReconcileError

(* Clocks advance, goroutines and processes are scheduled.  Nothing is     *)
(* assumed of submissions, crashes, losses or errors.                      *)
Spec ==
    /\ Init /\ [][Next]_vars
    /\ SF_vars(Tick) /\ WF_vars(CareTaker)
    /\ \A s \in Slots : WF_vars(WorkerLoop(s)) /\ WF_vars(RunHeartbeat(s))
-----------------------------------------------------------------------------
(* Values have their types, and the caretaker never sleeps for longer than *)
(* its fallback interval.                                                  *)
TypeOK ==
    /\ place \in [Items -> {"new", "queued", "running", "done", "failed"}]
    /\ expiries \in [Items -> 0 .. RequeueLimit + 1]
    /\ active \subseteq Slots
    /\ age \in [Slots -> 0 .. DeadAfter + MaxPassTicks + 1]
    /\ holds \in [Slots -> Items \cup {None}] /\ job \in [Slots -> Items \cup {None}]
    /\ since \in [Slots -> 0 .. DeadAfter + 1]
    /\ pass.lag \in 0 .. MaxPassTicks
    /\ timer \in {None} \cup 0 .. FallbackInterval
    /\ retryDelay \in 0 .. RetryMaximum

(* A signal is never lost: until a pass begins after it, the slot is full. *)
SignalNotLost == unseen => wake

(* Only the session that has an item decides it: a report of a worker that *)
(* outlived its session, or was suspended past its expiry, changes nothing *)
(* (CompleteWork, FailWork).                                               *)
HolderDecides ==
    [][\A i \in Items : place[i] # place'[i] /\ place'[i] = "done" =>
          \E s \in active : holds[s] = i /\ worker[s] = "complete" /\ worker'[s] # "complete"]_vars

(* Whatever crashes, losses and errors happen, finitely many of them leave *)
(* nothing behind: for every queued item a worker is started and it is     *)
(* completed or given up, idle workers stop and crashed ones expire, so    *)
(* the fleet is at rest again and again.                                   *)
FleetComesToRest ==
    []<>(active = {} /\ \A i \in Items : place[i] \in {"new", "done", "failed"})
============================================================================
