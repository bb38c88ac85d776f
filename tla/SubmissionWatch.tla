--------------------------- MODULE SubmissionWatch ---------------------------
(***************************************************************************)
(* A client of the controller (internal/client/controller_client.go), and  *)
(* what the controller tells it of the run it submitted (cmd/controller/   *)
(* main.go).  goet submit -wait polls the run's status until the run has   *)
(* ended; goet demo polls the controller's and shuts it down when idle.    *)
(*                                                                         *)
(* A status is put together from several reads of the store, with nothing  *)
(* around them, while WorkflowRun goes on.                                 *)
(***************************************************************************)
EXTENDS WorkflowRun, Sequences

VARIABLES up,        \* is the controller process running
          client     \* the command, where it is, the counts it found positive, what it was told

watchVars == <<up, client>>

(* The four queries of a run's counts, in order; the two of a controller's.*)
Counts == <<"queued", "running", "completed", "failed">>
Load == <<"queued", "running">>

At(pc) == client' = [client EXCEPT !.pc = pc]
Fails == client' = [client EXCEPT !.pc = "done", !.told = "error"]

(* A request needs the controller; without it the command ends.            *)
Request(reply) == IF up THEN reply ELSE Fails

WatchInit ==
    /\ Init
    /\ up \in BOOLEAN
    /\ client \in [command : {"submit", "demo"}, pc : {"ensure"}, read : {0}, some : {{}}, told : {"none"},
                   failure : {{}}]
-----------------------------------------------------------------------------
(* EnsureController starts a controller when it reaches none, and gives up *)
(* after some checks.                                                      *)
EnsureController ==
    /\ client.pc = "ensure"
    /\ IF up THEN At("post") /\ UNCHANGED up
       ELSE (up' = TRUE /\ At("post")) \/ (Fails /\ UNCHANGED up)
    /\ UNCHANGED vars

SubmitWorkflowPayloadAcknowledgement ==
    /\ client.pc = "post"
    /\ Request(At("posted"))
    /\ UNCHANGED <<vars, up>>

(* The answer comes when the submission's handler returns.                 *)
Acknowledged ==
    /\ client.pc = "posted" /\ up
    /\ planned /\ \A h \in Handlers : handler[h].pc = "idle"
    /\ At(IF client.command = "submit" THEN "status" ELSE "load")
    /\ UNCHANGED <<vars, up>>
-----------------------------------------------------------------------------
OfKind(kind) ==
    CASE kind = "queued" -> Queued
      [] kind = "running" -> running
      [] OTHER -> {i \in Items : terminal[i] = kind}

(* Reads the next count of queries, or goes on when it has them all.       *)
ReadCount(queries, next) ==
    LET n == client.read + 1
        kind == queries[n]
    IN  client' = [client EXCEPT !.read = n,
                                 !.some = IF OfKind(kind) = {} THEN @ ELSE @ \cup {kind},
                                 !.pc = IF n = Len(queries) THEN next ELSE @]

CountWorkItemsForRun ==
    /\ client.pc = "status"
    /\ Request(ReadCount(Counts, "plan"))
    /\ UNCHANGED <<vars, up>>

submissionStatusName(some) ==
    CASE "running" \in some -> "running"
      [] "queued" \in some -> "queued"
      [] "failed" \in some -> "failed"
      [] "completed" \in some -> "completed"
      [] OTHER -> "unknown"

(* Faulty: the plan does not count.                                        *)
StatusOfCounts(some, state) == submissionStatusName(some)

(* The plan's state has the last word, unless work is seen to be under way *)
(* in a run that goes on.                                                  *)
submissionStatus(some, state) ==
    CASE state \in {"failed", "completed"} -> state
      [] state = "running" /\ submissionStatusName(some) \in {"completed", "unknown"} -> "running"
      [] OTHER -> submissionStatusName(some)

(* Where a failed run is said to have failed: the first failed stage, the  *)
(* first failed step of it and the first failed item of that; -1, 0, 0 as  *)
(* far as there is none.                                                   *)
failedDependencyStatus ==
    LET First(S, default) == IF S = {} THEN default ELSE Min(S)
        stage == First({n \in Stages(workflow) : StageState(n) = "failed"}, -1)
        step == First({s \in StepsOf(workflow, stage) : Plan.step[s] = "failed"}, 0)
        item == First({i \in members : workflow.stepOf[i] = step /\ Plan.member[i] = "failed"}, 0)
    IN  [stage |-> stage, step |-> step, item |-> item]

submissionDependencyStatusFromPlan == IF PlanState = "failed" THEN {failedDependencyStatus} ELSE {}

(* waitForSubmission, with the last read: a run that goes on is asked for  *)
(* again, every other answer ends the command.                             *)
waitForSubmission ==
    /\ client.pc = "plan"
    /\ LET told == submissionStatus(client.some, PlanState)
       IN  Request(client' = [client EXCEPT
               !.read = 0, !.some = {}, !.failure = submissionDependencyStatusFromPlan,
               !.pc = IF told \in {"queued", "running"} THEN "status" ELSE "done",
               !.told = told])
    /\ UNCHANGED <<vars, up>>
-----------------------------------------------------------------------------
persistenceControllerStatus ==
    /\ client.pc = "load"
    /\ Request(ReadCount(Load, "idle"))
    /\ UNCHANGED <<vars, up>>

(* Nothing pending and nothing assigned: the controller is shut down, with *)
(* the handlers under way.  Otherwise the client asks again, or gives up.  *)
ShutdownWhenIdle ==
    /\ client.pc = "idle"
    /\ IF client.some = {} /\ up
       THEN /\ up' = FALSE
            /\ RequestsLost
            /\ At("done")
            /\ UNCHANGED <<clockVars, storeVars, workVars, planned, members, facts, saved, boundVars>>
       ELSE /\ \/ client' = [client EXCEPT !.pc = "load", !.read = 0, !.some = {}]
               \/ Fails
            /\ UNCHANGED <<vars, up>>

(* The controller at work.  Crashes are not watched (MaxCrashes is 0).     *)
Serving ==
    /\ up
    /\ planned \/ client.pc = "posted"
    /\ Next
    /\ UNCHANGED watchVars

WatchNext ==
    \/ EnsureController \/ SubmitWorkflowPayloadAcknowledgement \/ Acknowledged
    \/ CountWorkItemsForRun \/ waitForSubmission
    \/ persistenceControllerStatus \/ ShutdownWhenIdle
    \/ Serving

WatchSpec == WatchInit /\ [][WatchNext]_<<vars, watchVars>>
-----------------------------------------------------------------------------
(* What a client is told when its wait ends stays true: a run reported     *)
(* completed has completed all its work and stays completed (but for a     *)
(* last output whose capture fails after the answer), a run reported       *)
(* failed had a failure and never completes, a failed plan names the step  *)
(* it failed at, and no wait ends with a status the client does not know   *)
(* (submissionStatus, failedDependencyStatus, waitForSubmission).          *)
ToldTruth ==
    client.pc = "done" =>
        /\ client.told = "completed" => /\ \A i \in Items : terminal[i] = "completed"
                                        /\ PlanState = "completed" \/ errors > 0
        /\ client.told = "failed" => /\ PlanState # "completed"
                                     /\ errors > 0 \/ \E i \in Items : terminal[i] = "failed"
        /\ \A f \in client.failure : f.stage # -1 /\ f.step # 0
        /\ client.told # "unknown"
==============================================================================
