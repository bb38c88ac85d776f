-------------------------- MODULE WorkflowRunProofs --------------------------
(***************************************************************************)
(* A workflow run.  Under overlapping request handlers, lost workers,      *)
(* repeated reports and crashes, any number of each: what an item needs is *)
(* there before the item is offered.  With one request at a time and no    *)
(* crash: stages run in order, work is queued once, and a run reads as     *)
(* completed or failed only when it is, and failed for good; and a client  *)
(* that waits for the run is told the truth of it.                         *)
(***************************************************************************)
EXTENDS SubmissionWatch, WellFoundedInduction, TLAPS

Labels == {"idle", "capture", "fact", "save", "record_failure", "fail_stage", "dependents", "enqueue", "queue",
           "members", "empty", "activate", "advance"}

Requests(w) ==
    [pc : Labels, kind : {"none", "submit", "complete", "fail", "activate"},
     item : WorkItems(w) \cup {0}, at : Int, stage : Nat, todo : SUBSET WorkItems(w)]

RunTypes ==
    /\ workflow \in Workflows
    /\ handler \in [Handlers -> Requests(workflow)]
    /\ now \in Int
    /\ createdAt \in [Items -> Int] /\ queuedAt \in [Items -> Int]
    /\ reported \subseteq [item : Items, outcome : {"completed", "failed"}, at : Int]
    /\ unsaved = [h \in Handlers |-> unsaved[h]]
    /\ running \subseteq Items
    /\ terminal \in [Items -> {"none", "completed", "failed"}]

(* A request that may store a stage has seen the outputs of the stages     *)
(* before it; a submission stores the first stage.                         *)
Informed(h) ==
    /\ handler[h].pc \in {"empty", "queue"} =>
           \A s \in Steps(workflow) : workflow.stageOf[s] < handler[h].stage => s \in facts
    /\ handler[h].kind = "submit" => handler[h].stage = 0

OutputsInv == RunTypes /\ OutputsPrecede /\ \A h \in Handlers : Informed(h)

(* A leaf is for Zenon, unless it says SMT or uses ONLY what it cites.     *)
USE Zenon
-----------------------------------------------------------------------------
(* The stage of an item is a number.                                       *)
LEMMA StagesAreNumbers ==
    ASSUME NEW w \in Workflows
    PROVE  /\ \A s \in Steps(w) : w.stageOf[s] \in Nat
           /\ \A i \in WorkItems(w) : StageOfItem(w, i) \in Nat
BY WorkflowRunAssumption DEF Stages, StageOfItem

(* What a step of one request can do to the requests.                      *)
Moves(h, r) == r \in Requests(workflow) /\ handler' = [handler EXCEPT ![h] = r]

(* Nothing has happened at first.                                          *)
LEMMA InitTypes == Init => RunTypes
BY SMT DEF Init, RunTypes, Requests, Labels, Idle, Items, Never

(* A request that ends, goes on, or is taken up is one of those there are. *)
LEMMA ReturnMoves ==
    ASSUME RunTypes, NEW h \in Handlers, Return(h)
    PROVE  Moves(h, Idle)
BY SMT DEF Moves, Return, Idle, Requests, Labels

(* It goes on with another step ...                                        *)
LEMMA GotoMoves ==
    ASSUME RunTypes, NEW h \in Handlers, NEW pc \in Labels, Goto(h, pc)
    PROVE  Moves(h, [handler[h] EXCEPT !.pc = pc])
BY DEF Moves, Goto, Requests, RunTypes

(* ... or is taken up for a report about an item.                          *)
LEMMA ServeMoves ==
    ASSUME RunTypes, NEW h \in Handlers, NEW i \in Items, NEW at \in Int, NEW pc \in Labels,
           NEW kind \in {"complete", "fail"}, Serve(h, kind, i, at, pc)
    PROVE  /\ handler[h].pc = "idle"
           /\ Moves(h, [pc |-> pc, kind |-> kind, item |-> i, at |-> at,
                        stage |-> StageOfItem(workflow, i), todo |-> {}])
<1>1. StageOfItem(workflow, i) \in Nat
  BY StagesAreNumbers DEF RunTypes, Items
<1> QED
  BY <1>1 DEF Moves, Serve, Requests, RunTypes, Items

(* Where a request stands that is taken up for a report.                   *)
LEMMA ServeStands ==
    ASSUME RunTypes, NEW h \in Handlers, NEW kind, NEW i, NEW at, NEW pc, Serve(h, kind, i, at, pc)
    PROVE  /\ handler[h].pc = "idle"
           /\ handler'[h].pc = pc /\ handler'[h].kind = kind /\ handler'[h].item = i
           /\ handler'[h].stage = StageOfItem(workflow, i)
           /\ \A g \in Handlers \ {h} : handler'[g] = handler[g]
BY DEF Serve, RunTypes

(* A report about an item comes again, ...                                 *)
Replay(h, i) == \E r \in reported : r.item = i /\ ReplayReport(h, r)

(* ... which is one of the run's.                                          *)
LEMMA ReplayOfItem ==
    ASSUME RunTypes
    PROVE  \A h \in Handlers : \A r \in reported : ReplayReport(h, r) => \E i \in Items : Replay(h, i)
BY DEF RunTypes, Replay

(* A request is taken up for a report at its start, as for a new one.      *)
LEMMA ReplayServes ==
    ASSUME RunTypes, NEW h \in Handlers, NEW i \in Items, Replay(h, i)
    PROVE  /\ UNCHANGED <<clockVars, storeVars, workVars, planVars, errors, crashes>>
           /\ \E r \in reported :
                 /\ r.item = i /\ r.at \in Int /\ r.outcome \in {"completed", "failed"}
                 /\ IF r.outcome = "completed" THEN Serve(h, "complete", i, r.at, AfterCompletion(i))
                    ELSE Serve(h, "fail", i, r.at, AfterFailure(i))
<1>1. PICK r \in reported : r.item = i /\ ReplayReport(h, r)
  BY DEF Replay
<1>2. r.at \in Int /\ r.outcome \in {"completed", "failed"}
  BY <1>1 DEF RunTypes
<1> QED
  BY <1>1, <1>2 DEF ReplayReport

(* Where a captured output goes on to.                                     *)
LEMMA CaptureGoes ==
    ASSUME NEW h \in Handlers
    PROVE  /\ CaptureOutput(h) => \E pc \in {"record_failure", "dependents", "fact", "save"} : Goto(h, pc)
           /\ upsertWorkflowStepOutputFact(h) => \E pc \in {"dependents", "save"} : Goto(h, pc)
           /\ SaveFailedPlan(h) => Goto(h, "dependents")
<1>1. \A plan : AfterFact(plan) \in {"dependents", "save"}
  BY DEF AfterFact
<1>2. \A plan : \A b : (IF b THEN "fact" ELSE AfterFact(plan)) \in {"fact", "dependents", "save"}
  BY <1>1
<1> QED
  BY <1>1, <1>2 DEF CaptureOutput, upsertWorkflowStepOutputFact, SaveFailedPlan

(* What a step of a request does to that request: its label, its list, and *)
(* for activation its stage.                                               *)
LEMMA RequestMoves ==
    ASSUME RunTypes, NEW h \in Handlers, HandlerStep(h)
    PROVE  \E r \in Requests(workflow) :
              /\ handler' = [handler EXCEPT ![h] = r]
              /\ \/ r = Idle
                 \/ r.kind = handler[h].kind /\ r.stage = handler[h].stage /\ r.item = handler[h].item
                    /\ r.at = handler[h].at
                 \/ /\ r.kind = "activate" /\ r.stage = handler[h].stage + 1 /\ r.pc \in {"empty", "fail_stage"}
                    /\ r.item = handler[h].item /\ r.at = handler[h].at
<1> DEFINE Good(r) ==
      /\ handler' = [handler EXCEPT ![h] = r]
      /\ \/ r = Idle
         \/ r.kind = handler[h].kind /\ r.stage = handler[h].stage /\ r.item = handler[h].item
            /\ r.at = handler[h].at
         \/ /\ r.kind = "activate" /\ r.stage = handler[h].stage + 1 /\ r.pc \in {"empty", "fail_stage"}
            /\ r.item = handler[h].item /\ r.at = handler[h].at
<1>0. handler[h] \in Requests(workflow)
  BY DEF RunTypes
<1>1. ASSUME Return(h) PROVE \E r \in Requests(workflow) : Good(r)
  BY <1>1, ReturnMoves DEF Moves
<1>2. ASSUME NEW pc \in Labels, Goto(h, pc) PROVE \E r \in Requests(workflow) : Good(r)
  <2>1. Moves(h, [handler[h] EXCEPT !.pc = pc])
    BY <1>2, GotoMoves
  <2> QED
    BY <1>0, <2>1 DEF Moves, Requests
<1>3. ASSUME NEW pc \in Labels, NEW todo \in SUBSET Items,
             handler' = [handler EXCEPT ![h].pc = pc, ![h].todo = todo]
      PROVE  \E r \in Requests(workflow) : Good(r)
  <2> DEFINE r == [handler[h] EXCEPT !.pc = pc, !.todo = todo]
  <2>1. handler' = [handler EXCEPT ![h] = r]
    BY <1>0, <1>3 DEF RunTypes
  <2>2. r \in Requests(workflow) /\ r.kind = handler[h].kind /\ r.stage = handler[h].stage
        /\ r.item = handler[h].item /\ r.at = handler[h].at
    BY <1>0 DEF Requests, Items
  <2> QED
    BY <2>1, <2>2
<1>4. ASSUME NEW pc \in {"empty", "fail_stage"},
             handler' = [handler EXCEPT ![h].pc = pc, ![h].kind = "activate", ![h].stage = handler[h].stage + 1]
      PROVE  \E r \in Requests(workflow) : Good(r)
  <2> DEFINE r == [handler[h] EXCEPT !.pc = pc, !.kind = "activate", !.stage = handler[h].stage + 1]
             first == [handler EXCEPT ![h].pc = pc, ![h].kind = "activate"]
  <2>1. handler' = [handler EXCEPT ![h] = r]
    <3>1. handler' = [first EXCEPT ![h].stage = handler[h].stage + 1]
      BY <1>4
    <3>2. first = [handler EXCEPT ![h] = [handler[h] EXCEPT !.pc = pc, !.kind = "activate"]]
      BY <1>0 DEF RunTypes
    <3> QED
      BY <1>0, <3>1, <3>2 DEF RunTypes
  <2>2. r \in Requests(workflow) /\ r.kind = "activate" /\ r.stage = handler[h].stage + 1 /\ r.pc = pc
        /\ r.item = handler[h].item /\ r.at = handler[h].at
    <3>1. handler[h].stage + 1 \in Nat
      BY SMT, <1>0 DEF Requests
    <3>2. pc \in Labels
      BY DEF Labels
    <3> QED
      BY <1>0, <3>1, <3>2 DEF Requests
  <2> QED
    BY <2>1, <2>2
<1>5. CASE \/ CaptureOutput(h) \/ upsertWorkflowStepOutputFact(h) \/ SaveFailedPlan(h)
           \/ RecordWorkItemTerminalFailure(h) \/ markWorkflowStageActivationFailed(h) \/ MembershipsRecorded(h)
           \/ markCompiledStageEmptyStepsCompleted(h)
  <2>1. CASE CaptureOutput(h) \/ upsertWorkflowStepOutputFact(h) \/ SaveFailedPlan(h)
    BY <1>2, <2>1, CaptureGoes DEF Labels
  <2> QED
    BY <1>1, <1>2, <1>5, <2>1 DEF RecordWorkItemTerminalFailure,
       markWorkflowStageActivationFailed, MembershipsRecorded, markCompiledStageEmptyStepsCompleted,
       AfterDependents, Labels
<1>6. CASE enqueueReadyAssetMaterializeDependents(h) \/ EnqueueWorkItems(h)
  <2>1. ReadyDependents(handler[h].item) \in SUBSET Items
    BY DEF ReadyDependents, Stored
  <2>2. Return(h) \/ Goto(h, "activate") \/ Goto(h, "members")
        \/ handler' = [handler EXCEPT ![h].pc = "enqueue", ![h].todo = ReadyDependents(handler[h].item)]
    BY <1>6 DEF enqueueReadyAssetMaterializeDependents, EnqueueWorkItems, AfterDependents
  <2> QED
    BY <1>1, <1>2, <1>3, <2>1, <2>2 DEF Labels
<1>7. CASE QueueWorkItems(h)
  <2> DEFINE todo == ReadyAtOnce(handler[h].stage) \ workflow.materialize
  <2>1. todo \in SUBSET Items
    BY DEF ReadyAtOnce, StageItems, Items
  <2>2. Return(h) \/ Goto(h, "fail_stage") \/ handler' = [handler EXCEPT ![h].pc = "members", ![h].todo = todo]
    BY <1>7 DEF QueueWorkItems, StageError
  <2> QED
    BY <1>1, <1>2, <1>3, <2>1, <2>2 DEF Labels
<1>8. CASE RecordCompiledWorkItemMembership(h)
  <2>1. \/ StageError(h)
        \/ handler' = [handler EXCEPT ![h].todo = @ \ {Min(handler[h].todo)}]
    BY <1>8 DEF RecordCompiledWorkItemMembership
  <2>2. CASE StageError(h)
    BY <1>1, <1>2, <2>2 DEF StageError, Labels
  <2>3. CASE handler' = [handler EXCEPT ![h].todo = @ \ {Min(handler[h].todo)}]
    <3> DEFINE r == [handler[h] EXCEPT !.todo = handler[h].todo \ {Min(handler[h].todo)}]
    <3>1. handler' = [handler EXCEPT ![h] = r]
      BY <1>0, <2>3 DEF RunTypes
    <3>2. r \in Requests(workflow) /\ r.kind = handler[h].kind /\ r.stage = handler[h].stage
          /\ r.item = handler[h].item /\ r.at = handler[h].at
      BY <1>0 DEF Requests, Items
    <3> QED
      BY <3>1, <3>2
  <2> QED
    BY <2>1, <2>2, <2>3
<1>9. CASE activateNextReadyWorkflowStage(h) \/ ContinueActivation(h)
  BY <1>1, <1>4, <1>9 DEF activateNextReadyWorkflowStage, ContinueActivation, AdvanceFrom
<1> QED
  BY <1>5, <1>6, <1>7, <1>8, <1>9 DEF HandlerStep

(* Requests do not touch running and finished work.                        *)
LEMMA RequestKeeps ==
    ASSUME NEW h \in Handlers, HandlerStep(h)
    PROVE  UNCHANGED <<workflow, now, planned, workVars>> /\ facts \subseteq facts'
BY DEF HandlerStep, CaptureOutput, upsertWorkflowStepOutputFact, SaveFailedPlan, RecordWorkItemTerminalFailure,
   markWorkflowStageActivationFailed, enqueueReadyAssetMaterializeDependents, EnqueueWorkItems, QueueWorkItems,
   RecordCompiledWorkItemMembership, MembershipsRecorded, markCompiledStageEmptyStepsCompleted,
   activateNextReadyWorkflowStage, ContinueActivation, clockVars, planVars

(* Every step keeps the types.                                             *)
LEMMA NextTypes ==
    ASSUME RunTypes, [Next]_vars
    PROVE  RunTypes'
<1> USE DEF clockVars, storeVars, workVars, planVars, boundVars
<1>1. CASE Tick \/ Crash \/ UNCHANGED vars
  <2>1. handler' \in [Handlers -> Requests(workflow)]
    BY SMT, <1>1 DEF Tick, Crash, RequestsLost, vars, RunTypes, Requests, Idle, Labels
  <2> QED
    BY SMT, <1>1, <2>1 DEF Tick, Crash, RequestsLost, vars, RunTypes, Items
<1>2. ASSUME NEW i \in Items, ClaimNextWork(i) PROVE RunTypes'
  BY SMT, <1>2 DEF ClaimNextWork, RunTypes, Items, Queued, Never
<1>3. ASSUME NEW i \in Items, RecoverWork(i) PROVE RunTypes'
  BY SMT, <1>3 DEF RecoverWork, RunTypes, Items, Never, Nano
<1>4. ASSUME NEW h \in Handlers, NEW i \in Items, Report(h, i) \/ Replay(h, i) PROVE RunTypes'
  <2>0. now \in Int /\ \A pc \in {AfterCompletion(i), AfterFailure(i)} : pc \in Labels
    BY DEF AfterCompletion, AfterFailure, Labels, RunTypes
  <2>1. UNCHANGED <<workflow, now, createdAt, queuedAt, unsaved>>
    BY <1>4, ReplayServes DEF Report, completePersistedWorkHandler, failPersistedWorkHandler
  <2>2. PICK pc \in Labels, kind \in {"complete", "fail"}, at \in Int : Serve(h, kind, i, at, pc)
    <3>1. CASE Report(h, i)
      BY <2>0, <3>1 DEF Report, completePersistedWorkHandler, failPersistedWorkHandler
    <3>2. CASE Replay(h, i)
      BY <2>0, <3>2, ReplayServes
    <3> QED
      BY <1>4, <3>1, <3>2
  <2>3. /\ running' \subseteq Items /\ terminal' \in [Items -> {"none", "completed", "failed"}]
        /\ reported' \subseteq [item : Items, outcome : {"completed", "failed"}, at : Int]
    <3>1. CASE Report(h, i)
      <4>1. PICK o \in {"completed", "failed"} : SettleAttempt(i, o)
        BY <3>1 DEF Report, completePersistedWorkHandler, failPersistedWorkHandler
      <4> QED
        BY SMT, <4>1 DEF SettleAttempt, RunTypes
    <3>2. CASE Replay(h, i)
      BY <3>2, ReplayServes DEF RunTypes
    <3> QED
      BY <1>4, <3>1, <3>2
  <2>4. handler' \in [Handlers -> Requests(workflow)]
    <3>1. Moves(h, [pc |-> pc, kind |-> kind, item |-> i, at |-> at,
                    stage |-> StageOfItem(workflow, i), todo |-> {}])
      BY <2>2, ServeMoves
    <3> QED
      BY <3>1 DEF Moves, RunTypes
  <2> QED
    BY <2>1, <2>3, <2>4 DEF RunTypes, Items
<1>5. ASSUME NEW h \in Handlers, submitAdmittedWorkflow(h) PROVE RunTypes'
  <2>1. PICK pc \in {"empty", "queue"} :
            handler' = [handler EXCEPT ![h] = [Idle EXCEPT !.kind = "submit", !.at = now, !.pc = pc]]
    BY <1>5 DEF submitAdmittedWorkflow
  <2>2. [Idle EXCEPT !.kind = "submit", !.at = now, !.pc = pc] \in Requests(workflow)
    <3>1. Idle \in Requests(workflow)
      BY SMT DEF Idle, Requests, Labels
    <3>2. pc \in Labels /\ now \in Int
      BY DEF Labels, RunTypes
    <3> QED
      BY <3>1, <3>2 DEF Requests
  <2> QED
    BY <1>5, <2>1, <2>2 DEF submitAdmittedWorkflow, RunTypes, Items
<1>6. ASSUME NEW h \in Handlers, HandlerStep(h) PROVE RunTypes'
  <2>1. UNCHANGED <<workflow, now, workVars>>
    BY <1>6, RequestKeeps
  <2>2. handler' \in [Handlers -> Requests(workflow)]
    BY <1>6, RequestMoves DEF RunTypes
  <2>3. createdAt' \in [Items -> Int] /\ queuedAt' \in [Items -> Int]
    <3>1. handler[h].at \in Int
      BY DEF RunTypes, Requests
    <3>2. CASE QueueWorkItems(h)
      BY <3>1, <3>2 DEF QueueWorkItems, Enqueue, RunTypes
    <3>3. CASE EnqueueWorkItems(h)
      BY <3>1, <3>3 DEF EnqueueWorkItems, Enqueue, RunTypes
    <3>4. CASE UNCHANGED storeVars
      BY <3>4 DEF RunTypes
    <3> QED
      BY <1>6, <3>2, <3>3, <3>4 DEF HandlerStep, CaptureOutput, upsertWorkflowStepOutputFact, SaveFailedPlan,
         RecordWorkItemTerminalFailure, markWorkflowStageActivationFailed, enqueueReadyAssetMaterializeDependents,
         RecordCompiledWorkItemMembership, MembershipsRecorded, markCompiledStageEmptyStepsCompleted,
         activateNextReadyWorkflowStage, ContinueActivation
  <2>4. unsaved' = [g \in Handlers |-> unsaved'[g]]
    <3>1. unsaved' = unsaved \/ \E plan : unsaved' = [unsaved EXCEPT ![h] = plan]
      BY <1>6 DEF HandlerStep, CaptureOutput, upsertWorkflowStepOutputFact, SaveFailedPlan,
         RecordWorkItemTerminalFailure, markWorkflowStageActivationFailed, enqueueReadyAssetMaterializeDependents,
         EnqueueWorkItems, QueueWorkItems, RecordCompiledWorkItemMembership, MembershipsRecorded,
         markCompiledStageEmptyStepsCompleted, activateNextReadyWorkflowStage, ContinueActivation
    <3> QED
      BY <3>1 DEF RunTypes
  <2> QED
    BY <2>1, <2>2, <2>3, <2>4 DEF RunTypes, Items
<1> QED
  BY <1>1, <1>2, <1>3, <1>4, <1>5, <1>6, ReplayOfItem DEF Next, Progress
-----------------------------------------------------------------------------
(* A step that stores nothing, drops no output and does not bring a        *)
(* request to where it may store a stage.                                  *)
LEMMA OutputsKept ==
    ASSUME OutputsInv, UNCHANGED <<workflow, createdAt>>, facts \subseteq facts', RunTypes',
           \A h \in Handlers :
               \/ handler'[h] = handler[h]
               \/ /\ handler'[h].pc \notin {"empty", "queue"}
                  /\ handler'[h].kind = "submit" => handler'[h].stage = 0
    PROVE  OutputsInv'
<1>1. OutputsPrecede'
  BY DEF OutputsInv, OutputsPrecede, Stored, Items
<1>2. ASSUME NEW h \in Handlers PROVE Informed(h)'
  BY DEF OutputsInv, Informed
<1> QED
  BY <1>1, <1>2 DEF OutputsInv

(* Requests lead to a stage with the outputs it needs.                     *)
LEMMA RequestsKeepOutputs ==
    ASSUME OutputsInv, RunTypes', NEW h \in Handlers, HandlerStep(h)
    PROVE  OutputsInv'
<1> USE DEF clockVars, storeVars, workVars, planVars, boundVars
<1>0. RunTypes /\ handler[h] \in Requests(workflow)
  BY DEF OutputsInv, RunTypes
<1>1. UNCHANGED workflow /\ facts \subseteq facts'
  BY RequestKeeps
<1>2. PICK r \in Requests(workflow) :
          /\ handler' = [handler EXCEPT ![h] = r]
          /\ \/ r = Idle
             \/ r.kind = handler[h].kind /\ r.stage = handler[h].stage /\ r.item = handler[h].item
                /\ r.at = handler[h].at
             \/ /\ r.kind = "activate" /\ r.stage = handler[h].stage + 1 /\ r.pc \in {"empty", "fail_stage"}
                /\ r.item = handler[h].item /\ r.at = handler[h].at
  BY <1>0, RequestMoves
<1>3. handler'[h] = r /\ \A g \in Handlers \ {h} : handler'[g] = handler[g]
  BY <1>2, <1>0 DEF RunTypes
<1>4. r.kind = "submit" => r.stage = 0
  BY SMT, <1>2 DEF OutputsInv, Informed, Idle
<1>5. r.pc \in {"empty", "queue"} =>
          \A s \in Steps(workflow) : workflow.stageOf[s] < r.stage => s \in facts
  <2>1. CASE \/ CaptureOutput(h) \/ upsertWorkflowStepOutputFact(h) \/ SaveFailedPlan(h)
             \/ RecordWorkItemTerminalFailure(h) \/ markWorkflowStageActivationFailed(h)
             \/ enqueueReadyAssetMaterializeDependents(h) \/ EnqueueWorkItems(h) \/ QueueWorkItems(h)
             \/ RecordCompiledWorkItemMembership(h)
    <3>1. \/ Return(h) \/ \E pc \in Labels \ {"empty", "queue"} : Goto(h, pc)
          \/ \E pc \in {"members", "enqueue"}, todo \in SUBSET Items :
                  handler' = [handler EXCEPT ![h].pc = pc, ![h].todo = todo]
          \/ handler[h].pc = "members" /\ handler' = [handler EXCEPT ![h].todo = @ \ {Min(handler[h].todo)}]
      <4>0. CASE \/ CaptureOutput(h) \/ upsertWorkflowStepOutputFact(h) \/ SaveFailedPlan(h)
        <5>1. {"record_failure", "dependents", "fact", "save"} \subseteq Labels \ {"empty", "queue"}
          BY SMT DEF Labels
        <5> QED
          BY <4>0, <5>1, CaptureGoes
      <4>1. CASE RecordWorkItemTerminalFailure(h) \/ markWorkflowStageActivationFailed(h)
        BY <4>1 DEF RecordWorkItemTerminalFailure, markWorkflowStageActivationFailed, Labels
      <4>2. CASE \/ enqueueReadyAssetMaterializeDependents(h) \/ EnqueueWorkItems(h)
        BY <4>2 DEF enqueueReadyAssetMaterializeDependents, EnqueueWorkItems, AfterDependents, Labels,
           ReadyDependents, Stored
      <4>3. CASE QueueWorkItems(h)
        BY <4>3 DEF QueueWorkItems, StageError, Labels, ReadyAtOnce, StageItems, Items
      <4>4. CASE RecordCompiledWorkItemMembership(h)
        BY <4>4 DEF RecordCompiledWorkItemMembership, StageError, Labels
      <4> QED
        BY <2>1, <4>0, <4>1, <4>2, <4>3, <4>4
    <3>2. handler'[h].pc \notin {"empty", "queue"}
      BY SMT, <1>0, <3>1 DEF Goto, Return, Idle, RunTypes, Requests
    <3> QED
      BY <1>3, <3>2
  <2>2. CASE MembershipsRecorded(h)
    <3>1. r.pc \in {"empty", "queue"} => r.stage = 0
      BY SMT, <1>0, <1>2, <1>3, <1>4, <2>2 DEF MembershipsRecorded, AfterDependents, Goto, Return, Idle, RunTypes,
         Requests
    <3> QED
      BY SMT, <1>0, <3>1, StagesAreNumbers DEF RunTypes
  <2>3. CASE markCompiledStageEmptyStepsCompleted(h)
    <3>1. handler[h].pc = "empty" /\ (r.pc \in {"empty", "queue"} => r.stage = handler[h].stage)
      <4>1. handler[h].pc = "empty" /\ (Return(h) \/ \E pc \in {"activate", "advance", "queue"} : Goto(h, pc))
        BY <2>3 DEF markCompiledStageEmptyStepsCompleted
      <4> QED
        BY SMT, <1>0, <1>3, <4>1 DEF Goto, Return, Idle, RunTypes, Requests
    <3> QED
      BY <3>1 DEF OutputsInv, Informed
  <2>4. CASE activateNextReadyWorkflowStage(h) \/ ContinueActivation(h)
    <3>1. r.pc \in {"empty", "queue"} => OutputsAvailable(handler[h].stage + 1) /\ r.stage = handler[h].stage + 1
      <4>1. \/ Return(h) \/ OutputsAvailable(handler[h].stage + 1)
            \/ handler' = [handler EXCEPT ![h].pc = "fail_stage", ![h].kind = "activate",
                                          ![h].stage = handler[h].stage + 1]
        BY <2>4 DEF activateNextReadyWorkflowStage, ContinueActivation, AdvanceFrom
      <4>2. Return(h) \/ handler'[h].pc = "fail_stage" \/ OutputsAvailable(handler[h].stage + 1)
        BY SMT, <1>0, <4>1 DEF RunTypes, Requests
      <4>3. Return(h) \/ (handler'[h].stage = handler[h].stage + 1)
        BY SMT, <1>0, <2>4 DEF activateNextReadyWorkflowStage, ContinueActivation, AdvanceFrom, RunTypes, Requests
      <4> QED
        BY SMT, <1>0, <1>3, <4>2, <4>3 DEF Return, Idle, RunTypes
    <3> QED
      BY <3>1 DEF OutputsAvailable
  <2> QED
    BY <2>1, <2>2, <2>3, <2>4 DEF HandlerStep
<1>6. \A g \in Handlers : Informed(g)'
  BY <1>1, <1>3, <1>4, <1>5 DEF OutputsInv, Informed
<1>7. OutputsPrecede'
  <2>1. CASE UNCHANGED createdAt
    BY <1>1, <2>1 DEF OutputsInv, OutputsPrecede, Stored, Items
  <2>2. CASE ~UNCHANGED createdAt
    <3>1. QueueWorkItems(h)
      BY <2>2 DEF HandlerStep, CaptureOutput, upsertWorkflowStepOutputFact, SaveFailedPlan, EnqueueWorkItems,
         RecordWorkItemTerminalFailure, markWorkflowStageActivationFailed, enqueueReadyAssetMaterializeDependents,
         RecordCompiledWorkItemMembership, MembershipsRecorded, markCompiledStageEmptyStepsCompleted,
         activateNextReadyWorkflowStage, ContinueActivation
    <3>2. Stored' \subseteq Stored \cup StageItems(workflow, handler[h].stage)
      BY <1>0, <1>1, <2>2, <3>1 DEF QueueWorkItems, Stored, Items
    <3>3. \A i \in StageItems(workflow, handler[h].stage) : \A s \in Steps(workflow) :
              workflow.stageOf[s] < StageOfItem(workflow, i) => s \in facts
      BY <3>1 DEF QueueWorkItems, OutputsInv, Informed, StageItems
    <3> QED
      BY <1>1, <3>2, <3>3 DEF OutputsInv, OutputsPrecede
  <2> QED
    BY <2>1, <2>2
<1> QED
  BY <1>6, <1>7 DEF OutputsInv

(* Every step keeps the invariant.                                         *)
LEMMA NextOutputs ==
    ASSUME OutputsInv, [Next]_vars
    PROVE  OutputsInv'
<1> USE DEF clockVars, storeVars, workVars, planVars, boundVars
<1>0. RunTypes /\ RunTypes'
  BY NextTypes DEF OutputsInv
<1>1. CASE Tick \/ Crash \/ UNCHANGED vars \/ \E i \in Items : ClaimNextWork(i) \/ RecoverWork(i)
  <2>1. UNCHANGED <<workflow, createdAt, facts>> /\ \A g \in Handlers : handler'[g] \in {handler[g], Idle}
    BY <1>1 DEF Tick, Crash, RequestsLost, vars, ClaimNextWork, RecoverWork
  <2> QED
    BY SMT, <1>0, <2>1, OutputsKept DEF Idle
<1>2. ASSUME NEW h \in Handlers, NEW i \in Items, Report(h, i) \/ Replay(h, i) PROVE OutputsInv'
  <2>1. UNCHANGED <<workflow, createdAt, facts>>
    BY <1>2 DEF Report, completePersistedWorkHandler, failPersistedWorkHandler, Replay, ReplayReport
  <2>2. \A g \in Handlers : handler'[g] = handler[g] \/
            (handler'[g].pc \notin {"empty", "queue"} /\ handler'[g].kind # "submit")
    <3>1. PICK kind \in {"complete", "fail"}, pc \in {"dependents", "capture", "fail_stage", "record_failure"} :
              \E at : Serve(h, kind, i, at, pc)
      <4>1. CASE Report(h, i)
        BY <4>1 DEF Report, completePersistedWorkHandler, failPersistedWorkHandler, AfterCompletion, AfterFailure
      <4>2. CASE Replay(h, i)
        BY <1>0, <4>2, ReplayServes DEF AfterCompletion, AfterFailure
      <4> QED
        BY <1>2, <4>1, <4>2
    <3>2. /\ handler'[h].kind = kind /\ handler'[h].pc = pc
          /\ \A g \in Handlers \ {h} : handler'[g] = handler[g]
      BY <1>0, <3>1, ServeStands
    <3>3. /\ kind \notin {"submit", "activate"} /\ kind # "submit"
          /\ pc \notin {"queue", "enqueue"} /\ pc \notin {"empty", "queue"}
      BY SMT, <3>1
    <3> QED
      BY <3>1, <3>2, <3>3
  <2> QED
    BY <1>0, <2>1, <2>2, OutputsKept
<1>3. ASSUME NEW h \in Handlers, submitAdmittedWorkflow(h) PROVE OutputsInv'
  <2>1. UNCHANGED <<workflow, createdAt, facts>>
    BY <1>3 DEF submitAdmittedWorkflow
  <2>2. handler'[h].stage = 0 /\ \A g \in Handlers \ {h} : handler'[g] = handler[g]
    BY <1>0, <1>3 DEF submitAdmittedWorkflow, RunTypes, Idle
  <2>3. \A g \in Handlers : Informed(g)'
    <3>1. Informed(h)'
      <4>1. \A s \in Steps(workflow) : workflow.stageOf[s] \in Nat
        BY <1>0, StagesAreNumbers DEF RunTypes
      <4>2. \A s \in Steps(workflow) : ~(workflow.stageOf[s] < 0)
        BY ONLY <4>1
      <4> QED
        BY <2>1, <2>2, <4>2 DEF Informed
    <3>2. ASSUME NEW g \in Handlers \ {h} PROVE Informed(g)'
      BY <2>1, <2>2 DEF OutputsInv, Informed
    <3> QED
      BY <3>1, <3>2
  <2>4. OutputsPrecede'
    BY <2>1 DEF OutputsInv, OutputsPrecede, Stored, Items
  <2> QED
    BY <1>0, <2>3, <2>4 DEF OutputsInv
<1> QED
  BY <1>0, <1>1, <1>2, <1>3, RequestsKeepOutputs, ReplayOfItem DEF Next, Progress

(* However handlers overlap or crash, an item of a later stage is stored   *)
(* only when the output of every step before it is kept.                   *)
THEOREM RunOutputsPrecede == Spec => []OutputsPrecede
<1>1. Init => OutputsInv
  BY SMT, InitTypes DEF Init, OutputsInv, OutputsPrecede, Stored, Informed, Idle
<1>2. OutputsInv /\ [Next]_vars => OutputsInv'
  BY NextOutputs
<1>3. OutputsInv => OutputsPrecede
  BY DEF OutputsInv
<1> QED
  BY <1>1, <1>2, <1>3, PTL DEF Spec
-----------------------------------------------------------------------------
(* Dependencies inside the first stage, and no chains of them.             *)
FlatFirstStage(w) ==
    \A i \in WorkItems(w) : \A d \in w.dependsOn[i] :
        /\ d \in WorkItems(w) /\ w.dependsOn[d] = {}
        /\ StageOfItem(w, i) = 0 /\ StageOfItem(w, d) = 0

Producers == {d \in Items : \E i \in Items : d \in workflow.dependsOn[i]}

Fresh == Queued = {} /\ running = {} /\ reported = {} /\ \A i \in Items : terminal[i] = "none"

(* A producer has one row, and once it is done it has none; what is        *)
(* reported of it is its outcome.                                          *)
OnceOnly(d) ==
    /\ d \in Queued => d \notin running /\ terminal[d] = "none"
    /\ d \in running => terminal[d] = "none"
    /\ \A r \in reported : r.item = d => terminal[d] = r.outcome

(* The first stage is stored by the submission, before anything else, and  *)
(* a request releases an item whose producers are done.                    *)
InTurn(h) ==
    /\ handler[h].kind = "activate" => handler[h].stage >= 1
    /\ handler[h].pc = "queue" => handler[h].kind \in {"submit", "activate"}
    /\ handler[h].pc = "queue" /\ handler[h].kind = "submit" =>
           planned /\ Fresh /\ \A g \in Handlers \ {h} : handler[g].pc = "idle"
    /\ handler[h].pc = "enqueue" =>
           \A j \in handler[h].todo :
               workflow.dependsOn[j] # {} /\ \A d \in workflow.dependsOn[j] : terminal[d] = "completed"

DependentsInv ==
    /\ RunTypes
    /\ ~planned => Fresh /\ \A h \in Handlers : handler[h].pc = "idle"
    /\ \A h \in Handlers : InTurn(h)
    /\ \A d \in Producers : OnceOnly(d)
    /\ DependentsWait

(* Dependencies are items, of the first stage, that wait for nothing.      *)
LEMMA FlatDependencies ==
    ASSUME RunTypes, FlatFirstStage(workflow), NEW i \in Items
    PROVE  /\ workflow.dependsOn[i] \subseteq Producers
           /\ i \in Producers => workflow.dependsOn[i] = {} /\ StageOfItem(workflow, i) = 0
           /\ workflow.dependsOn[i] # {} => StageOfItem(workflow, i) = 0 /\ i \notin Producers
BY DEF FlatFirstStage, Producers, Items

(* Work goes on: an item that is queued or running is claimed, lost, or    *)
(* settled, and a request may be taken up for it.                          *)
LEMMA WorkKeepsWaiting ==
    ASSUME FlatFirstStage(workflow), DependentsInv, RunTypes', NEW i \in Queued \cup running,
           UNCHANGED <<workflow, planned>>,
           running' \subseteq running \cup {i}, i \in running' => i \notin running,
           \A j \in Items \ {i} : queuedAt'[j] = queuedAt[j] /\ terminal'[j] = terminal[j],
           \A r \in reported' : r \in reported \/ r.item = i,
           i \in Producers => OnceOnly(i)',
           i \in running \/ terminal'[i] = terminal[i],
           \A h \in Handlers : \/ handler'[h] = handler[h]
                               \/ /\ handler'[h].kind \notin {"submit", "activate"}
                                  /\ handler'[h].pc \notin {"queue", "enqueue"}
    PROVE  DependentsInv'
<1>0. RunTypes /\ i \in Items /\ Items' = Items /\ Producers' = Producers
  BY DEF DependentsInv, RunTypes, Queued, Items, Producers
<1>1. ~Fresh /\ planned
  BY DEF Fresh, DependentsInv
<1>2. \A d \in Producers : terminal[d] = "completed" => terminal'[d] = "completed"
  BY <1>0 DEF DependentsInv, OnceOnly, Producers
<1>3. Queued' \subseteq Queued \cup {i} /\ Queued' \cup running' \subseteq Queued \cup running
  BY <1>0 DEF Queued
<1>4. DependentsWait'
  <2>1. \A j \in Queued \cup running : j \in Items
    BY <1>0 DEF Queued, RunTypes
  <2>2. \A j \in Queued \cup running : \A d \in workflow.dependsOn[j] : d \in Producers /\ terminal[d] = "completed"
    BY <1>0, <2>1, FlatDependencies DEF DependentsInv, DependentsWait
  <2> QED
    BY <1>2, <1>3, <2>2 DEF DependentsWait
<1>5. ASSUME NEW d \in Producers PROVE OnceOnly(d)'
  <2>1. CASE d = i
    BY <2>1
  <2>2. CASE d # i
    <3>1. d \in Items
      BY DEF Producers
    <3>2. /\ (d \in Queued' => d \in Queued) /\ (d \in running' => d \in running) /\ terminal'[d] = terminal[d]
          /\ \A r \in reported' : r.item = d => r \in reported
      BY <1>0, <2>2, <3>1 DEF Queued
    <3> QED
      BY <3>2 DEF DependentsInv, OnceOnly
  <2> QED
    BY <2>1, <2>2
<1>6. ASSUME NEW h \in Handlers PROVE InTurn(h)'
  <2>1. CASE handler'[h] = handler[h]
    <3>1. ~(handler[h].pc = "queue" /\ handler[h].kind = "submit")
      BY <1>1 DEF DependentsInv, InTurn
    <3>2. handler[h].todo \subseteq Items
      BY <1>0 DEF RunTypes, Requests, Items
    <3>3. \A j \in Items : workflow.dependsOn[j] \subseteq Producers
      BY <1>0, FlatDependencies
    <3>4. InTurn(h)
      BY DEF DependentsInv
    <3>5. handler[h].pc = "enqueue" =>
              \A j \in handler[h].todo :
                  workflow.dependsOn[j] # {} /\ \A d \in workflow.dependsOn[j] : terminal'[d] = "completed"
      BY <1>2, <3>2, <3>3, <3>4 DEF InTurn
    <3> QED
      BY SMT, <2>1, <3>1, <3>4, <3>5 DEF InTurn
  <2>2. CASE handler'[h] # handler[h]
    BY <2>2 DEF InTurn
  <2> QED
    BY <2>1, <2>2
<1> QED
  BY <1>0, <1>1, <1>4, <1>5, <1>6 DEF DependentsInv

(* Steps that touch neither queue nor work.                                *)
LEMMA QueueKeptWaiting ==
    ASSUME DependentsInv, RunTypes', UNCHANGED <<workflow, queuedAt, workVars>>,
           planned' \/ UNCHANGED planned,
           ~planned' => \A h \in Handlers : handler'[h].pc = "idle",
           \A h \in Handlers : InTurn(h)'
    PROVE  DependentsInv'
<1>1. Items' = Items /\ Queued' = Queued /\ Producers' = Producers
  BY DEF Items, Queued, Producers, workVars
<1>2. Fresh' = Fresh /\ DependentsWait' = DependentsWait
  BY <1>1 DEF Fresh, DependentsWait, workVars
<1>3. \A d \in Producers : OnceOnly(d)'
  BY <1>1 DEF DependentsInv, OnceOnly, workVars
<1> QED
  BY <1>1, <1>2, <1>3 DEF DependentsInv

(* While one request takes a step, the others stand where they were; the   *)
(* submission stores the first stage while no other request is there.      *)
LEMMA OthersInTurn ==
    ASSUME DependentsInv, NEW h \in Handlers, handler[h].pc # "idle" \/ ~Fresh,
           UNCHANGED <<workflow, terminal>>,
           \A g \in Handlers \ {h} : handler'[g] = handler[g]
    PROVE  \A g \in Handlers \ {h} : InTurn(g)'
<1> SUFFICES ASSUME NEW g \in Handlers \ {h} PROVE InTurn(g)'
  OBVIOUS
<1>1. ~(handler[g].pc = "queue" /\ handler[g].kind = "submit")
  BY DEF DependentsInv, InTurn
<1> QED
  BY <1>1 DEF DependentsInv, InTurn

(* A dependent that is released, or an item of a later stage, is no        *)
(* producer, and all it depends on is done.                                *)
LEMMA EnqueueKeepsWaiting ==
    ASSUME FlatFirstStage(workflow), DependentsInv, RunTypes', planned, NEW h \in Handlers, handler[h].pc # "idle",
           UNCHANGED <<workflow, planned, workVars>>,
           NEW S \in SUBSET Items, Enqueue(S, handler[h].at),
           S \cap Producers = {} \/ Fresh,
           \A j \in S : \A d \in workflow.dependsOn[j] : terminal[d] = "completed",
           \A g \in Handlers \ {h} : handler'[g] = handler[g], InTurn(h)'
    PROVE  DependentsInv'
<1>0. UNCHANGED <<running, terminal, reported>>
  BY DEF workVars
<1>1. Items' = Items /\ Producers' = Producers /\ Queued' \subseteq Queued \cup S
  BY DEF Items, Queued, Producers, Enqueue
<1>2. DependentsWait'
  BY <1>0, <1>1 DEF DependentsInv, DependentsWait
<1>3. \A d \in Producers : OnceOnly(d)'
  <2>1. CASE S \cap Producers = {}
    BY <1>0, <1>1, <2>1 DEF DependentsInv, OnceOnly
  <2>2. CASE Fresh
    BY <1>0, <1>1, <2>2 DEF Fresh, OnceOnly, Producers
  <2> QED
    BY <2>1, <2>2
<1>4. \A g \in Handlers : InTurn(g)'
  BY <1>0, OthersInTurn
<1> QED
  BY <1>0, <1>1, <1>2, <1>3, <1>4 DEF DependentsInv

(* The steps of a request.                                                 *)
LEMMA RequestsKeepWaiting ==
    ASSUME FlatFirstStage(workflow), DependentsInv, RunTypes', NEW h \in Handlers, HandlerStep(h)
    PROVE  DependentsInv'
<1> USE DEF clockVars, storeVars, workVars, planVars, boundVars
<1>0. RunTypes /\ handler[h] \in Requests(workflow)
  BY DEF DependentsInv, RunTypes
<1>1. UNCHANGED <<workflow, planned, workVars>>
  BY RequestKeeps
<1>2. PICK r \in Requests(workflow) :
          /\ handler' = [handler EXCEPT ![h] = r]
          /\ \/ r = Idle
             \/ r.kind = handler[h].kind /\ r.stage = handler[h].stage /\ r.item = handler[h].item
                /\ r.at = handler[h].at
             \/ /\ r.kind = "activate" /\ r.stage = handler[h].stage + 1 /\ r.pc \in {"empty", "fail_stage"}
                /\ r.item = handler[h].item /\ r.at = handler[h].at
  BY <1>0, RequestMoves
<1>3. handler'[h] = r /\ \A g \in Handlers \ {h} : handler'[g] = handler[g]
  BY <1>2, <1>0 DEF RunTypes
<1>4. handler[h].pc # "idle" /\ planned
  BY DEF HandlerStep, CaptureOutput, upsertWorkflowStepOutputFact, SaveFailedPlan, RecordWorkItemTerminalFailure,
     markWorkflowStageActivationFailed, enqueueReadyAssetMaterializeDependents, EnqueueWorkItems, QueueWorkItems,
     RecordCompiledWorkItemMembership, MembershipsRecorded, markCompiledStageEmptyStepsCompleted,
     activateNextReadyWorkflowStage, ContinueActivation, DependentsInv
<1>5. r.kind = "activate" => r.stage >= 1
  <2>1. handler[h].stage \in Nat /\ (handler[h].kind = "activate" => handler[h].stage >= 1)
    BY <1>0 DEF Requests, DependentsInv, InTurn
  <2> QED
    BY SMT, <1>2, <2>1 DEF Idle
<1>6. ASSUME r.pc \notin {"queue", "enqueue"} PROVE InTurn(h)'
  BY <1>3, <1>5, <1>6 DEF InTurn
<1>7. ASSUME UNCHANGED queuedAt, InTurn(h)' PROVE DependentsInv'
  <2>1. \A g \in Handlers : InTurn(g)'
    BY <1>1, <1>3, <1>4, <1>7, OthersInTurn
  <2> QED
    BY <1>1, <1>4, <1>7, <2>1, QueueKeptWaiting
<1>8. CASE \/ CaptureOutput(h) \/ upsertWorkflowStepOutputFact(h) \/ SaveFailedPlan(h)
           \/ RecordWorkItemTerminalFailure(h) \/ markWorkflowStageActivationFailed(h) \/ MembershipsRecorded(h)
           \/ RecordCompiledWorkItemMembership(h) \/ activateNextReadyWorkflowStage(h) \/ ContinueActivation(h)
  <2>1. UNCHANGED queuedAt
    BY <1>8 DEF CaptureOutput, upsertWorkflowStepOutputFact, SaveFailedPlan, RecordWorkItemTerminalFailure,
       markWorkflowStageActivationFailed, RecordCompiledWorkItemMembership, MembershipsRecorded,
       activateNextReadyWorkflowStage, ContinueActivation
  <2>2. \/ Return(h) \/ \E pc \in Labels \ {"queue", "enqueue"} : Goto(h, pc)
        \/ handler[h].pc = "members" /\ handler' = [handler EXCEPT ![h].todo = @ \ {Min(handler[h].todo)}]
        \/ r.pc \in {"empty", "fail_stage"}
    <3>0. CASE \/ CaptureOutput(h) \/ upsertWorkflowStepOutputFact(h) \/ SaveFailedPlan(h)
      <4>1. {"record_failure", "dependents", "fact", "save"} \subseteq Labels \ {"queue", "enqueue"}
        BY SMT DEF Labels
      <4> QED
        BY <3>0, <4>1, CaptureGoes
    <3>1. CASE RecordWorkItemTerminalFailure(h) \/ markWorkflowStageActivationFailed(h)
      BY <3>1 DEF RecordWorkItemTerminalFailure, markWorkflowStageActivationFailed, Labels
    <3>2. CASE MembershipsRecorded(h) \/ RecordCompiledWorkItemMembership(h)
      BY <3>2 DEF MembershipsRecorded, AfterDependents, RecordCompiledWorkItemMembership, StageError, Labels
    <3>3. CASE activateNextReadyWorkflowStage(h) \/ ContinueActivation(h)
      <4>1. Return(h) \/ \E pc \in {"empty", "fail_stage"} :
                handler' = [handler EXCEPT ![h].pc = pc, ![h].kind = "activate", ![h].stage = handler[h].stage + 1]
        BY <3>3 DEF activateNextReadyWorkflowStage, ContinueActivation, AdvanceFrom
      <4>2. Return(h) \/ handler'[h].pc \in {"empty", "fail_stage"}
        BY SMT, <1>0, <4>1 DEF RunTypes, Requests
      <4> QED
        BY <1>3, <4>2
    <3> QED
      BY <1>8, <3>0, <3>1, <3>2, <3>3
  <2>3. r.pc \notin {"queue", "enqueue"}
    BY SMT, <1>0, <1>3, <2>2 DEF Goto, Return, Idle, RunTypes, Requests
  <2> QED
    BY <1>6, <1>7, <2>1, <2>3
<1>9. CASE markCompiledStageEmptyStepsCompleted(h)
  <2>1. UNCHANGED queuedAt
    BY <1>9 DEF markCompiledStageEmptyStepsCompleted
  <2>2. \/ Return(h) \/ \E pc \in {"activate", "advance"} : Goto(h, pc)
        \/ Goto(h, "queue") /\ handler[h].kind = "activate"
    BY <1>9 DEF markCompiledStageEmptyStepsCompleted
  <2>3. r.pc # "enqueue" /\ (r.pc = "queue" => r.kind = "activate")
    BY SMT, <1>0, <1>3, <2>2 DEF Goto, Return, Idle, RunTypes, Requests
  <2>4. InTurn(h)'
    BY <1>3, <1>5, <2>3 DEF InTurn
  <2> QED
    BY <1>7, <2>1, <2>4
<1>10. CASE enqueueReadyAssetMaterializeDependents(h)
  <2> DEFINE ready == ReadyDependents(handler[h].item)
  <2>1. UNCHANGED queuedAt
    BY <1>10 DEF enqueueReadyAssetMaterializeDependents
  <2>2. \/ Return(h) \/ Goto(h, "activate")
        \/ handler' = [handler EXCEPT ![h].pc = "enqueue", ![h].todo = ready]
    BY <1>10 DEF enqueueReadyAssetMaterializeDependents, AfterDependents
  <2>3. r.pc # "queue" /\ (r.pc = "enqueue" => r.todo = ready)
    BY SMT, <1>0, <1>3, <2>2 DEF Goto, Return, Idle, RunTypes, Requests
  <2>4. \A j \in ready : workflow.dependsOn[j] # {} /\ \A d \in workflow.dependsOn[j] : terminal[d] = "completed"
    <3> SUFFICES ASSUME NEW j \in ready, NEW d \in workflow.dependsOn[j] PROVE terminal[d] = "completed"
      BY DEF ReadyDependents
    <3>1. j \in Items /\ d \in Completed
      BY DEF ReadyDependents, Stored
    <3>2. d \in Producers
      BY <1>0, <3>1, FlatDependencies
    <3> QED
      BY <3>1, <3>2 DEF Completed, DependentsInv, OnceOnly
  <2>5. InTurn(h)'
    <3> HIDE DEF ready
    <3> QED
      BY <1>1, <1>3, <1>5, <2>3, <2>4 DEF InTurn
  <2> QED
    BY <1>7, <2>1, <2>5
<1>11. CASE EnqueueWorkItems(h)
  <2>1. handler[h].pc = "enqueue" /\ (Return(h) \/ Goto(h, "members"))
    BY <1>11 DEF EnqueueWorkItems
  <2>2. r.pc \notin {"queue", "enqueue"}
    BY SMT, <1>0, <1>3, <2>1 DEF Goto, Return, Idle, RunTypes, Requests
  <2>3. InTurn(h)'
    BY <1>6, <2>2
  <2>4. CASE UNCHANGED queuedAt
    BY <1>7, <2>3, <2>4
  <2>5. CASE Enqueue(handler[h].todo, handler[h].at)
    <3>1. handler[h].todo \in SUBSET Items
      BY <1>0 DEF Requests, Items
    <3>2. \A j \in handler[h].todo :
              workflow.dependsOn[j] # {} /\ \A d \in workflow.dependsOn[j] : terminal[d] = "completed"
      BY <2>1 DEF DependentsInv, InTurn
    <3>3. handler[h].todo \cap Producers = {}
      BY <1>0, <3>1, <3>2, FlatDependencies
    <3> HIDE DEF clockVars, storeVars, workVars, planVars, boundVars
    <3> QED
      BY <1>1, <1>3, <1>4, <2>3, <2>5, <3>1, <3>2, <3>3, EnqueueKeepsWaiting
  <2> QED
    BY <1>11, <2>4, <2>5 DEF EnqueueWorkItems
<1>12. CASE QueueWorkItems(h)
  <2> DEFINE n == handler[h].stage
             S == ReadyAtOnce(n)
  <2>1. handler[h].pc = "queue" /\ (\/ Return(h) \/ Goto(h, "fail_stage")
                                   \/ \E todo \in SUBSET Items :
                                          handler' = [handler EXCEPT ![h].pc = "members", ![h].todo = todo])
    BY <1>12 DEF QueueWorkItems, StageError, ReadyAtOnce, StageItems, Items
  <2>2. r.pc \notin {"queue", "enqueue"}
    BY SMT, <1>0, <1>3, <2>1 DEF Goto, Return, Idle, RunTypes, Requests
  <2>3. InTurn(h)'
    BY <1>6, <2>2
  <2>4. CASE UNCHANGED queuedAt
    BY <1>7, <2>3, <2>4
  <2>5. CASE Enqueue(S, handler[h].at)
    <3>1. S \in SUBSET Items /\ \A j \in S : StageOfItem(workflow, j) = n
      BY DEF ReadyAtOnce, StageItems, Items
    <3>2. \A j \in S : workflow.dependsOn[j] = {}
      <4> SUFFICES ASSUME NEW j \in S, NEW d \in workflow.dependsOn[j] PROVE FALSE
        OBVIOUS
      <4>1. d \in WorkItems(workflow) /\ StageOfItem(workflow, d) = 0 /\ n = 0
        BY <3>1 DEF FlatFirstStage, Items
      <4> QED
        BY <4>1 DEF ReadyAtOnce, StageItems
    <3>3. S \cap Producers = {} \/ Fresh
      <4>1. CASE handler[h].kind = "submit"
        BY <2>1, <4>1 DEF DependentsInv, InTurn
      <4>2. CASE handler[h].kind = "activate"
        <5>1. n >= 1 /\ n \in Nat
          BY <1>0, <4>2 DEF DependentsInv, InTurn, Requests
        <5> QED
          <6>1. ASSUME NEW j \in S, j \in Producers PROVE FALSE
            <7>1. StageOfItem(workflow, j) = 0 /\ StageOfItem(workflow, j) = n
              BY <1>0, <3>1, <6>1, FlatDependencies
            <7> QED
              BY ONLY <5>1, <7>1
          <6> QED
            BY <6>1
      <4> QED
        BY <2>1, <4>1, <4>2 DEF DependentsInv, InTurn
    <3> HIDE DEF clockVars, storeVars, workVars, planVars, boundVars, S
    <3> QED
      BY <1>1, <1>3, <1>4, <2>3, <2>5, <3>1, <3>2, <3>3, EnqueueKeepsWaiting
  <2> QED
    BY <1>12, <2>4, <2>5 DEF QueueWorkItems
<1> QED
  BY <1>8, <1>9, <1>10, <1>11, <1>12 DEF HandlerStep

(* Every step keeps the invariant.                                         *)
LEMMA NextWaiting ==
    ASSUME FlatFirstStage(workflow), DependentsInv, [Next]_vars
    PROVE  DependentsInv'
<1> USE DEF clockVars, storeVars, workVars, planVars, boundVars
<1>0. RunTypes /\ RunTypes'
  BY NextTypes DEF DependentsInv
<1>1. CASE Tick \/ Crash \/ UNCHANGED vars
  <2>1. /\ UNCHANGED <<workflow, queuedAt, workVars, planned>>
        /\ handler' = handler \/ handler' = [h \in Handlers |-> Idle]
    BY <1>1 DEF Tick, Crash, RequestsLost, vars
  <2>2. Fresh' = Fresh
    BY <2>1 DEF Fresh, Queued, Items
  <2>3. \A h \in Handlers : InTurn(h)'
    <3>1. CASE handler' = handler
      BY <2>1, <2>2, <3>1 DEF DependentsInv, InTurn
    <3>2. CASE handler' = [h \in Handlers |-> Idle]
      <4>1. \A h \in Handlers : handler'[h].kind = "none" /\ handler'[h].pc = "idle"
        BY <3>2 DEF Idle
      <4> QED
        BY <4>1 DEF InTurn
    <3> QED
      BY <2>1, <3>1, <3>2
  <2>4. ~planned' => \A h \in Handlers : handler'[h].pc = "idle"
    BY SMT, <2>1 DEF DependentsInv, Idle
  <2> QED
    BY <1>0, <2>1, <2>3, <2>4, QueueKeptWaiting
<1>2. ASSUME NEW i \in Items, ClaimNextWork(i) PROVE DependentsInv'
  <2>1. i \in Queued /\ i \notin running /\ running' = running \cup {i} /\ queuedAt' = [queuedAt EXCEPT ![i] = Never]
        /\ UNCHANGED <<workflow, planned, terminal, reported, handler>>
    BY <1>2 DEF ClaimNextWork
  <2>2. i \notin Queued'
    BY <1>0, <2>1 DEF Queued, RunTypes, Items
  <2>3. i \in Producers => OnceOnly(i)'
    BY <2>1, <2>2 DEF DependentsInv, OnceOnly
  <2>4. \A j \in Items \ {i} : queuedAt'[j] = queuedAt[j]
    BY <1>0, <2>1 DEF RunTypes
  <2> HIDE DEF clockVars, storeVars, workVars, planVars, boundVars
  <2> QED
    BY <1>0, <2>1, <2>3, <2>4, WorkKeepsWaiting
<1>3. ASSUME NEW i \in Items, RecoverWork(i) PROVE DependentsInv'
  <2>1. i \in running /\ running' = running \ {i} /\ UNCHANGED <<workflow, planned, reported, handler>>
    BY <1>3 DEF RecoverWork
  <2>2. \A j \in Items \ {i} : queuedAt'[j] = queuedAt[j] /\ terminal'[j] = terminal[j]
    BY <1>0, <1>3 DEF RecoverWork, RunTypes
  <2>3. terminal'[i] = terminal[i] \/ queuedAt'[i] = queuedAt[i]
    BY <1>3 DEF RecoverWork
  <2>4. ASSUME i \in Producers PROVE OnceOnly(i)'
    <3>1. terminal[i] = "none" /\ i \notin Queued /\ \A r \in reported : r.item # i
      <4>1. terminal[i] = "none" /\ i \notin Queued /\ \A r \in reported : r.item = i => terminal[i] = r.outcome
        BY <2>1, <2>4 DEF DependentsInv, OnceOnly
      <4>2. \A r \in reported : r.outcome # "none"
        BY SMT, <1>0 DEF RunTypes
      <4> QED
        BY <4>1, <4>2
    <3>2. i \in Queued' => terminal'[i] = terminal[i]
      BY <1>0, <2>3, <3>1 DEF Queued, Items
    <3> QED
      BY <2>1, <3>1, <3>2 DEF OnceOnly
  <2> HIDE DEF clockVars, storeVars, workVars, planVars, boundVars
  <2> QED
    BY <1>0, <2>1, <2>2, <2>4, WorkKeepsWaiting
<1>4. ASSUME NEW h \in Handlers, NEW i \in Items, Report(h, i) PROVE DependentsInv'
  <2>1. i \in running /\ running' = running \ {i} /\ UNCHANGED <<workflow, planned, queuedAt>>
    BY <1>4 DEF Report, completePersistedWorkHandler, failPersistedWorkHandler, SettleAttempt
  <2>2. \A j \in Items \ {i} : queuedAt'[j] = queuedAt[j] /\ terminal'[j] = terminal[j]
    <3>1. \E o : terminal' = [terminal EXCEPT ![i] = o]
      BY <1>4 DEF Report, completePersistedWorkHandler, failPersistedWorkHandler, SettleAttempt
    <3> QED
      BY <1>0, <2>1, <3>1 DEF RunTypes
  <2>3. ASSUME i \in Producers PROVE OnceOnly(i)'
    <3>1. terminal[i] = "none" /\ i \notin Queued /\ \A r \in reported : r.item # i
      <4>1. terminal[i] = "none" /\ i \notin Queued /\ \A r \in reported : r.item = i => terminal[i] = r.outcome
        BY <2>1, <2>3 DEF DependentsInv, OnceOnly
      <4>2. \A r \in reported : r.outcome # "none"
        BY SMT, <1>0 DEF RunTypes
      <4> QED
        BY <4>1, <4>2
    <3>2. PICK o \in {"completed", "failed"} : SettleAttempt(i, o)
      BY <1>4 DEF Report, completePersistedWorkHandler, failPersistedWorkHandler
    <3>3. \A r \in reported' : r.item = i => r.outcome = o
      <4>1. \A r \in reported' : r \in reported \/ r = [item |-> i, outcome |-> o, at |-> now]
        BY <3>2 DEF SettleAttempt
      <4>2. [item |-> i, outcome |-> o, at |-> now].outcome = o
        OBVIOUS
      <4> QED
        BY <3>1, <4>1, <4>2
    <3>4. terminal'[i] = o
      <4>1. PICK p \in {o, terminal[i]} \ {"none"} : terminal' = [terminal EXCEPT ![i] = p]
        BY <3>2 DEF SettleAttempt
      <4> QED
        BY <1>0, <3>1, <4>1 DEF RunTypes
    <3>5. i \notin Queued' /\ i \notin running'
      BY <2>1, <3>1 DEF Queued, Items
    <3> QED
      BY <3>3, <3>4, <3>5 DEF OnceOnly
  <2>4. \A g \in Handlers : \/ handler'[g] = handler[g]
                            \/ /\ handler'[g].kind \notin {"submit", "activate"}
                               /\ handler'[g].pc \notin {"queue", "enqueue"}
    <3>1. PICK kind \in {"complete", "fail"}, pc \in {"dependents", "capture", "fail_stage", "record_failure"} :
              Serve(h, kind, i, now, pc)
      BY <1>4 DEF Report, completePersistedWorkHandler, failPersistedWorkHandler, AfterCompletion, AfterFailure
    <3>2. /\ handler'[h].kind = kind /\ handler'[h].pc = pc
          /\ \A g \in Handlers \ {h} : handler'[g] = handler[g]
      BY <1>0, <3>1, ServeStands
    <3>3. /\ kind \notin {"submit", "activate"} /\ kind # "submit"
          /\ pc \notin {"queue", "enqueue"} /\ pc \notin {"empty", "queue"}
      BY SMT, <3>1
    <3> QED
      BY <3>1, <3>2, <3>3
  <2>5. \A r \in reported' : r \in reported \/ r.item = i
    <3>1. PICK o : SettleAttempt(i, o)
      BY <1>4 DEF Report, completePersistedWorkHandler, failPersistedWorkHandler
    <3>2. \A r \in reported' : r \in reported \/ r = [item |-> i, outcome |-> o, at |-> now]
      BY <3>1 DEF SettleAttempt
    <3>3. [item |-> i, outcome |-> o, at |-> now].item = i
      OBVIOUS
    <3> QED
      BY <3>2, <3>3
  <2> HIDE DEF clockVars, storeVars, workVars, planVars, boundVars
  <2> QED
    BY <1>0, <2>1, <2>2, <2>3, <2>4, <2>5, WorkKeepsWaiting
<1>5. ASSUME NEW h \in Handlers, NEW i \in Items, Replay(h, i) PROVE DependentsInv'
  <2>1. UNCHANGED <<workflow, queuedAt, workVars, planned>> /\ reported # {}
    BY <1>0, <1>5, ReplayServes
  <2>2. handler'[h].kind \in {"complete", "fail"} /\ handler'[h].pc \notin {"queue", "enqueue"}
        /\ \A g \in Handlers \ {h} : handler'[g] = handler[g]
    <3>1. PICK kind \in {"complete", "fail"}, pc \in {"dependents", "capture", "fail_stage", "record_failure"} :
              \E at : Serve(h, kind, i, at, pc)
      BY <1>0, <1>5, ReplayServes DEF AfterCompletion, AfterFailure
    <3>2. /\ handler'[h].kind = kind /\ handler'[h].pc = pc
          /\ \A g \in Handlers \ {h} : handler'[g] = handler[g]
      BY <1>0, <3>1, ServeStands
    <3>3. /\ kind \notin {"submit", "activate"} /\ kind # "submit"
          /\ pc \notin {"queue", "enqueue"} /\ pc \notin {"empty", "queue"}
      BY SMT, <3>1
    <3> QED
      BY <3>1, <3>2, <3>3
  <2>3. ~Fresh /\ planned
    BY <2>1 DEF Fresh, DependentsInv
  <2>4. InTurn(h)'
    BY <2>2 DEF InTurn
  <2>5. \A g \in Handlers : InTurn(g)'
    BY <2>1, <2>2, <2>3, <2>4, OthersInTurn
  <2> QED
    BY <1>0, <2>1, <2>3, <2>5, QueueKeptWaiting
<1>6. ASSUME NEW h \in Handlers, submitAdmittedWorkflow(h) PROVE DependentsInv'
  <2>1. ~planned /\ planned' /\ UNCHANGED <<workflow, queuedAt, workVars>>
    BY <1>6 DEF submitAdmittedWorkflow
  <2>2. handler'[h].kind = "submit" /\ handler'[h].pc # "enqueue"
        /\ \A g \in Handlers \ {h} : handler'[g] = handler[g]
    BY <1>0, <1>6 DEF submitAdmittedWorkflow, RunTypes, Idle
  <2>3. Fresh' /\ \A g \in Handlers : handler[g].pc = "idle"
    BY <2>1 DEF DependentsInv, Fresh, Queued, Items
  <2>4. InTurn(h)'
    BY <2>1, <2>2, <2>3 DEF InTurn
  <2>5. ASSUME NEW g \in Handlers \ {h} PROVE InTurn(g)'
    BY <2>2, <2>3 DEF DependentsInv, InTurn
  <2> QED
    BY <1>0, <2>1, <2>4, <2>5, QueueKeptWaiting
<1> QED
  BY <1>0, <1>1, <1>2, <1>3, <1>4, <1>5, <1>6, RequestsKeepWaiting, ReplayOfItem DEF Next, Progress

(* However handlers overlap, crash or are repeated, an item of a workflow  *)
(* whose dependencies are inside the first stage and one deep is offered   *)
(* only when all it depends on has completed.                              *)
THEOREM RunDependentsWait ==
    ASSUME \A w \in Workflows : FlatFirstStage(w)
    PROVE  Spec => []DependentsWait
<1>1. Init => DependentsInv
  <2> SUFFICES ASSUME Init PROVE DependentsInv
    OBVIOUS
  <2>1. RunTypes /\ Fresh /\ ~planned /\ running = {} /\ Queued = {}
    BY InitTypes DEF Init, Fresh, Queued
  <2>2. \A h \in Handlers : handler[h] = Idle
    BY DEF Init
  <2>3. \A h \in Handlers : InTurn(h)
    <3>1. \A h \in Handlers : handler[h].kind = "none" /\ handler[h].pc = "idle"
      BY SMT, <2>2 DEF Idle
    <3> QED
      BY <3>1 DEF InTurn
  <2> QED
    <3>1. \A h \in Handlers : handler[h].pc = "idle"
      BY SMT, <2>2 DEF Idle
    <3>2. DependentsWait /\ \A d \in Producers : OnceOnly(d)
      BY <2>1 DEF DependentsWait, OnceOnly, Fresh
    <3> QED
      BY <2>1, <2>3, <3>1, <3>2 DEF DependentsInv
<1>2. DependentsInv /\ [Next]_vars => DependentsInv'
  <2>1. DependentsInv => FlatFirstStage(workflow)
    BY DEF DependentsInv, RunTypes
  <2> QED
    BY <2>1, NextWaiting
<1>3. DependentsInv => DependentsWait
  BY DEF DependentsInv
<1> QED
  BY <1>1, <1>2, <1>3, PTL DEF Spec
-----------------------------------------------------------------------------
(* The least of some numbers is one of them.                               *)
LEMMA LessIsWellFounded == IsWellFoundedOn({ss \in Nat \X Nat : ss[1] < ss[2]}, Nat)
BY SMT, NatLessThanWellFounded DEF OpToRel

(* Min, which picks the least member of a set, picks a member.             *)
LEMMA MinIsMember ==
    ASSUME NEW S \in SUBSET Nat, S # {}
    PROVE  Min(S) \in S
<1> DEFINE R == {ss \in Nat \X Nat : ss[1] < ss[2]}
<1>1. \E x \in S : \A y \in S : ~(<<y, x>> \in R)
  <2>1. IsWellFoundedOn(R, Nat)
    BY SMT, LessIsWellFounded
  <2> HIDE DEF R
  <2> QED
    BY <2>1, WFMin
<1>2. PICK x \in S : \A y \in S : ~(<<y, x>> \in R)
  BY SMT, <1>1
<1>3. ASSUME NEW y \in S PROVE x <= y
  <2>1. x \in Nat /\ y \in Nat /\ ~(<<y, x>> \in R)
    BY SMT, <1>2
  <2>2. y < x => <<y, x>> \in R
    BY SMT, <2>1
  <2> HIDE DEF R
  <2> QED
    BY SMT, <2>1, <2>2
<1> QED
  BY <1>2, <1>3 DEF Min
-----------------------------------------------------------------------------
(* What the stored plan says.  NoPlan is no plan.                          *)
NoPlanIsNone == \A x, y : NoPlan # [step |-> x, member |-> y]

Touched(i) == i \in Queued \cup running \/ terminal[i] # "none"

(* While no failed plan is saved, a membership has the state its rows give *)
(* it; and in any case it reads as completed only when the item is.        *)
LEMMA MembershipState ==
    ASSUME RunTypes, members \subseteq Items, NEW i \in members
    PROVE  /\ saved = NoPlan =>
                  Plan.member[i] = IF terminal[i] # "none" THEN terminal[i]
                                   ELSE IF i \in running THEN "running" ELSE "queued"
           /\ Touched(i) /\ Plan.member[i] = "completed" => terminal[i] = "completed"
<1> DEFINE f == [members |-> members, terminal |-> terminal, running |-> running,
                 queued |-> Queued, facts |-> facts, saved |-> saved]
<1>1. f.members = members /\ f.terminal = terminal /\ f.running = running /\ f.queued = Queued /\ f.saved = saved
  OBVIOUS
<1>2. Plan.member[i] = deriveDependencyMembership(i, f)
  BY <1>1 DEF Plan, DerivePlan
<1>3. saved = NoPlan => deriveDependencyMembership(i, f) = membershipFromRowsOnly(i, f)
  BY <1>1 DEF deriveDependencyMembership
<1>4. membershipFromRowsOnly(i, f) = IF terminal[i] # "none" THEN terminal[i]
                                     ELSE IF i \in running THEN "running" ELSE "queued"
  BY <1>1 DEF membershipFromRowsOnly
<1>5. ASSUME Touched(i), Plan.member[i] = "completed" PROVE terminal[i] = "completed"
  <2>1. membershipFromRowsOnly(i, f) = "completed"
    <3> HIDE DEF f
    <3> QED
      BY SMT, <1>1, <1>2, <1>5 DEF deriveDependencyMembership, Touched
  <2> QED
    BY SMT, <1>4, <2>1
<1> QED
  BY <1>2, <1>3, <1>4, <1>5

(* While no failed plan is saved, a step has the state its memberships and *)
(* its output give it.                                                     *)
LEMMA StepState ==
    ASSUME RunTypes, members \subseteq Items, saved = NoPlan, NEW s \in Steps(workflow)
    PROVE  /\ Plan.step[s] = "completed" =>
                  s \in facts \/ (MembersOf(s) # {} /\ \A i \in MembersOf(s) : terminal[i] = "completed")
           /\ Plan.step[s] = "failed" <=> \E i \in MembersOf(s) : terminal[i] = "failed"
           /\ s \in facts /\ Plan.step[s] # "failed" => Plan.step[s] = "completed"
           /\ MembersOf(s) # {} => Plan.step[s] # "blocked"
           /\ Plan.step[s] \in StepStates
<1> DEFINE f == [members |-> members, terminal |-> terminal, running |-> running,
                 queued |-> Queued, facts |-> facts, saved |-> saved]
           states == {Plan.member[i] : i \in MembersOf(s)}
<1>1. f.members = members /\ f.facts = facts /\ f.saved = saved
  OBVIOUS
<1>2. Plan.step[s] = deriveDependencyStepState(states, s \in facts)
  <2>1. ~SavedStepWins(s, states, f)
    BY <1>1 DEF SavedStepWins
  <2> QED
    BY <1>1, <2>1 DEF Plan, DerivePlan, MembersOf
<1>3. ASSUME NEW i \in MembersOf(s)
      PROVE  /\ Plan.member[i] = "completed" <=> terminal[i] = "completed"
             /\ Plan.member[i] = "failed" <=> terminal[i] = "failed"
             /\ Plan.member[i] \in {"completed", "failed", "running", "queued"}
  <2>1. i \in members /\ i \in Items /\ terminal[i] \in {"none", "completed", "failed"}
    BY DEF MembersOf, RunTypes
  <2>2. Plan.member[i] = IF terminal[i] # "none" THEN terminal[i]
                         ELSE IF i \in running THEN "running" ELSE "queued"
    BY <2>1, MembershipState
  <2> QED
    BY ONLY <2>1, <2>2
<1> HIDE DEF f
<1>4. "failed" \in states <=> \E i \in MembersOf(s) : terminal[i] = "failed"
  BY <1>3
<1>5. states = {"completed"} => MembersOf(s) # {} /\ \A i \in MembersOf(s) : terminal[i] = "completed"
  BY <1>3
<1>6. MembersOf(s) # {} => \E x \in states : x \in {"completed", "failed", "running", "queued"}
  BY <1>3
<1> HIDE DEF states
<1>7. /\ deriveDependencyStepState(states, s \in facts) = "completed" => s \in facts \/ states = {"completed"}
      /\ deriveDependencyStepState(states, s \in facts) = "failed" <=> "failed" \in states
      /\ s \in facts /\ "failed" \notin states => deriveDependencyStepState(states, s \in facts) = "completed"
      /\ (\E x \in states : x \in {"completed", "failed", "running", "queued"}) =>
             deriveDependencyStepState(states, s \in facts) # "blocked"
      /\ deriveDependencyStepState(states, s \in facts) \in StepStates
  BY SMT DEF deriveDependencyStepState, StepStates
<1> QED
  BY <1>2, <1>4, <1>5, <1>6, <1>7

(* A stage is completed or blocked when all its steps are.                 *)
LEMMA StageStates ==
    ASSUME NEW n
    PROVE  /\ StageState(n) = "completed" => \A s \in StepsOf(workflow, n) : Plan.step[s] = "completed"
           /\ (\E s \in StepsOf(workflow, n) : Plan.step[s] = "failed") <=> StageState(n) = "failed"
           /\ StageState(n) = "blocked" =>
                  \A s \in StepsOf(workflow, n) : Plan.step[s] \in StepStates => Plan.step[s] = "blocked"
<1> DEFINE states == {Plan.step[s] : s \in StepsOf(workflow, n)}
<1>1. \A s \in StepsOf(workflow, n) : Plan.step[s] \in states
  OBVIOUS
<1>2. \A x \in states : \E s \in StepsOf(workflow, n) : Plan.step[s] = x
  OBVIOUS
<1>3. StageState(n) = IF "failed" \in states THEN "failed"
                      ELSE IF states = {"completed"} THEN "completed"
                      ELSE IF states \cap {"active", "completed"} # {} THEN "active"
                      ELSE IF "ready" \in states \/ n = 0 THEN "ready"
                      ELSE "blocked"
  BY DEF StageState, deriveDependencyStageState
<1> HIDE DEF states
<1>4. StageState(n) = "completed" => states = {"completed"}
  BY ONLY <1>3
<1>5. "failed" \in states <=> StageState(n) = "failed"
  BY ONLY <1>3
<1>6. StageState(n) = "blocked" => \A x \in states : x \in StepStates => x = "blocked"
  BY ONLY <1>3 DEF StepStates
<1> QED
  BY <1>1, <1>2, <1>4, <1>5, <1>6

(* A run is failed when a step is or a failed plan is saved, and completed *)
(* when all its steps are.                                                 *)
LEMMA RunStates ==
    ASSUME RunTypes
    PROVE  /\ PlanState = "failed" =>
                  planned /\ (saved # NoPlan \/ \E s \in Steps(workflow) : Plan.step[s] = "failed")
           /\ planned /\ saved # NoPlan => PlanState = "failed"
           /\ planned /\ (\E s \in Steps(workflow) : Plan.step[s] = "failed") => PlanState = "failed"
           /\ PlanState = "completed" => saved = NoPlan /\ \A s \in Steps(workflow) : Plan.step[s] = "completed"
           /\ PlanState \notin {"failed", "none"} => saved = NoPlan
<1> DEFINE states == {StageState(n) : n \in Stages(workflow)}
<1>1. Plan.failed <=> saved # NoPlan
  BY DEF Plan, DerivePlan
<1>2. \A s \in Steps(workflow) : workflow.stageOf[s] \in Stages(workflow) /\ s \in StepsOf(workflow, workflow.stageOf[s])
  BY DEF Stages, StepsOf
<1>3. "failed" \in states <=> \E s \in Steps(workflow) : Plan.step[s] = "failed"
  <2>1. ASSUME "failed" \in states PROVE \E s \in Steps(workflow) : Plan.step[s] = "failed"
    <3>1. PICK n \in Stages(workflow) : StageState(n) = "failed"
      BY <2>1
    <3>2. StepsOf(workflow, n) \subseteq Steps(workflow)
      BY DEF StepsOf
    <3> QED
      BY <3>1, <3>2, StageStates
  <2>2. ASSUME NEW s \in Steps(workflow), Plan.step[s] = "failed" PROVE "failed" \in states
    <3>1. StageState(workflow.stageOf[s]) = "failed"
      BY <1>2, <2>2, StageStates
    <3> QED
      BY <1>2, <3>1
  <2> QED
    BY <2>1, <2>2
<1>4. states = {"completed"} => \A s \in Steps(workflow) : Plan.step[s] = "completed"
  <2> SUFFICES ASSUME states = {"completed"}, NEW s \in Steps(workflow) PROVE Plan.step[s] = "completed"
    OBVIOUS
  <2>1. StageState(workflow.stageOf[s]) \in states
    BY <1>2
  <2> QED
    BY <1>2, <2>1, StageStates
<1>5. planned => PlanState = IF "failed" \in states \/ Plan.failed THEN "failed"
                             ELSE IF states = {"completed"} THEN "completed" ELSE "running"
  BY DEF PlanState, deriveDependencyWorkflowState, StageState
<1>6. ~planned => PlanState = "none"
  BY DEF PlanState
<1> HIDE DEF states
<1>7. /\ PlanState = "failed" => planned /\ ("failed" \in states \/ Plan.failed)
      /\ planned /\ ("failed" \in states \/ Plan.failed) => PlanState = "failed"
      /\ PlanState = "completed" => states = {"completed"} /\ ~Plan.failed
      /\ PlanState \notin {"failed", "none"} => ~Plan.failed
  BY ONLY <1>5, <1>6
<1> QED
  BY <1>1, <1>3, <1>4, <1>7
-----------------------------------------------------------------------------
(* One request at a time, and no crash.                                    *)
OneAtATime == (\A g, h \in Handlers : g = h) /\ MaxCrashes = 0

(* The items of a step wait for the same items, so they are released       *)
(* together; no stage waits for itself as a whole; no item is an           *)
(* asset.materialize item.                                                 *)
StepsTogether(w) ==
    /\ WorkItems(w) \subseteq Nat
    /\ w.materialize = {}
    /\ \A i, j \in WorkItems(w) : w.stepOf[i] = w.stepOf[j] => w.dependsOn[i] = w.dependsOn[j]
    /\ \A i \in WorkItems(w) : \E j \in WorkItems(w) :
           /\ StageOfItem(w, j) = StageOfItem(w, i)
           /\ w.dependsOn[j] \cap StageItems(w, StageOfItem(w, j)) = {}

SameStep(i, j) == workflow.stepOf[i] = workflow.stepOf[j]

SameStage(i, j) == StageOfItem(workflow, i) = StageOfItem(workflow, j)

StepDone(s) == \A i \in Items : workflow.stepOf[i] = s => terminal[i] = "completed"

Cause == errors > 0 \/ \E i \in Items : terminal[i] = "failed"

(* The row of i is still to be written, by a request that has queued it.   *)
Recording(i) == \E h \in Handlers : handler[h].pc = "members" /\ i \in handler[h].todo

Known(i) == i \in members \/ Recording(i)

SerialTypes ==
    /\ members \subseteq Items
    /\ errors \in Nat /\ crashes \in Nat /\ now \in Nat
    /\ \A h \in Handlers : handler[h].at \in Nat
    /\ \A r \in reported : r.at \in Nat /\ terminal[r.item] = r.outcome

(* Work in hand is stored, stages are stored whole, and an item is queued, *)
(* running or done, one of them at a time.                                 *)
RowsInv ==
    /\ \A i \in Items : Touched(i) => i \in Stored
    /\ \A i, j \in Items : i \in Stored /\ SameStage(i, j) => j \in Stored
    /\ \A i \in running : terminal[i] = "none"
    /\ QueuedOnce
    /\ ~planned => Stored = {} /\ \A h \in Handlers : handler[h].pc = "idle"

(* The work in hand has its memberships or is getting them, the items of a *)
(* step together, and a stored stage has some.                             *)
MembershipsInv ==
    /\ \A i \in Items : Known(i) <=> Touched(i)
    /\ \A i, j \in Items : SameStep(i, j) /\ Known(i) => Known(j)
    /\ \A i \in Stored : \E j \in Items : Known(j) /\ SameStage(i, j)

(* A step that has its output is done, and a step that is done has it, or  *)
(* the run has failed, or a request is about to see to it.                 *)
Capturing(i) ==
    \E h \in Handlers : /\ handler[h].pc \in {"capture", "fact", "record_failure"}
                        /\ SameStep(i, handler[h].item)

FactsInv ==
    /\ \A s \in facts : StepDone(s)
    /\ \A i \in Items : StepDone(workflow.stepOf[i]) =>
           workflow.stepOf[i] \in facts \/ saved # NoPlan \/ Capturing(i)

(* A step with nothing to show.                                            *)
Untouched(s) == s \notin facts /\ \A i \in Stored : workflow.stepOf[i] # s

(* What a request has seen to where it stands.                             *)
Stands(h) ==
    /\ handler[h].kind = "complete" =>
           /\ handler[h].item \in members
           /\ terminal[handler[h].item] = "completed"
           /\ handler[h].stage = StageOfItem(workflow, handler[h].item)
    /\ handler[h].pc \in {"capture", "fact", "save", "dependents", "enqueue"} => handler[h].kind = "complete"
    /\ handler[h].pc \in {"empty", "queue"} => handler[h].kind \in {"submit", "activate"}
    /\ handler[h].pc = "members" => handler[h].kind \in {"submit", "activate", "complete"}
    /\ handler[h].pc = "activate" => handler[h].kind \in {"submit", "complete"}
    /\ handler[h].pc = "fact" => StepDone(workflow.stepOf[handler[h].item])
    /\ handler[h].pc \in {"record_failure", "fail_stage"} => Cause
    /\ handler[h].pc = "record_failure" =>
           \/ handler[h].kind = "complete"
           \/ handler[h].item \in Items /\ terminal[handler[h].item] = "failed"
    /\ handler[h].pc \in {"fail_stage", "advance"} => handler[h].kind = "activate"
    /\ handler[h].pc = "fail_stage" =>
           saved # NoPlan \/ \E s \in StepsOf(workflow, handler[h].stage) : Untouched(s)
    /\ handler[h].pc = "enqueue" =>
           \A j \in handler[h].todo : /\ j \in Stored /\ ~Touched(j)
                                      /\ \A i \in Items : SameStep(j, i) => i \in handler[h].todo
    /\ handler[h].pc = "members" =>
           \A j \in handler[h].todo : /\ j \notin members
                                      /\ \A i \in Items : SameStep(j, i) => terminal[i] # "completed"
    /\ handler[h].pc = "queue" \/ (handler[h].pc = "empty" /\ handler[h].kind = "activate") =>
           \A i \in Stored : StageOfItem(workflow, i) < handler[h].stage
    /\ handler[h].pc = "advance" =>
           /\ \A i \in Stored : StageOfItem(workflow, i) <= handler[h].stage
           /\ Cause \/ \A s \in Steps(workflow) : workflow.stageOf[s] <= handler[h].stage => s \in facts

SerialInv ==
    /\ OutputsInv /\ SerialTypes
    /\ RowsInv /\ MembershipsInv /\ FactsInv
    /\ saved # NoPlan => Cause
    /\ \A h \in Handlers : Stands(h)

(* With one handler, only its request can be recording or capturing.       *)
LEMMA OneRequest ==
    ASSUME NEW h, Handlers = {h}
    PROVE  /\ \A i : Recording(i) <=> handler[h].pc = "members" /\ i \in handler[h].todo
           /\ \A i : Recording(i)' <=> handler'[h].pc = "members" /\ i \in handler'[h].todo
           /\ \A i : Capturing(i) <=> handler[h].pc \in {"capture", "fact", "record_failure"}
                                      /\ SameStep(i, handler[h].item)
           /\ \A i : Capturing(i)' <=> handler'[h].pc \in {"capture", "fact", "record_failure"}
                                       /\ SameStep(i, handler[h].item)'
BY DEF Recording, Capturing

(* A step that is completed by the plan is done.                           *)
LEMMA CompletedStepDone ==
    ASSUME SerialInv, saved = NoPlan, NEW s \in Steps(workflow), Plan.step[s] = "completed"
    PROVE  StepDone(s)
<1>1. RunTypes /\ members \subseteq Items
  BY DEF SerialInv, OutputsInv, SerialTypes
<1>2. CASE s \in facts
  BY <1>2 DEF SerialInv, FactsInv
<1>3. CASE MembersOf(s) # {} /\ \A i \in MembersOf(s) : terminal[i] = "completed"
  <2>1. PICK m \in MembersOf(s) : m \in members /\ m \in Items /\ workflow.stepOf[m] = s /\ terminal[m] = "completed"
    BY <1>1, <1>3 DEF MembersOf
  <2> SUFFICES ASSUME NEW j \in Items, workflow.stepOf[j] = s PROVE terminal[j] = "completed"
    BY DEF StepDone
  <2>2. Known(j)
    BY <2>1 DEF SerialInv, MembershipsInv, SameStep, Known
  <2>3. ~Recording(j)
    BY <2>1 DEF SerialInv, Stands, Recording, SameStep
  <2> QED
    BY <1>3, <2>2, <2>3 DEF Known, MembersOf
<1> QED
  BY <1>1, <1>2, <1>3, StepState

(* So a completed run has done all its work, ...                           *)
LEMMA SerialCompleted == SerialInv => CompletedMeansDone
<1> SUFFICES ASSUME SerialInv, PlanState = "completed", NEW i \in Items
             PROVE  i \in Stored /\ terminal[i] = "completed"
  BY DEF CompletedMeansDone
<1>1. RunTypes
  BY DEF SerialInv, OutputsInv
<1>2. saved = NoPlan /\ \A s \in Steps(workflow) : Plan.step[s] = "completed"
  BY <1>1, RunStates
<1>3. workflow.stepOf[i] \in Steps(workflow)
  BY <1>1, WorkflowRunAssumption DEF RunTypes, Items
<1>4. terminal[i] = "completed"
  BY <1>2, <1>3, CompletedStepDone DEF StepDone
<1> QED
  BY SMT, <1>4 DEF SerialInv, RowsInv, Touched

(* ... a later stage waits for all work of the earlier ones, ...           *)
LEMMA SerialStageOrder == SerialInv => StageOrder
<1> SUFFICES ASSUME SerialInv, NEW i \in Stored, NEW j \in Items,
                    StageOfItem(workflow, j) < StageOfItem(workflow, i)
             PROVE  terminal[j] = "completed"
  BY DEF StageOrder
<1>1. workflow.stepOf[j] \in Steps(workflow)
  BY WorkflowRunAssumption DEF SerialInv, OutputsInv, RunTypes, Items
<1>2. workflow.stepOf[j] \in facts
  BY <1>1 DEF SerialInv, OutputsInv, OutputsPrecede, StageOfItem
<1> QED
  BY <1>2 DEF SerialInv, FactsInv, StepDone

(* ... and a failed run has a cause.                                       *)
LEMMA SerialCauses == SerialInv /\ PlanState = "failed" => Cause
<1> SUFFICES ASSUME SerialInv, PlanState = "failed", saved = NoPlan PROVE Cause
  BY DEF SerialInv
<1>1. RunTypes /\ members \subseteq Items
  BY DEF SerialInv, OutputsInv, SerialTypes
<1>2. PICK s \in Steps(workflow) : Plan.step[s] = "failed"
  BY <1>1, RunStates
<1> QED
  BY <1>1, <1>2, StepState DEF MembersOf, Cause
-----------------------------------------------------------------------------
(* Work goes on while no request does: an item in hand stays in hand, and  *)
(* what is done stays done.                                                *)
LEMMA WorkStep ==
    ASSUME SerialInv, OutputsInv', SerialTypes',
           UNCHANGED <<workflow, createdAt, planned, members, facts, saved, errors, handler>>,
           \A j \in Items : /\ Touched(j)' <=> Touched(j)
                            /\ terminal'[j] = "completed" <=> terminal[j] = "completed"
                            /\ terminal[j] = "failed" => terminal'[j] = "failed",
           \A j \in running' : terminal'[j] = "none", QueuedOnce'
    PROVE  SerialInv'
<1>1. Items' = Items /\ Stored' = Stored
  BY DEF Items, Stored
<1>2. /\ \A i : Recording(i)' <=> Recording(i)
      /\ \A i : Known(i)' <=> Known(i)
      /\ \A i : Capturing(i)' <=> Capturing(i)
      /\ \A i, j : SameStep(i, j)' <=> SameStep(i, j)
      /\ \A i, j : SameStage(i, j)' <=> SameStage(i, j)
  BY DEF Recording, Known, Capturing, SameStep, SameStage
<1>3. /\ \A s : StepDone(s)' <=> StepDone(s)
      /\ Cause => Cause'
  BY <1>1 DEF StepDone, Cause
<1>4. RowsInv'
  BY <1>1, <1>2 DEF SerialInv, RowsInv
<1>5. MembershipsInv'
  BY <1>1, <1>2, <1>4 DEF SerialInv, MembershipsInv, RowsInv, Stored
<1>6. FactsInv'
  BY <1>1, <1>2, <1>3 DEF SerialInv, FactsInv
<1>7. ASSUME NEW h \in Handlers PROVE Stands(h)'
  <2>1. Stands(h) /\ handler'[h] = handler[h]
    BY DEF SerialInv
  <2>2. \A i \in Stored : i \in Items
    BY DEF Stored
  <2>3. \A i \in members : i \in Items
    BY DEF SerialInv, SerialTypes
  <2>4. handler[h].kind = "complete" =>
            /\ handler[h].item \in members /\ terminal'[handler[h].item] = "completed"
            /\ handler[h].stage = StageOfItem(workflow, handler[h].item)
    BY <2>1, <2>3 DEF Stands
  <2>5. /\ handler[h].pc = "fact" => StepDone(workflow.stepOf[handler[h].item])
        /\ handler[h].pc \in {"record_failure", "fail_stage"} => Cause
        /\ handler[h].pc = "record_failure" =>
               \/ handler[h].kind = "complete"
               \/ handler[h].item \in Items /\ terminal'[handler[h].item] = "failed"
    BY <2>1 DEF Stands
  <2>6. handler[h].pc = "enqueue" =>
            \A j \in handler[h].todo : /\ j \in Stored /\ ~Touched(j)'
                                       /\ \A i \in Items : SameStep(j, i) => i \in handler[h].todo
    BY <2>1, <2>2 DEF Stands
  <2>7. handler[h].pc = "members" =>
            \A j \in handler[h].todo : /\ j \notin members
                                       /\ \A i \in Items : SameStep(j, i) => terminal'[i] # "completed"
    <3>1. handler[h].pc = "members" =>
              \A j \in handler[h].todo : /\ j \notin members
                                         /\ \A i \in Items : SameStep(j, i) => terminal[i] # "completed"
      BY <2>1 DEF Stands
    <3> QED
      BY <3>1
  <2>8. StepDone(workflow.stepOf[handler[h].item])' <=> StepDone(workflow.stepOf[handler[h].item])
    BY <1>3, <2>1
  <2>9. handler[h].pc = "fail_stage" =>
            saved' # NoPlan \/ \E s \in StepsOf(workflow', handler'[h].stage) : Untouched(s)'
    <3>1. \A s : Untouched(s)' <=> Untouched(s)
      BY <1>1 DEF Untouched
    <3> QED
      BY <2>1, <3>1 DEF Stands
  <2>10. handler[h].pc = "queue" \/ (handler[h].pc = "empty" /\ handler[h].kind = "activate") =>
             \A i \in Stored' : StageOfItem(workflow', i) < handler'[h].stage
    BY <1>1, <2>1 DEF Stands
  <2>11. handler[h].pc = "advance" =>
             /\ \A i \in Stored' : StageOfItem(workflow', i) <= handler'[h].stage
             /\ Cause' \/ \A s \in Steps(workflow') : workflow'.stageOf[s] <= handler'[h].stage => s \in facts'
    BY <1>1, <1>3, <2>1 DEF Stands
  <2> QED
    BY <1>1, <1>2, <1>3, <2>1, <2>4, <2>5, <2>6, <2>7, <2>8, <2>9, <2>10, <2>11 DEF Stands
<1> QED
  BY <1>3, <1>4, <1>5, <1>6, <1>7 DEF SerialInv

(* A request goes on, or is taken up, and the work stands where it was.    *)
LEMMA QuietStep ==
    ASSUME SerialInv, OutputsInv', SerialTypes', NEW h, Handlers = {h},
           UNCHANGED <<workflow, createdAt, queuedAt, running, terminal>>, planned',
           \A i \in Items : Known(i)' <=> Known(i),
           facts \subseteq facts', \A s \in facts' \ facts : StepDone(s),
           saved # NoPlan => saved' # NoPlan, saved' # NoPlan => Cause',
           \A i \in Items : Capturing(i) /\ StepDone(workflow.stepOf[i]) =>
               workflow.stepOf[i] \in facts' \/ saved' # NoPlan \/ Capturing(i)',
           Stands(h)'
    PROVE  SerialInv'
<1>1. Items' = Items /\ Stored' = Stored /\ Queued' = Queued
  BY DEF Items, Stored, Queued
<1>2. /\ \A i : Touched(i)' <=> Touched(i)
      /\ \A i, j : SameStep(i, j)' <=> SameStep(i, j)
      /\ \A i, j : SameStage(i, j)' <=> SameStage(i, j)
      /\ \A s : StepDone(s)' <=> StepDone(s)
      /\ QueuedOnce' <=> QueuedOnce
  BY <1>1 DEF Touched, SameStep, SameStage, StepDone, QueuedOnce
<1>3. RowsInv'
  BY <1>1, <1>2 DEF SerialInv, RowsInv
<1>4. MembershipsInv'
  BY <1>1, <1>2 DEF SerialInv, MembershipsInv, Stored
<1>5. FactsInv'
  BY <1>1, <1>2 DEF SerialInv, FactsInv
<1> QED
  BY <1>3, <1>4, <1>5 DEF SerialInv
-----------------------------------------------------------------------------
(* Memberships are of items, and a request's time is a time of the clock.  *)
LEMMA SerialTypesKept ==
    ASSUME SerialInv, StepsTogether(workflow), [Next]_vars
    PROVE  SerialTypes'
<1> USE DEF clockVars, storeVars, workVars, planVars, boundVars
<1>0. RunTypes /\ RunTypes' /\ SerialTypes
  BY NextTypes DEF SerialInv, OutputsInv
<1>1. CASE Tick \/ UNCHANGED vars
  BY SMT, <1>0, <1>1 DEF Tick, vars, SerialTypes, Items
<1>2. CASE Crash
  BY SMT, <1>0, <1>2 DEF Crash, RequestsLost, SerialTypes, Items, Idle
<1>9. \A r \in reported : r.item \in Items /\ r.item \notin running
  <2> SUFFICES ASSUME NEW r \in reported, r.item \in running PROVE FALSE
    BY <1>0 DEF RunTypes
  <2>1. terminal[r.item] = "none" /\ terminal[r.item] = r.outcome
    BY DEF SerialInv, RowsInv, SerialTypes
  <2> QED
    BY SMT, <1>0, <2>1 DEF RunTypes
<1>3. ASSUME NEW i \in Items, ClaimNextWork(i) PROVE SerialTypes'
  BY <1>0, <1>3 DEF ClaimNextWork, SerialTypes, Items
<1>4. ASSUME NEW i \in Items, RecoverWork(i) PROVE SerialTypes'
  <2>1. UNCHANGED <<workflow, members, errors, crashes, now, reported, handler>> /\ i \in running
    BY <1>4 DEF RecoverWork
  <2>2. \A r \in reported : r.at \in Nat /\ terminal'[r.item] = r.outcome
    <3> SUFFICES ASSUME NEW r \in reported PROVE r.at \in Nat /\ terminal'[r.item] = r.outcome
      OBVIOUS
    <3>1. r.item # i /\ r.item \in Items
      BY <2>1, <1>9
    <3>2. terminal'[r.item] = terminal[r.item]
      BY <1>0, <1>4, <3>1 DEF RecoverWork, RunTypes
    <3> QED
      BY <1>0, <3>2 DEF SerialTypes
  <2> QED
    BY <1>0, <2>1, <2>2 DEF SerialTypes, Items
<1>5. ASSUME NEW h \in Handlers, NEW i \in Items, Report(h, i) \/ Replay(h, i) PROVE SerialTypes'
  <2>1. UNCHANGED <<workflow, members, errors, crashes, now>>
    BY <1>5 DEF Report, completePersistedWorkHandler, failPersistedWorkHandler, Replay, ReplayReport
  <2>2. PICK at \in Nat : \E kind, pc : Serve(h, kind, i, at, pc)
    <3>1. now \in Nat
      BY <1>0 DEF SerialTypes
    <3>2. CASE Report(h, i)
      BY <3>1, <3>2 DEF Report, completePersistedWorkHandler, failPersistedWorkHandler
    <3>3. CASE Replay(h, i)
      <4>1. PICK r \in reported :
                IF r.outcome = "completed" THEN Serve(h, "complete", i, r.at, AfterCompletion(i))
                ELSE Serve(h, "fail", i, r.at, AfterFailure(i))
        BY <1>0, <3>3, ReplayServes
      <4>2. r.at \in Nat
        BY <1>0 DEF SerialTypes
      <4> QED
        BY <4>1, <4>2
    <3> QED
      BY <1>5, <3>2, <3>3
  <2>3. \A g \in Handlers : handler'[g].at \in Nat
    <3>1. PICK kind, pc : Serve(h, kind, i, at, pc)
      BY <2>2
    <3>2. handler'[h].at = at /\ \A g \in Handlers \ {h} : handler'[g] = handler[g]
      BY <1>0, <3>1 DEF Serve, RunTypes
    <3> QED
      BY <1>0, <3>2 DEF SerialTypes
  <2>4. \A r \in reported' : r.at \in Nat /\ terminal'[r.item] = r.outcome
    <3>1. CASE Replay(h, i)
      BY <1>0, <3>1, ReplayServes DEF SerialTypes
    <3>2. CASE Report(h, i)
      <4>1. PICK o \in {"completed", "failed"} : SettleAttempt(i, o)
        BY <3>2 DEF Report, completePersistedWorkHandler, failPersistedWorkHandler
      <4>2. i \in running /\ terminal[i] = "none"
        BY <4>1 DEF SettleAttempt, SerialInv, RowsInv
      <4>3. PICK p \in {o, terminal[i]} \ {"none"} : terminal' = [terminal EXCEPT ![i] = p]
        BY <4>1 DEF SettleAttempt
      <4>4. terminal'[i] = o /\ \A j \in Items \ {i} : terminal'[j] = terminal[j]
        BY <1>0, <4>2, <4>3 DEF RunTypes
      <4>5. ASSUME NEW r \in reported PROVE r.at \in Nat /\ terminal'[r.item] = r.outcome
        BY <1>0, <1>9, <4>2, <4>4 DEF SerialTypes
      <4>6. now \in Nat
        BY <1>0 DEF SerialTypes
      <4>7. ASSUME NEW r, r = [item |-> i, outcome |-> o, at |-> now] PROVE r.at \in Nat /\ terminal'[r.item] = r.outcome
        BY <4>4, <4>6, <4>7
      <4> QED
        BY <4>1, <4>5, <4>7 DEF SettleAttempt
    <3> QED
      BY <1>5, <3>1, <3>2
  <2> QED
    BY <1>0, <2>1, <2>3, <2>4 DEF SerialTypes, Items
<1>6. ASSUME NEW h \in Handlers, submitAdmittedWorkflow(h) PROVE SerialTypes'
  <2>1. UNCHANGED <<workflow, members, errors, crashes, now, terminal, reported>>
    BY <1>6 DEF submitAdmittedWorkflow
  <2>2. \A g \in Handlers : handler'[g].at \in {handler[g].at, now}
    BY <1>0, <1>6 DEF submitAdmittedWorkflow, RunTypes, Idle
  <2> QED
    BY <1>0, <2>1, <2>2 DEF SerialTypes, Items
<1>7. ASSUME NEW h \in Handlers, HandlerStep(h) PROVE SerialTypes'
  <2>1. UNCHANGED <<workflow, now, terminal, reported>>
    BY <1>7, RequestKeeps
  <2>2. \A g \in Handlers : handler'[g].at \in Nat
    <3>1. PICK r \in Requests(workflow) : handler' = [handler EXCEPT ![h] = r] /\ (r = Idle \/ r.at = handler[h].at)
      BY <1>0, <1>7, RequestMoves
    <3>2. r.at \in Nat
      BY SMT, <1>0, <3>1 DEF SerialTypes, Idle
    <3> QED
      BY <1>0, <3>1, <3>2 DEF SerialTypes, RunTypes
  <2>3. errors' \in {errors, errors + 1} /\ crashes' = crashes
    BY <1>7 DEF HandlerStep, CaptureOutput, upsertWorkflowStepOutputFact, SaveFailedPlan,
       RecordWorkItemTerminalFailure, markWorkflowStageActivationFailed, enqueueReadyAssetMaterializeDependents,
       EnqueueWorkItems, QueueWorkItems, RecordCompiledWorkItemMembership, MembershipsRecorded,
       markCompiledStageEmptyStepsCompleted, activateNextReadyWorkflowStage, ContinueActivation, AdvanceFrom
  <2>4. members' \subseteq Items
    <3>1. CASE UNCHANGED members
      BY <1>0, <3>1 DEF SerialTypes
    <3>2. CASE RecordCompiledWorkItemMembership(h)
      <4>1. handler[h].todo # {} /\ members' \subseteq members \cup {Min(handler[h].todo)}
        BY <3>2 DEF RecordCompiledWorkItemMembership
      <4>2. handler[h].todo \in SUBSET Items /\ handler[h].todo \in SUBSET Nat
        BY <1>0 DEF RunTypes, Requests, Items, StepsTogether
      <4> QED
        BY <1>0, <4>1, <4>2, MinIsMember DEF SerialTypes
    <3> QED
      BY <1>7, <3>1, <3>2 DEF HandlerStep, CaptureOutput, upsertWorkflowStepOutputFact, SaveFailedPlan,
         RecordWorkItemTerminalFailure, markWorkflowStageActivationFailed, enqueueReadyAssetMaterializeDependents,
         EnqueueWorkItems, QueueWorkItems, MembershipsRecorded, markCompiledStageEmptyStepsCompleted,
         activateNextReadyWorkflowStage, ContinueActivation
  <2>5. errors' \in Nat /\ crashes' \in Nat
    BY SMT, <1>0, <2>3 DEF SerialTypes
  <2> QED
    BY <1>0, <2>1, <2>2, <2>4, <2>5 DEF SerialTypes, Items
<1> QED
  BY <1>0, <1>1, <1>2, <1>3, <1>4, <1>5, <1>6, <1>7, ReplayOfItem DEF Next, Progress
-----------------------------------------------------------------------------
(* A worker claims an item.                                                *)
LEMMA ClaimSerial ==
    ASSUME SerialInv, OutputsInv', SerialTypes', NEW i \in Items, ClaimNextWork(i)
    PROVE  SerialInv'
<1>0. RunTypes /\ Items' = Items
  BY DEF SerialInv, OutputsInv, Items, ClaimNextWork, clockVars
<1>1. /\ i \in Queued /\ running' = running \cup {i} /\ queuedAt' = [queuedAt EXCEPT ![i] = Never]
      /\ UNCHANGED <<workflow, createdAt, terminal, planned, members, facts, saved, errors, handler>>
  BY DEF ClaimNextWork, clockVars, planVars, boundVars
<1>2. Queued' = Queued \ {i}
  BY <1>0, <1>1 DEF Queued, RunTypes
<1>3. \A j \in Items : Touched(j)' <=> Touched(j)
  BY <1>1, <1>2 DEF Touched
<1>4. QueuedOnce' /\ \A j \in running' : terminal'[j] = "none"
  BY <1>1, <1>2 DEF SerialInv, RowsInv, QueuedOnce
<1> QED
  BY <1>1, <1>3, <1>4, WorkStep

(* A running item loses its worker.                                        *)
LEMMA RecoverSerial ==
    ASSUME SerialInv, OutputsInv', SerialTypes', NEW i \in Items, RecoverWork(i)
    PROVE  SerialInv'
<1>0. RunTypes /\ Items' = Items
  BY DEF SerialInv, OutputsInv, Items, RecoverWork, clockVars
<1>1. /\ i \in running /\ running' = running \ {i}
      /\ UNCHANGED <<workflow, createdAt, planned, members, facts, saved, errors, handler>>
  BY DEF RecoverWork, clockVars, planVars, boundVars
<1>2. terminal[i] = "none" /\ i \notin Queued
  BY <1>1 DEF SerialInv, RowsInv, QueuedOnce
<1>3. \/ Queued' = Queued \cup {i} /\ terminal' = terminal
      \/ Queued' = Queued /\ terminal' = [terminal EXCEPT ![i] = "failed"]
  <2>1. CASE queuedAt' = [queuedAt EXCEPT ![i] = IF @ = Never THEN Nano ELSE @] /\ UNCHANGED terminal
    <3>1. queuedAt[i] = Never /\ Nano # Never
      BY SMT, <1>2 DEF Queued, Nano, Never
    <3> QED
      BY <1>0, <2>1, <3>1 DEF Queued, RunTypes
  <2>2. CASE UNCHANGED queuedAt /\ terminal' = [terminal EXCEPT ![i] = "failed"]
    BY <1>0, <2>2 DEF Queued
  <2> QED
    BY <2>1, <2>2 DEF RecoverWork
<1>4. \A j \in Items \ {i} : terminal'[j] = terminal[j]
  BY <1>0, <1>3 DEF RunTypes
<1>5. /\ terminal'[i] \in {"none", "failed"}
      /\ terminal'[i] = "none" => i \in Queued'
      /\ i \in Queued' => terminal'[i] = "none"
  BY <1>0, <1>2, <1>3 DEF RunTypes
<1>6. \A j \in Items : /\ Touched(j)' <=> Touched(j)
                       /\ terminal'[j] = "completed" <=> terminal[j] = "completed"
                       /\ terminal[j] = "failed" => terminal'[j] = "failed"
  <2>1. Touched(i) /\ Touched(i)' /\ terminal'[i] # "completed"
    BY SMT, <1>1, <1>5 DEF Touched
  <2>2. \A j \in Items \ {i} : j \in Queued' <=> j \in Queued
    BY <1>3
  <2>3. \A j \in Items \ {i} : Touched(j)' <=> Touched(j)
    BY <1>1, <1>4, <2>2 DEF Touched
  <2> QED
    BY SMT, <1>2, <1>4, <2>1, <2>3
<1>7. QueuedOnce' /\ \A j \in running' : terminal'[j] = "none"
  <2>1. \A j \in Queued : j \in Items
    BY DEF Queued
  <2>2. \A j \in running : j \in Items
    BY <1>0 DEF RunTypes
  <2> QED
    BY <1>1, <1>3, <1>4, <1>5, <2>1, <2>2 DEF SerialInv, RowsInv, QueuedOnce
<1> QED
  BY <1>1, <1>6, <1>7, WorkStep

(* A worker reports: the item is done, and a request takes up its output   *)
(* or its failure.                                                         *)
LEMMA ReportSerial ==
    ASSUME SerialInv, OutputsInv', SerialTypes', StepsTogether(workflow), NEW h, Handlers = {h},
           NEW i \in Items, Report(h, i)
    PROVE  SerialInv'
<1> USE DEF clockVars, storeVars, planVars, boundVars
<1>0. RunTypes /\ Items' = Items /\ Queued' = Queued /\ Stored' = Stored /\ h \in Handlers
  BY DEF SerialInv, OutputsInv, Items, Queued, Stored, Report, completePersistedWorkHandler,
     failPersistedWorkHandler
<1>1. /\ i \in running /\ running' = running \ {i}
      /\ UNCHANGED <<workflow, createdAt, queuedAt, planned, members, facts, saved, errors>>
  BY DEF Report, completePersistedWorkHandler, failPersistedWorkHandler, SettleAttempt
<1>2. terminal[i] = "none" /\ i \notin Queued
  BY <1>1 DEF SerialInv, RowsInv, QueuedOnce
<1>3. PICK o \in {"completed", "failed"} :
          /\ SettleAttempt(i, o)
          /\ IF o = "completed" THEN Serve(h, "complete", i, now, "capture")
             ELSE Serve(h, "fail", i, now, "record_failure")
  BY DEF Report, completePersistedWorkHandler, failPersistedWorkHandler, AfterCompletion, AfterFailure,
     StepsTogether
<1>4. terminal'[i] = o /\ \A j \in Items \ {i} : terminal'[j] = terminal[j]
  <2>1. PICK p \in {o, terminal[i]} \ {"none"} : terminal' = [terminal EXCEPT ![i] = p]
    BY <1>3 DEF SettleAttempt
  <2>2. p = o
    BY <1>2, <2>1
  <2> QED
    BY <1>0, <2>1, <2>2 DEF RunTypes
<1>5. /\ handler[h].pc = "idle" /\ handler'[h].item = i /\ handler'[h].stage = StageOfItem(workflow, i)
      /\ o = "completed" => handler'[h].pc = "capture" /\ handler'[h].kind = "complete"
      /\ o = "failed" => handler'[h].pc = "record_failure" /\ handler'[h].kind = "fail"
  <2>1. CASE o = "completed"
    <3>1. Serve(h, "complete", i, now, "capture")
      BY Zenon, <1>3, <2>1
    <3>2. /\ handler[h].pc = "idle" /\ handler'[h].item = i /\ handler'[h].stage = StageOfItem(workflow, i)
          /\ handler'[h].pc = "capture" /\ handler'[h].kind = "complete"
      BY SMT, <1>0, <3>1, ServeStands
    <3> QED
      BY Zenon, <2>1, <3>2
  <2>2. CASE o = "failed"
    <3>1. Serve(h, "fail", i, now, "record_failure")
      BY Zenon, <1>3, <2>2
    <3> QED
      BY Zenon, <1>0, <2>2, <3>1, ServeStands
  <2> QED
    BY Zenon, <2>1, <2>2
<1>6. /\ \A j : ~Recording(j) /\ ~Recording(j)' /\ ~Capturing(j)
      /\ \A j : Known(j)' <=> Known(j)
      /\ \A j : SameStep(j, i) => Capturing(j)'
  <2>1. \A j : ~Recording(j) /\ ~Recording(j)' /\ ~Capturing(j)
    BY <1>5, OneRequest
  <2>2. \A j : SameStep(j, i) => Capturing(j)'
    BY <1>0, <1>1, <1>5 DEF Capturing, SameStep
  <2> QED
    BY <1>1, <2>1, <2>2 DEF Known
<1>7. \A j \in Items : Touched(j)' <=> Touched(j)
  <2>1. Touched(i) /\ Touched(i)'
    BY SMT, <1>1, <1>4 DEF Touched
  <2>2. \A j \in Items \ {i} : Touched(j)' <=> Touched(j)
    BY <1>0, <1>1, <1>4 DEF Touched
  <2> QED
    BY <2>1, <2>2
<1>8. i \in members
  BY <1>1, <1>6 DEF SerialInv, MembershipsInv, Known, Touched
<1>9. /\ \A j, k : SameStep(j, k)' <=> SameStep(j, k)
      /\ \A j, k : SameStage(j, k)' <=> SameStage(j, k)
  BY <1>1 DEF SameStep, SameStage
<1>10. RowsInv'
  <2>1. \A j \in running' : j \in Items \ {i} /\ j \in running
    BY <1>0, <1>1 DEF RunTypes
  <2>2. \A j \in Queued : j \in Items \ {i}
    BY <1>2 DEF Queued
  <2>3. (\A j \in running' : terminal'[j] = "none") /\ QueuedOnce'
    BY <1>0, <1>1, <1>4, <2>1, <2>2 DEF SerialInv, RowsInv, QueuedOnce
  <2>4. planned'
    BY <1>1, <1>0 DEF SerialInv, RowsInv, Touched
  <2> QED
    BY <1>0, <1>7, <1>9, <2>3, <2>4 DEF SerialInv, RowsInv
<1>11. MembershipsInv'
  BY <1>0, <1>6, <1>7, <1>9 DEF SerialInv, MembershipsInv, Stored
<1>12. FactsInv'
  <2>1. \A s : StepDone(s) => StepDone(s)'
    BY <1>0, <1>1, <1>2, <1>4 DEF StepDone
  <2>2. ASSUME NEW j \in Items, StepDone(workflow.stepOf[j])', ~SameStep(j, i) PROVE StepDone(workflow.stepOf[j])
    BY <1>0, <1>1, <1>4, <2>2 DEF StepDone, SameStep
  <2> QED
    BY <1>0, <1>1, <1>6, <2>1, <2>2 DEF SerialInv, FactsInv
<1>13. saved' # NoPlan => Cause'
  <2>1. \A j \in Items : terminal[j] = "failed" => terminal'[j] = "failed"
    BY SMT, <1>2, <1>4
  <2> QED
    BY <1>0, <1>1, <2>1 DEF SerialInv, Cause
<1>14. Stands(h)'
  <2>1. CASE o = "completed"
    BY <1>1, <1>4, <1>8, <1>5, <2>1 DEF Stands
  <2>2. CASE o = "failed"
    <3>1. Cause'
      BY <1>0, <1>4, <2>2 DEF Cause
    <3> QED
      BY <1>0, <1>4, <1>5, <2>2, <3>1 DEF Stands
  <2> QED
    BY <2>1, <2>2
<1> QED
  BY <1>10, <1>11, <1>12, <1>13, <1>14 DEF SerialInv

(* An outcome is reported again.                                           *)
LEMMA ReplaySerial ==
    ASSUME SerialInv, OutputsInv', SerialTypes', StepsTogether(workflow), NEW h, Handlers = {h},
           NEW i \in Items, Replay(h, i)
    PROVE  SerialInv'
<1>0. RunTypes /\ h \in Handlers
  BY DEF SerialInv, OutputsInv
<1>1. UNCHANGED <<workflow, createdAt, queuedAt, running, terminal, planned, members, facts, saved, errors>>
  BY <1>0, ReplayServes DEF clockVars, storeVars, workVars, planVars
<1>2. PICK r \in reported :
          /\ r.item = i /\ r.outcome \in {"completed", "failed"}
          /\ IF r.outcome = "completed" THEN Serve(h, "complete", i, r.at, AfterCompletion(i))
             ELSE Serve(h, "fail", i, r.at, AfterFailure(i))
  BY <1>0, ReplayServes
<1>3. AfterCompletion(i) = "capture" /\ AfterFailure(i) = "record_failure"
  BY DEF AfterCompletion, AfterFailure, StepsTogether
<1>4. terminal[i] = r.outcome
  BY <1>2 DEF SerialInv, SerialTypes
<1>5. /\ handler[h].pc = "idle" /\ handler'[h].item = i /\ handler'[h].stage = StageOfItem(workflow, i)
      /\ r.outcome = "completed" => handler'[h].pc = "capture" /\ handler'[h].kind = "complete"
      /\ r.outcome = "failed" => handler'[h].pc = "record_failure" /\ handler'[h].kind = "fail"
  <2>1. CASE r.outcome = "completed"
    <3>1. Serve(h, "complete", i, r.at, "capture")
      BY Zenon, <1>2, <1>3, <2>1
    <3>2. /\ handler[h].pc = "idle" /\ handler'[h].item = i /\ handler'[h].stage = StageOfItem(workflow, i)
          /\ handler'[h].pc = "capture" /\ handler'[h].kind = "complete"
      BY SMT, <1>0, <3>1, ServeStands
    <3> QED
      BY Zenon, <2>1, <3>2
  <2>2. CASE r.outcome = "failed"
    <3>1. Serve(h, "fail", i, r.at, "record_failure")
      BY Zenon, <1>2, <1>3, <2>2
    <3> QED
      BY Zenon, <1>0, <2>2, <3>1, ServeStands
  <2> QED
    BY <1>2, <2>1, <2>2
<1>6. \A j : ~Recording(j) /\ ~Recording(j)' /\ ~Capturing(j)
  BY <1>2, <1>5, OneRequest
<1>7. \A j : Known(j)' <=> Known(j)
  BY <1>1, <1>6 DEF Known
<1>8. Touched(i) /\ i \in members
  BY SMT, <1>2, <1>4, <1>6 DEF SerialInv, MembershipsInv, Known, Touched
<1>9. planned'
  BY <1>1, <1>8 DEF SerialInv, RowsInv
<1>10. Stands(h)'
  <2>1. CASE r.outcome = "completed"
    BY <1>1, <1>4, <1>5, <1>8, <2>1 DEF Stands
  <2>2. CASE r.outcome = "failed"
    <3>1. Cause' /\ Items' = Items
      BY <1>1, <1>4, <2>2 DEF Cause, Items
    <3> QED
      BY <1>1, <1>4, <1>5, <2>2, <3>1 DEF Stands
  <2> QED
    BY <1>2, <2>1, <2>2
<1>11. saved' # NoPlan => Cause'
  BY <1>1 DEF SerialInv, Cause, Items
<1> QED
  BY <1>1, <1>6, <1>7, <1>9, <1>10, <1>11, QuietStep

(* The workflow is submitted.                                              *)
LEMMA SubmitSerial ==
    ASSUME SerialInv, OutputsInv', SerialTypes', NEW h, Handlers = {h}, submitAdmittedWorkflow(h)
    PROVE  SerialInv'
<1>0. RunTypes /\ h \in Handlers
  BY DEF SerialInv, OutputsInv
<1>1. /\ ~planned /\ planned' /\ handler[h].pc = "idle"
      /\ UNCHANGED <<workflow, createdAt, queuedAt, running, terminal, members, facts, saved, errors>>
  BY DEF submitAdmittedWorkflow, clockVars, storeVars, workVars, boundVars
<1>2. handler'[h].pc \in {"empty", "queue"} /\ handler'[h].kind = "submit"
  BY SMT, <1>0 DEF submitAdmittedWorkflow, RunTypes, Idle
<1>3. \A j : ~Recording(j) /\ ~Recording(j)' /\ ~Capturing(j)
  BY <1>1, <1>2, OneRequest
<1>4. \A j : Known(j)' <=> Known(j)
  BY <1>1, <1>3 DEF Known
<1>5. Stored' = {}
  BY <1>1 DEF SerialInv, RowsInv, Stored, Items
<1>6. Stands(h)'
  BY <1>2, <1>5 DEF Stands
<1>7. saved' # NoPlan => Cause'
  BY <1>1 DEF SerialInv, Cause, Items
<1> QED
  BY <1>1, <1>3, <1>4, <1>6, <1>7, QuietStep
-----------------------------------------------------------------------------
(* A request that goes on keeps what it is about.                          *)
LEMMA GotoStands ==
    ASSUME RunTypes, NEW h \in Handlers, NEW pc, Goto(h, pc)
    PROVE  /\ handler'[h].pc = pc /\ handler'[h].kind = handler[h].kind /\ handler'[h].item = handler[h].item
           /\ handler'[h].stage = handler[h].stage /\ handler'[h].todo = handler[h].todo
BY DEF Goto, RunTypes, Requests

(* A request that ends is about nothing.                                   *)
LEMMA ReturnStands ==
    ASSUME RunTypes, NEW h \in Handlers, Return(h)
    PROVE  handler'[h].pc = "idle" /\ handler'[h].kind = "none" /\ Stands(h)'
<1>1. handler'[h].pc = "idle" /\ handler'[h].kind = "none"
  BY SMT DEF Return, RunTypes, Idle
<1> QED
  BY <1>1 DEF Stands

(* A failed plan that is saved is a plan, and has a cause.                 *)
LEMMA SavedStays ==
    ASSUME NoPlanIsNone, SerialInv, NEW plan, setWorkflowDependencyState(plan)
    PROVE  /\ saved # NoPlan => saved' # NoPlan
           /\ saved' # NoPlan => Cause
<1>1. PlanState = "failed" => Cause
  BY SerialCauses
<1> QED
  BY <1>1 DEF setWorkflowDependencyState, NoPlanIsNone, SerialInv

(* An output is taken up: the step is done when all its recorded items are *)
(* completed, since the items of a step are recorded together.             *)
LEMMA CaptureSerial ==
    ASSUME NoPlanIsNone, SerialInv, OutputsInv', SerialTypes', NEW h, Handlers = {h}, CaptureOutput(h)
    PROVE  SerialInv'
<1> DEFINE i == handler[h].item
           s == workflow.stepOf[i]
           ready == dependencyStepOutputsReady(i, Plan)
           over == Plan.member[i] = "failed" \/ (PlanState # "running" /\ s \in facts)
<1>0. RunTypes /\ h \in Handlers /\ members \subseteq Items /\ Items' = Items /\ errors \in Nat
  BY DEF SerialInv, OutputsInv, SerialTypes, CaptureOutput, Items, clockVars
<1>1. /\ handler[h].pc = "capture"
      /\ UNCHANGED <<workflow, createdAt, queuedAt, running, terminal, planned, members, facts, saved>>
  BY DEF CaptureOutput, clockVars, storeVars, workVars
<1>2. /\ handler[h].kind = "complete" /\ i \in members /\ terminal[i] = "completed"
      /\ handler[h].stage = StageOfItem(workflow, i) /\ planned
  BY <1>0, <1>1 DEF SerialInv, Stands, RowsInv
<1>3. /\ \A j : ~Recording(j)
      /\ \A j : Capturing(j) <=> SameStep(j, i)
  BY <1>1, OneRequest
<1>4. ASSUME ready PROVE StepDone(s)
  <2> SUFFICES ASSUME NEW j \in Items, workflow.stepOf[j] = s PROVE terminal[j] = "completed"
    BY DEF StepDone
  <2>1. Known(j) /\ j \in members
    BY <1>0, <1>2, <1>3 DEF SerialInv, MembershipsInv, SameStep, Known
  <2>2. Plan.member[j] = "completed" /\ Touched(j)
    BY <1>4, <2>1 DEF dependencyStepOutputsReady, MembersOf, SerialInv, MembershipsInv
  <2> QED
    BY <1>0, <2>1, <2>2, MembershipState
<1>5. ASSUME StepDone(s), s \notin facts, saved = NoPlan PROVE ready /\ ~over
  <2>1. \A j \in members : workflow.stepOf[j] = s => Plan.member[j] = "completed"
    <3> SUFFICES ASSUME NEW j \in members, workflow.stepOf[j] = s PROVE Plan.member[j] = "completed"
      OBVIOUS
    <3>1. terminal[j] = "completed"
      BY <1>0, <1>5 DEF StepDone
    <3> QED
      BY SMT, <1>0, <1>5, <3>1, MembershipState
  <2> QED
    BY SMT, <1>2, <1>5, <2>1 DEF dependencyStepOutputsReady, MembersOf
<1>6. Cause => Cause'
  <2>1. errors' >= errors
    <3>1. errors' \in {errors, errors + 1}
      BY DEF CaptureOutput
    <3> QED
      BY SMT, <1>0, <3>1
  <2> QED
    BY SMT, <1>0, <1>1, <2>1 DEF Cause, SerialTypes
<1>7. saved' # NoPlan => Cause'
  BY <1>1, <1>6 DEF SerialInv
<1>8. \/ Goto(h, "fact") /\ ready
      \/ Goto(h, "record_failure") /\ errors' = errors + 1
      \/ (Goto(h, "dependents") \/ Goto(h, "save")) /\ (~ready \/ over)
  BY <1>2 DEF CaptureOutput, AfterFact
<1> HIDE DEF ready, over
<1>9. /\ handler'[h].pc \in {"fact", "record_failure", "dependents", "save"}
      /\ handler'[h].kind = "complete" /\ handler'[h].item = i /\ handler'[h].stage = StageOfItem(workflow, i)
  BY <1>0, <1>2, <1>8, GotoStands
<1>10. /\ handler'[h].pc \in {"dependents", "save"} => ~ready \/ over
       /\ handler'[h].pc = "fact" => ready
       /\ handler'[h].pc = "record_failure" => errors' = errors + 1
  <2>1. CASE Goto(h, "fact") /\ ready
    BY SMT, <1>0, <2>1, GotoStands
  <2>2. CASE Goto(h, "record_failure") /\ errors' = errors + 1
    BY SMT, <1>0, <2>2, GotoStands
  <2>3. CASE (Goto(h, "dependents") \/ Goto(h, "save")) /\ (~ready \/ over)
    BY SMT, <1>0, <2>3, GotoStands
  <2> QED
    BY <1>8, <2>1, <2>2, <2>3
<1>11. \A j : Known(j)' <=> Known(j)
  <2>1. \A j : ~Recording(j)'
    BY <1>9, OneRequest
  <2> QED
    BY <1>1, <1>3, <2>1 DEF Known
<1>12. ASSUME NEW j \in Items, Capturing(j), StepDone(workflow.stepOf[j])
       PROVE  workflow.stepOf[j] \in facts' \/ saved' # NoPlan \/ Capturing(j)'
  <2>1. workflow.stepOf[j] = s
    BY <1>3, <1>12 DEF SameStep
  <2>2. CASE handler'[h].pc \in {"dependents", "save"}
    BY <1>1, <1>5, <1>10, <1>12, <2>1, <2>2
  <2>3. CASE handler'[h].pc \in {"fact", "record_failure"}
    BY <1>0, <1>1, <1>9, <2>1, <2>3 DEF Capturing, SameStep
  <2> QED
    BY <1>9, <2>2, <2>3
<1>13. Stands(h)'
  <2>1. handler'[h].pc = "fact" => StepDone(s)
    BY <1>4, <1>10
  <2>2. handler'[h].pc = "record_failure" => Cause'
    <3>1. handler'[h].pc = "record_failure" => errors' > 0
      BY SMT, <1>0, <1>10
    <3> QED
      BY <3>1 DEF Cause
  <2>3. StepDone(s)' <=> StepDone(s)
    BY <1>0, <1>1, <1>9 DEF StepDone
  <2> QED
    BY <1>1, <1>2, <1>9, <2>1, <2>2, <2>3 DEF Stands
<1> QED
  BY <1>1, <1>2, <1>7, <1>11, <1>12, <1>13, QuietStep

(* The output is kept.                                                     *)
LEMMA FactSerial ==
    ASSUME SerialInv, OutputsInv', SerialTypes', NEW h, Handlers = {h}, upsertWorkflowStepOutputFact(h)
    PROVE  SerialInv'
<1> DEFINE s == workflow.stepOf[handler[h].item]
<1>0. RunTypes /\ h \in Handlers
  BY DEF SerialInv, OutputsInv
<1>1. /\ handler[h].pc = "fact" /\ facts' = facts \cup {s}
      /\ \E pc \in {"dependents", "save"} : Goto(h, pc)
      /\ UNCHANGED <<workflow, createdAt, queuedAt, running, terminal, planned, members, saved, errors>>
  BY CaptureGoes DEF upsertWorkflowStepOutputFact, clockVars, storeVars, workVars, boundVars
<1>2. /\ handler[h].kind = "complete" /\ handler[h].item \in members /\ terminal[handler[h].item] = "completed"
      /\ handler[h].stage = StageOfItem(workflow, handler[h].item) /\ planned /\ StepDone(s)
  BY <1>0, <1>1 DEF SerialInv, Stands, RowsInv
<1>3. /\ handler'[h].pc \in {"dependents", "save"} /\ handler'[h].kind = "complete" /\ handler'[h].item = handler[h].item
      /\ handler'[h].stage = handler[h].stage
  BY <1>0, <1>1, <1>2, GotoStands
<1>4. /\ \A j : ~Recording(j) /\ ~Recording(j)'
      /\ \A j : Capturing(j) => workflow.stepOf[j] = s
  BY <1>1, <1>3, OneRequest DEF SameStep
<1>5. \A j : Known(j)' <=> Known(j)
  BY <1>1, <1>4 DEF Known
<1>6. saved' # NoPlan => Cause'
  BY <1>1 DEF SerialInv, Cause, Items
<1>7. Stands(h)'
  BY <1>1, <1>2, <1>3 DEF Stands
<1> QED
  BY <1>1, <1>2, <1>4, <1>5, <1>6, <1>7, QuietStep

(* What a failed run rests on: a failed plan that is saved, or a failed    *)
(* item of it.                                                             *)
Failed == planned /\ (saved # NoPlan \/ \E i \in members : terminal[i] = "failed")

(* A request holds a failed plan only in a run that has failed, until it   *)
(* has saved it.                                                           *)
HeldInv ==
    \A h \in Handlers :
        /\ unsaved[h] # NoPlan => Failed /\ handler[h].pc \in {"fact", "save"}
        /\ handler[h].pc = "save" => unsaved[h] # NoPlan

(* The plan is saved.                                                      *)
LEMMA SaveSerial ==
    ASSUME SerialInv, HeldInv, OutputsInv', SerialTypes', NEW h, Handlers = {h}, SaveFailedPlan(h)
    PROVE  SerialInv'
<1>0. RunTypes /\ h \in Handlers /\ members \subseteq Items
  BY DEF SerialInv, OutputsInv, SerialTypes
<1>1. /\ handler[h].pc = "save" /\ Goto(h, "dependents") /\ saved' = unsaved[h]
      /\ UNCHANGED <<workflow, createdAt, queuedAt, running, terminal, planned, members, facts, errors>>
  BY DEF SaveFailedPlan, clockVars, storeVars, workVars, boundVars
<1>2. saved' # NoPlan /\ Failed
  BY <1>0, <1>1 DEF HeldInv
<1>3. Cause'
  BY <1>0, <1>1, <1>2 DEF Failed, SerialInv, Cause, Items
<1>4. /\ handler[h].kind = "complete" /\ handler[h].item \in members /\ terminal[handler[h].item] = "completed"
      /\ handler[h].stage = StageOfItem(workflow, handler[h].item) /\ planned
  BY <1>0, <1>1, <1>2 DEF SerialInv, Stands, Failed
<1>5. /\ handler'[h].pc = "dependents" /\ handler'[h].kind = "complete" /\ handler'[h].item = handler[h].item
      /\ handler'[h].stage = handler[h].stage
  BY <1>0, <1>1, <1>4, GotoStands
<1>6. \A j : ~Recording(j) /\ ~Recording(j)' /\ ~Capturing(j)
  BY <1>1, <1>5, OneRequest
<1>7. \A j : Known(j)' <=> Known(j)
  BY <1>1, <1>6 DEF Known
<1>8. Stands(h)'
  BY <1>1, <1>4, <1>5 DEF Stands
<1> QED
  BY <1>1, <1>2, <1>3, <1>4, <1>6, <1>7, <1>8, QuietStep

(* A failure is recorded, unless the plan shows it or the output is kept.  *)
LEMMA RecordFailureSerial ==
    ASSUME NoPlanIsNone, SerialInv, OutputsInv', SerialTypes', NEW h, Handlers = {h},
           RecordWorkItemTerminalFailure(h)
    PROVE  SerialInv'
<1> DEFINE i == handler[h].item
<1>0. RunTypes /\ h \in Handlers /\ members \subseteq Items
  BY DEF SerialInv, OutputsInv, SerialTypes
<1>1. /\ handler[h].pc = "record_failure" /\ Return(h)
      /\ UNCHANGED <<workflow, createdAt, queuedAt, running, terminal, planned, members, facts, errors>>
  BY DEF RecordWorkItemTerminalFailure, clockVars, storeVars, workVars, boundVars
<1>2. /\ handler[h].kind = "complete" => i \in members /\ terminal[i] = "completed"
      /\ handler[h].kind # "complete" => i \in Items /\ terminal[i] = "failed"
      /\ planned /\ Cause
  BY <1>0, <1>1 DEF SerialInv, Stands, RowsInv
<1>3. /\ saved' = saved \/ saved' # NoPlan
      /\ saved' = saved => \/ saved # NoPlan \/ i \notin members \/ Plan.member[i] = "failed"
                           \/ workflow.stepOf[i] \in facts
  BY DEF RecordWorkItemTerminalFailure, NoPlanIsNone
<1>4. Stands(h)' /\ handler'[h].pc = "idle"
  BY <1>0, <1>1, ReturnStands
<1>5. /\ \A j : ~Recording(j) /\ ~Recording(j)'
      /\ \A j : Capturing(j) => workflow.stepOf[j] = workflow.stepOf[i]
  BY <1>1, <1>4, OneRequest DEF SameStep
<1>6. \A j : Known(j)' <=> Known(j)
  BY <1>1, <1>5 DEF Known
<1>7. Cause'
  BY <1>1, <1>2 DEF Cause, Items
<1>8. ASSUME NEW j \in Items, Capturing(j), StepDone(workflow.stepOf[j])
      PROVE  workflow.stepOf[j] \in facts' \/ saved' # NoPlan \/ Capturing(j)'
  <2>1. handler[h].kind = "complete"
    BY SMT, <1>2, <1>5, <1>8 DEF StepDone
  <2>2. saved = NoPlan => Plan.member[i] # "failed"
    BY SMT, <1>0, <1>2, <2>1, MembershipState
  <2> QED
    BY <1>1, <1>2, <1>3, <1>5, <1>8, <2>1, <2>2
<1> QED
  BY <1>1, <1>2, <1>3, <1>4, <1>6, <1>7, <1>8, QuietStep

(* The activation of a stage is recorded as failed.                        *)
LEMMA FailStageSerial ==
    ASSUME NoPlanIsNone, SerialInv, OutputsInv', SerialTypes', NEW h, Handlers = {h},
           markWorkflowStageActivationFailed(h)
    PROVE  SerialInv'
<1>0. RunTypes /\ h \in Handlers
  BY DEF SerialInv, OutputsInv
<1>1. /\ handler[h].pc = "fail_stage"
      /\ UNCHANGED <<workflow, createdAt, queuedAt, running, terminal, planned, members, facts, errors>>
  BY DEF markWorkflowStageActivationFailed, clockVars, storeVars, workVars, boundVars
<1>2. handler[h].kind = "activate" /\ planned /\ Cause
  BY <1>0, <1>1 DEF SerialInv, Stands, RowsInv
<1>3. saved' # NoPlan /\ Return(h)
  BY <1>2 DEF markWorkflowStageActivationFailed, NoPlanIsNone
<1>4. Stands(h)' /\ handler'[h].pc = "idle"
  BY <1>0, <1>3, ReturnStands
<1>5. \A j : ~Recording(j) /\ ~Recording(j)' /\ ~Capturing(j)
  BY <1>1, <1>4, OneRequest
<1>6. \A j : Known(j)' <=> Known(j)
  BY <1>1, <1>5 DEF Known
<1>7. Cause'
  BY <1>1, <1>2 DEF Cause, Items
<1> QED
  BY <1>1, <1>2, <1>3, <1>4, <1>5, <1>6, <1>7, QuietStep

(* The dependents that are released wait for the same items as the other   *)
(* items of their step, so they are all of the step.                       *)
LEMMA DependentsSerial ==
    ASSUME SerialInv, OutputsInv', SerialTypes', StepsTogether(workflow), NEW h, Handlers = {h},
           enqueueReadyAssetMaterializeDependents(h)
    PROVE  SerialInv'
<1> DEFINE ready == ReadyDependents(handler[h].item)
<1>0. RunTypes /\ h \in Handlers /\ Items' = Items
  BY DEF SerialInv, OutputsInv, Items, enqueueReadyAssetMaterializeDependents, clockVars
<1>1. /\ handler[h].pc = "dependents"
      /\ UNCHANGED <<workflow, createdAt, queuedAt, running, terminal, planned, members, facts, saved, errors>>
  BY DEF enqueueReadyAssetMaterializeDependents, clockVars, storeVars, workVars, planVars, boundVars
<1>2. /\ handler[h].kind = "complete" /\ handler[h].item \in members /\ terminal[handler[h].item] = "completed"
      /\ handler[h].stage = StageOfItem(workflow, handler[h].item) /\ planned
  BY <1>0, <1>1 DEF SerialInv, Stands, RowsInv
<1>3. /\ handler'[h].kind = handler[h].kind /\ handler'[h].item = handler[h].item
      /\ handler'[h].stage = handler[h].stage
      /\ handler'[h].pc = "activate" \/ (handler'[h].pc = "enqueue" /\ handler'[h].todo = ready)
  <2>1. Goto(h, "activate") \/ handler' = [handler EXCEPT ![h].pc = "enqueue", ![h].todo = ready]
    BY DEF enqueueReadyAssetMaterializeDependents, AfterDependents, StepsTogether
  <2>2. CASE Goto(h, "activate")
    BY <1>0, <2>2, GotoStands
  <2>3. CASE handler' = [handler EXCEPT ![h].pc = "enqueue", ![h].todo = ready]
    BY <1>0, <2>3 DEF RunTypes, Requests
  <2> QED
    BY <2>1, <2>2, <2>3
<1>4. \A j : ~Recording(j) /\ ~Recording(j)' /\ ~Capturing(j)
  BY <1>1, <1>3, OneRequest
<1>5. \A j : Known(j)' <=> Known(j)
  BY <1>1, <1>4 DEF Known
<1>6. \A j \in ready : /\ j \in Stored /\ ~Touched(j) /\ j \in Items
                       /\ handler[h].item \in workflow.dependsOn[j]
                       /\ workflow.dependsOn[j] \subseteq Completed
  BY DEF ReadyDependents, Touched, Stored
<1>7. ASSUME NEW j \in ready, NEW k \in Items, SameStep(j, k) PROVE k \in ready
  <2>1. k \in Stored
    BY <1>6, <1>7 DEF SerialInv, RowsInv, SameStage, SameStep, StageOfItem
  <2>2. ~Touched(k)
    BY <1>6, <1>7 DEF SerialInv, MembershipsInv, SameStep
  <2>3. workflow.dependsOn[k] = workflow.dependsOn[j]
    BY <1>6, <1>7 DEF StepsTogether, SameStep, Items
  <2> QED
    BY <1>6, <2>1, <2>2, <2>3 DEF ReadyDependents, Touched
<1>8. Stands(h)'
  <2>1. Stored' = Stored /\ \A j : (Touched(j)' <=> Touched(j)) /\ \A k : SameStep(j, k)' <=> SameStep(j, k)
    BY <1>0, <1>1 DEF Stored, Touched, SameStep, Queued
  <2> HIDE DEF ready
  <2> QED
    BY <1>0, <1>1, <1>2, <1>3, <1>6, <1>7, <2>1 DEF Stands
<1>9. saved' # NoPlan => Cause'
  BY <1>1 DEF SerialInv, Cause, Items
<1> QED
  BY <1>1, <1>2, <1>4, <1>5, <1>8, <1>9, QuietStep

(* A request queues items that were not in hand, the items of a step       *)
(* together, and goes on to record their memberships.                      *)
LEMMA QueueStep ==
    ASSUME SerialInv, OutputsInv', SerialTypes', NEW h, Handlers = {h}, handler[h].pc \in {"enqueue", "queue"},
           UNCHANGED <<workflow, running, terminal, planned, members, facts, saved, errors>>,
           NEW S \in SUBSET Items, Queued' = Queued \cup S, Stored \subseteq Stored',
           \A j \in S : j \in Stored' /\ ~Touched(j) /\ \A k \in Items : SameStep(j, k) => k \in S,
           \A i, j \in Items : i \in Stored' /\ SameStage(i, j) => j \in Stored',
           \A i \in Stored' \ Stored : \E j \in S : SameStage(i, j),
           handler'[h].pc = "members", handler'[h].todo = S,
           handler'[h].kind = handler[h].kind, handler'[h].item = handler[h].item,
           handler'[h].stage = handler[h].stage, handler[h].kind \in {"submit", "activate", "complete"}
    PROVE  SerialInv'
<1>0. RunTypes /\ h \in Handlers /\ Items' = Items /\ planned /\ Stands(h)
  BY DEF SerialInv, OutputsInv, Items, RowsInv
<1>1. /\ \A j : ~Recording(j) /\ ~Capturing(j)
      /\ \A j : Recording(j)' <=> j \in S
  BY OneRequest
<1>2. /\ \A j : Known(j) <=> j \in members
      /\ \A j : Known(j)' <=> j \in members \/ j \in S
  BY <1>1 DEF Known
<1>3. \A j : Touched(j)' <=> Touched(j) \/ j \in S
  BY DEF Touched
<1>4. /\ \A j, k : SameStep(j, k)' <=> SameStep(j, k)
      /\ \A j, k : SameStage(j, k)' <=> SameStage(j, k)
      /\ \A s : StepDone(s)' <=> StepDone(s)
      /\ Cause' <=> Cause
  BY <1>0 DEF SameStep, SameStage, StepDone, Cause
<1>5. QueuedOnce'
  BY DEF SerialInv, RowsInv, QueuedOnce, Touched
<1>6. RowsInv'
  BY <1>0, <1>3, <1>4, <1>5 DEF SerialInv, RowsInv
<1>7. MembershipsInv'
  <2>1. \A i \in Items : Known(i)' <=> Touched(i)'
    BY <1>2, <1>3 DEF SerialInv, MembershipsInv
  <2>2. \A i, j \in Items : SameStep(i, j) /\ Known(i)' => Known(j)'
    BY <1>2 DEF SerialInv, MembershipsInv
  <2>3. \A i \in Stored' : \E j \in Items : Known(j)' /\ SameStage(i, j)
    BY <1>2 DEF SerialInv, MembershipsInv
  <2> QED
    BY <1>0, <1>4, <2>1, <2>2, <2>3 DEF MembershipsInv
<1>8. FactsInv'
  BY <1>0, <1>1, <1>4 DEF SerialInv, FactsInv
<1>9. Stands(h)'
  <2>1. \A j \in S : j \notin members
    BY <1>2 DEF SerialInv, MembershipsInv
  <2>2. \A j \in S : \A i \in Items : SameStep(j, i) => terminal[i] # "completed"
    BY SMT, <1>0 DEF Touched
  <2> QED
    BY <1>0, <1>4, <2>1, <2>2 DEF Stands
<1> QED
  BY <1>4, <1>6, <1>7, <1>8, <1>9 DEF SerialInv

(* Queueing a set of items that are not queued.                            *)
LEMMA EnqueueQueues ==
    ASSUME RunTypes, UNCHANGED workflow, NEW S \in SUBSET Items, NEW at \in Nat, Enqueue(S, at)
    PROVE  Queued' = Queued \cup S
<1>1. at # Never
  BY SMT DEF Never
<1> QED
  BY <1>1 DEF Enqueue, Queued, Items, RunTypes

(* Dependents are queued.                                                  *)
LEMMA EnqueueSerial ==
    ASSUME SerialInv, OutputsInv', SerialTypes', NEW h, Handlers = {h}, EnqueueWorkItems(h)
    PROVE  SerialInv'
<1> DEFINE S == handler[h].todo
<1>0. RunTypes /\ h \in Handlers /\ S \in SUBSET Items /\ handler[h].at \in Nat
  BY DEF SerialInv, OutputsInv, SerialTypes, RunTypes, Requests, Items
<1>1. /\ handler[h].pc = "enqueue"
      /\ UNCHANGED <<workflow, createdAt, running, terminal, planned, members, facts, saved, errors>>
  BY DEF EnqueueWorkItems, clockVars, workVars, planVars, boundVars
<1>2. /\ handler[h].kind = "complete"
      /\ \A j \in S : j \in Stored /\ ~Touched(j) /\ \A k \in Items : SameStep(j, k) => k \in S
  BY <1>0, <1>1 DEF SerialInv, Stands
<1>3. CanEnqueue(S, handler[h].at)
  BY <1>0, <1>2 DEF CanEnqueue, Touched, Queued
<1>4. Enqueue(S, handler[h].at) /\ Goto(h, "members")
  BY <1>3 DEF EnqueueWorkItems
<1>5. /\ handler'[h].pc = "members" /\ handler'[h].todo = S
      /\ handler'[h].kind = handler[h].kind /\ handler'[h].item = handler[h].item
      /\ handler'[h].stage = handler[h].stage
  BY <1>0, <1>4, GotoStands
<1>6. Queued' = Queued \cup S /\ Stored' = Stored
  BY <1>0, <1>1, <1>4, EnqueueQueues DEF Stored, Items
<1>7. \A i, j \in Items : i \in Stored' /\ SameStage(i, j) => j \in Stored'
  BY <1>6 DEF SerialInv, RowsInv
<1> HIDE DEF S
<1> QED
  BY <1>0, <1>1, <1>2, <1>5, <1>6, <1>7, QueueStep

(* A stage is stored and its ready items are queued.                       *)
LEMMA QueueSerial ==
    ASSUME SerialInv, OutputsInv', SerialTypes', StepsTogether(workflow), NEW h, Handlers = {h}, QueueWorkItems(h)
    PROVE  SerialInv'
<1> DEFINE n == handler[h].stage
           T == StageItems(workflow, n)
           S == ReadyAtOnce(n)
<1>0. RunTypes /\ h \in Handlers /\ handler[h].at \in Nat /\ n \in Nat
  BY DEF SerialInv, OutputsInv, SerialTypes, RunTypes, Requests
<1>1. /\ handler[h].pc = "queue"
      /\ UNCHANGED <<workflow, running, terminal, planned, members, facts, saved, errors>>
  BY DEF QueueWorkItems, clockVars, workVars, planVars, boundVars
<1>2. /\ handler[h].kind \in {"submit", "activate", "complete"}
      /\ \A i \in Stored : StageOfItem(workflow, i) < n
  BY <1>0, <1>1 DEF SerialInv, Stands
<1>3. /\ T \in SUBSET Items /\ S \in SUBSET T
      /\ \A i \in Items : i \in T <=> StageOfItem(workflow, i) = n
      /\ \A i \in T : i \in S <=> workflow.dependsOn[i] \cap T = {}
  BY DEF StageItems, ReadyAtOnce, Items
<1>4. \A i \in T : i \notin Stored /\ ~Touched(i)
  <2>1. \A i \in T : i \notin Stored
    <3> SUFFICES ASSUME NEW i \in T, i \in Stored PROVE FALSE
      OBVIOUS
    <3>1. StageOfItem(workflow, i) = n /\ StageOfItem(workflow, i) < n
      BY <1>2, <1>3
    <3> QED
      BY ONLY <1>0, <3>1
  <2> QED
    BY <1>3, <2>1 DEF SerialInv, RowsInv
<1>5. (\A i \in T : createdAt[i] \in {Never, handler[h].at}) /\ CanEnqueue(S, handler[h].at)
  BY <1>3, <1>4 DEF CanEnqueue, Stored, Touched, Queued
<1>6. /\ createdAt' = [i \in Items |-> IF i \in T THEN handler[h].at ELSE createdAt[i]]
      /\ Enqueue(S, handler[h].at)
      /\ handler' = [handler EXCEPT ![h].pc = "members", ![h].todo = S]
  <2>1. S \ workflow.materialize = S
    BY DEF StepsTogether
  <2> QED
    BY <1>5, <2>1 DEF QueueWorkItems
<1> HIDE DEF T, S
<1>7. /\ handler'[h].pc = "members" /\ handler'[h].todo = S
      /\ handler'[h].kind = handler[h].kind /\ handler'[h].item = handler[h].item
      /\ handler'[h].stage = handler[h].stage
  BY <1>0, <1>6 DEF RunTypes, Requests
<1>8. Queued' = Queued \cup S
  BY <1>0, <1>1, <1>3, <1>6, EnqueueQueues
<1>9. Stored' = Stored \cup T
  <2>1. handler[h].at # Never
    BY SMT, <1>0 DEF Never
  <2> QED
    BY <1>0, <1>1, <1>3, <1>6, <2>1 DEF Stored, Items, RunTypes
<1>10. \A i, j \in Items : i \in Stored' /\ SameStage(i, j) => j \in Stored'
  BY <1>3, <1>9 DEF SerialInv, RowsInv, SameStage
<1>11. ASSUME NEW i \in T PROVE \E j \in S : SameStage(i, j)
  <2>1. PICK j \in Items : /\ StageOfItem(workflow, j) = StageOfItem(workflow, i)
                           /\ workflow.dependsOn[j] \cap StageItems(workflow, StageOfItem(workflow, j)) = {}
    BY <1>3 DEF StepsTogether, Items
  <2>2. StageOfItem(workflow, j) = n /\ j \in T
    BY <1>3, <2>1
  <2>3. j \in S
    BY <1>3, <2>1, <2>2 DEF T
  <2> QED
    BY <2>1, <2>3 DEF SameStage
<1>12. ASSUME NEW j \in S, NEW k \in Items, SameStep(j, k) PROVE k \in S
  <2>1. j \in Items /\ k \in T
    BY <1>3, <1>12 DEF SameStep, StageOfItem
  <2>2. workflow.dependsOn[k] = workflow.dependsOn[j]
    BY <1>12, <2>1 DEF StepsTogether, SameStep, Items
  <2> QED
    BY <1>3, <2>1, <2>2
<1> QED
  BY <1>0, <1>1, <1>2, <1>3, <1>4, <1>7, <1>8, <1>9, <1>10, <1>11, <1>12, QueueStep

(* One membership is recorded: a row that was missing, so no error.        *)
LEMMA RecordMembershipSerial ==
    ASSUME NoPlanIsNone, SerialInv, OutputsInv', SerialTypes', StepsTogether(workflow), NEW h, Handlers = {h},
           RecordCompiledWorkItemMembership(h)
    PROVE  SerialInv'
<1> DEFINE i == Min(handler[h].todo)
<1>0. RunTypes /\ h \in Handlers /\ handler[h].todo \in SUBSET Items /\ Items' = Items
  BY DEF SerialInv, OutputsInv, RunTypes, Requests, Items, RecordCompiledWorkItemMembership, clockVars
<1>1. /\ handler[h].pc = "members" /\ handler[h].todo # {}
      /\ UNCHANGED <<workflow, createdAt, queuedAt, running, terminal, planned, facts, errors>>
  BY DEF RecordCompiledWorkItemMembership, clockVars, storeVars, workVars, boundVars
<1>2. i \in handler[h].todo
  <2>1. handler[h].todo \in SUBSET Nat
    BY <1>0 DEF StepsTogether, Items
  <2> QED
    BY <1>1, <2>1, MinIsMember
<1>3. /\ handler[h].kind \in {"submit", "activate", "complete"} /\ planned
      /\ handler[h].kind = "complete" =>
             /\ handler[h].item \in members /\ terminal[handler[h].item] = "completed"
             /\ handler[h].stage = StageOfItem(workflow, handler[h].item)
      /\ \A j \in handler[h].todo : /\ j \notin members
                                    /\ \A k \in Items : SameStep(j, k) => terminal[k] # "completed"
  BY <1>0, <1>1 DEF SerialInv, Stands, RowsInv
<1>4. /\ members' = members \cup {i}
      /\ handler' = [handler EXCEPT ![h].todo = @ \ {i}]
      /\ \E plan : setWorkflowDependencyState(plan)
  BY <1>2, <1>3 DEF RecordCompiledWorkItemMembership
<1>5. (saved # NoPlan => saved' # NoPlan) /\ (saved' # NoPlan => Cause)
  BY <1>4, SavedStays
<1> HIDE DEF i
<1>6. /\ handler'[h].pc = "members" /\ handler'[h].todo = handler[h].todo \ {i}
      /\ handler'[h].kind = handler[h].kind /\ handler'[h].item = handler[h].item
      /\ handler'[h].stage = handler[h].stage
  BY <1>0, <1>1, <1>4 DEF RunTypes, Requests
<1>7. /\ \A j : Recording(j) <=> j \in handler[h].todo
      /\ \A j : Recording(j)' <=> j \in handler[h].todo \ {i}
      /\ \A j : ~Capturing(j)
  BY <1>1, <1>6, OneRequest
<1>8. \A j : Known(j)' <=> Known(j)
  BY <1>2, <1>4, <1>7 DEF Known
<1>9. saved' # NoPlan => Cause'
  BY <1>0, <1>1, <1>5 DEF Cause
<1>10. Stands(h)'
  <2>1. \A j, k : SameStep(j, k)' <=> SameStep(j, k)
    BY <1>1 DEF SameStep
  <2>2. \A j \in handler[h].todo \ {i} : j \notin members'
    BY <1>3, <1>4
  <2>3. handler[h].kind = "complete" => handler[h].item \in members'
    BY <1>3, <1>4
  <2> QED
    BY <1>0, <1>1, <1>3, <1>6, <2>1, <2>2, <2>3 DEF Stands
<1> QED
  BY <1>1, <1>3, <1>5, <1>7, <1>8, <1>9, <1>10, QuietStep

(* The memberships are all recorded.                                       *)
LEMMA RecordedSerial ==
    ASSUME SerialInv, OutputsInv', SerialTypes', StepsTogether(workflow), NEW h, Handlers = {h},
           MembershipsRecorded(h)
    PROVE  SerialInv'
<1>0. RunTypes /\ h \in Handlers
  BY DEF SerialInv, OutputsInv
<1>1. /\ handler[h].pc = "members" /\ handler[h].todo = {}
      /\ UNCHANGED <<workflow, createdAt, queuedAt, running, terminal, planned, members, facts, saved, errors>>
  BY DEF MembershipsRecorded, clockVars, storeVars, workVars, planVars, boundVars
<1>2. /\ handler[h].kind \in {"submit", "activate", "complete"} /\ planned
      /\ handler[h].kind = "complete" =>
             /\ handler[h].item \in members /\ terminal[handler[h].item] = "completed"
             /\ handler[h].stage = StageOfItem(workflow, handler[h].item)
  BY <1>0, <1>1 DEF SerialInv, Stands, RowsInv
<1>3. \/ handler[h].kind = "submit" /\ Goto(h, "empty")
      \/ handler[h].kind = "activate" /\ Return(h)
      \/ handler[h].kind = "complete" /\ Goto(h, "activate")
  <2>1. AfterDependents(h) => Goto(h, "activate")
    BY DEF AfterDependents, StepsTogether
  <2>2. CASE handler[h].kind = "submit"
    BY SMT, <2>2 DEF MembershipsRecorded
  <2>3. CASE handler[h].kind = "activate"
    BY SMT, <2>3 DEF MembershipsRecorded
  <2>4. CASE handler[h].kind = "complete"
    BY SMT, <2>1, <2>4 DEF MembershipsRecorded
  <2> QED
    BY <1>2, <2>2, <2>3, <2>4
<1>4. /\ handler'[h].pc \in {"empty", "idle", "activate"}
      /\ Stands(h)'
  <2>1. CASE handler[h].kind = "activate" /\ Return(h)
    BY <1>0, <2>1, ReturnStands
  <2>2. CASE handler[h].kind = "submit" /\ Goto(h, "empty")
    <3>1. handler'[h].pc = "empty" /\ handler'[h].kind = "submit"
      BY <1>0, <2>2, GotoStands
    <3> QED
      BY <3>1 DEF Stands
  <2>3. CASE handler[h].kind = "complete" /\ Goto(h, "activate")
    <3>1. /\ handler'[h].pc = "activate" /\ handler'[h].kind = "complete"
          /\ handler'[h].item = handler[h].item /\ handler'[h].stage = handler[h].stage
      BY <1>0, <2>3, GotoStands
    <3> QED
      BY <1>1, <1>2, <2>3, <3>1 DEF Stands
  <2> QED
    BY <1>3, <2>1, <2>2, <2>3
<1>5. \A j : ~Recording(j) /\ ~Recording(j)' /\ ~Capturing(j)
  BY <1>1, <1>4, OneRequest
<1>6. \A j : Known(j)' <=> Known(j)
  BY <1>1, <1>5 DEF Known
<1>7. saved' # NoPlan => Cause'
  BY <1>1 DEF SerialInv, Cause, Items
<1> QED
  BY <1>1, <1>2, <1>4, <1>5, <1>6, <1>7, QuietStep

(* The steps without items are completed.  A stage that has only such      *)
(* steps leads to the stage after it, with all outputs up to here kept.    *)
LEMMA EmptySerial ==
    ASSUME NoPlanIsNone, SerialInv, OutputsInv', SerialTypes', NEW h, Handlers = {h},
           markCompiledStageEmptyStepsCompleted(h)
    PROVE  SerialInv'
<1> DEFINE n == handler[h].stage
           empty == {s \in StepsOf(workflow, n) : /\ \A i \in Items : workflow.stepOf[i] # s
                                                  /\ Plan.step[s] \notin {"completed", "failed"}}
           plan == [Plan EXCEPT !.step = [s \in Steps(workflow) |->
                                            IF s \in empty THEN "completed" ELSE @[s]]]
           all == empty # {} /\ \A s \in StepsOf(workflow, n) : plan.step[s] = "completed"
<1>0. /\ RunTypes /\ h \in Handlers /\ n \in Nat /\ members \subseteq Items
      /\ Items' = Items /\ Informed(h)
  BY DEF SerialInv, OutputsInv, SerialTypes, RunTypes, Requests, Items, clockVars,
     markCompiledStageEmptyStepsCompleted
<1>1. /\ handler[h].pc = "empty" /\ facts' = facts \cup empty
      /\ UNCHANGED <<workflow, createdAt, queuedAt, running, terminal, planned, members, errors>>
  BY DEF markCompiledStageEmptyStepsCompleted, clockVars, storeVars, workVars, boundVars
<1>2. planned /\ (handler[h].kind = "activate" => \A i \in Stored : StageOfItem(workflow, i) < n)
  BY <1>0, <1>1 DEF SerialInv, Stands, RowsInv
<1>3. saved' = saved \/ \E p : setWorkflowDependencyState(p)
  BY DEF markCompiledStageEmptyStepsCompleted
<1>4. (saved # NoPlan => saved' # NoPlan) /\ (saved' # NoPlan => Cause)
  BY <1>3, SavedStays DEF SerialInv
<1>5. saved' # NoPlan => Cause'
  BY <1>0, <1>1, <1>4 DEF Cause
<1>6. \/ handler[h].kind = "submit" /\ Goto(h, "activate")
      \/ handler[h].kind = "activate" /\ all /\ Goto(h, "advance")
      \/ handler[h].kind = "activate" /\ Goto(h, "queue")
      \/ Return(h)
  BY DEF markCompiledStageEmptyStepsCompleted
<1>7. \A s \in StepsOf(workflow, n) : plan.step[s] = IF s \in empty THEN "completed" ELSE Plan.step[s]
  <2>1. Plan = [member |-> Plan.member, step |-> Plan.step, failed |-> Plan.failed]
    BY DEF Plan, DerivePlan
  <2>2. StepsOf(workflow, n) \subseteq Steps(workflow)
    BY DEF StepsOf
  <2> HIDE DEF n, empty
  <2> QED
    BY SMT, <2>1, <2>2
<1>8. ASSUME all, handler[h].kind = "activate", ~Cause,
             NEW s \in Steps(workflow), workflow.stageOf[s] <= n
      PROVE  s \in facts'
  <2>1. workflow.stageOf[s] < n \/ workflow.stageOf[s] = n
    <3>1. workflow.stageOf[s] \in Nat
      BY <1>0, StagesAreNumbers DEF RunTypes
    <3> QED
      BY ONLY <1>0, <1>8, <3>1
  <2>2. CASE workflow.stageOf[s] < n
    BY <1>0, <1>1, <2>2 DEF Informed
  <2>3. CASE workflow.stageOf[s] = n
    <3>1. s \in StepsOf(workflow, n) /\ saved = NoPlan
      BY <1>8, <2>3 DEF StepsOf, SerialInv
    <3>2. s \in empty \/ Plan.step[s] = "completed"
      BY <1>7, <1>8, <3>1
    <3>3. MembersOf(s) = {}
      <4> SUFFICES ASSUME NEW m \in MembersOf(s) PROVE FALSE
        OBVIOUS
      <4>1. m \in members /\ m \in Items /\ StageOfItem(workflow, m) = n
        BY <1>0, <2>3 DEF MembersOf, StageOfItem
      <4>2. m \in Stored
        BY <4>1 DEF SerialInv, MembershipsInv, RowsInv, Known
      <4>3. n < n
        BY <1>2, <1>8, <4>1, <4>2
      <4> QED
        BY ONLY <1>0, <4>3
    <3> QED
      BY <1>0, <1>1, <3>1, <3>2, <3>3, StepState
  <2> QED
    BY <2>1, <2>2, <2>3
<1> HIDE DEF all, plan
<1>9. Stored' = Stored /\ (Cause' <=> Cause)
  BY <1>0, <1>1 DEF Stored, Cause
<1>10. Stands(h)' /\ handler'[h].pc \in {"activate", "advance", "queue", "idle"}
  <2>1. CASE Return(h)
    BY <1>0, <2>1, ReturnStands
  <2>2. CASE handler[h].kind = "submit" /\ Goto(h, "activate")
    <3>1. handler'[h].pc = "activate" /\ handler'[h].kind = "submit"
      BY <1>0, <2>2, GotoStands
    <3> QED
      BY <3>1 DEF Stands
  <2>3. CASE handler[h].kind = "activate" /\ all /\ Goto(h, "advance")
    <3>1. handler'[h].pc = "advance" /\ handler'[h].kind = "activate" /\ handler'[h].stage = n
      BY <1>0, <2>3, GotoStands
    <3>2. \A i \in Stored : StageOfItem(workflow, i) <= n
      <4>1. \A i \in Stored : StageOfItem(workflow, i) \in Nat
        BY <1>0, StagesAreNumbers DEF RunTypes, Stored, Items
      <4>2. \A i \in Stored : StageOfItem(workflow, i) < n
        BY <1>2, <2>3
      <4> QED
        BY ONLY <1>0, <4>1, <4>2
    <3> QED
      BY <1>1, <1>8, <1>9, <2>3, <3>1, <3>2 DEF Stands
  <2>4. CASE handler[h].kind = "activate" /\ Goto(h, "queue")
    <3>1. handler'[h].pc = "queue" /\ handler'[h].kind = "activate" /\ handler'[h].stage = n
      BY <1>0, <2>4, GotoStands
    <3> QED
      BY <1>1, <1>2, <1>9, <2>4, <3>1 DEF Stands
  <2> QED
    BY <1>6, <2>1, <2>2, <2>3, <2>4
<1>11. \A j : ~Recording(j) /\ ~Recording(j)' /\ ~Capturing(j)
  BY <1>1, <1>10, OneRequest
<1>12. \A j : Known(j)' <=> Known(j)
  BY <1>1, <1>11 DEF Known
<1>13. \A s \in facts' \ facts : StepDone(s)
  BY <1>1 DEF StepDone
<1> QED
  BY <1>1, <1>2, <1>4, <1>5, <1>10, <1>11, <1>12, <1>13, QuietStep

(* A stage that reads as blocked has nothing stored, and neither have the  *)
(* stages after it.                                                        *)
LEMMA BlockedUnstored ==
    ASSUME SerialInv, saved = NoPlan, \A j : ~Recording(j), NEW n \in Stages(workflow), n \in Nat,
           StageState(n) = "blocked"
    PROVE  /\ \A i \in Stored : StageOfItem(workflow, i) < n
           /\ \A s \in StepsOf(workflow, n) : s \notin facts
<1>0. RunTypes /\ members \subseteq Items
  BY DEF SerialInv, OutputsInv, SerialTypes
<1>1. \A s \in Steps(workflow) : workflow.stageOf[s] = n => Plan.step[s] = "blocked"
  <2>1. \A s \in StepsOf(workflow, n) : Plan.step[s] \in StepStates => Plan.step[s] = "blocked"
    BY StageStates
  <2> QED
    BY <1>0, <2>1, StepState DEF StepsOf
<1>2. \A s \in Steps(workflow) : workflow.stageOf[s] = n => s \notin facts
  <2> SUFFICES ASSUME NEW s \in Steps(workflow), workflow.stageOf[s] = n, s \in facts PROVE FALSE
    OBVIOUS
  <2>1. Plan.step[s] = "failed" \/ Plan.step[s] = "completed"
    BY <1>0, StepState
  <2> QED
    BY SMT, <1>1, <2>1
<1>3. ASSUME NEW i \in Stored PROVE StageOfItem(workflow, i) < n
  <2>1. StageOfItem(workflow, i) # n
    <3> SUFFICES ASSUME StageOfItem(workflow, i) = n PROVE FALSE
      OBVIOUS
    <3>1. PICK j \in Items : Known(j) /\ SameStage(i, j)
      BY DEF SerialInv, MembershipsInv
    <3>2. /\ j \in MembersOf(workflow.stepOf[j]) /\ workflow.stepOf[j] \in Steps(workflow)
          /\ workflow.stageOf[workflow.stepOf[j]] = n
      BY <1>0, <3>1, WorkflowRunAssumption DEF Known, MembersOf, SameStage, StageOfItem, RunTypes, Items
    <3> QED
      BY <1>0, <1>1, <3>2, StepState
  <2>2. ~(n < StageOfItem(workflow, i))
    <3> SUFFICES ASSUME n < StageOfItem(workflow, i) PROVE FALSE
      OBVIOUS
    <3>1. PICK s \in Steps(workflow) : workflow.stageOf[s] = n
      BY DEF Stages
    <3> QED
      BY <1>2, <3>1 DEF SerialInv, OutputsInv, OutputsPrecede
  <2>3. StageOfItem(workflow, i) \in Nat
    BY <1>0, StagesAreNumbers DEF RunTypes, Stored, Items
  <2> QED
    BY ONLY <2>1, <2>2, <2>3, n \in Nat
<1> QED
  BY <1>2, <1>3 DEF StepsOf

(* The next stage is taken up where no item of it, or of a later one, is   *)
(* stored, and where the outputs before it are kept unless the run has a   *)
(* cause to fail.                                                          *)
LEMMA AdvanceFromSerial ==
    ASSUME SerialInv, OutputsInv', SerialTypes', NEW h, Handlers = {h}, NEW n \in Nat,
           handler[h].pc \in {"activate", "advance"}, AdvanceFrom(h, n),
           UNCHANGED <<workflow, createdAt, queuedAt, running, terminal, planned, members, facts, saved>>,
           n + 1 \in Stages(workflow) /\ StageState(n + 1) = "blocked" =>
               \A i \in Stored : StageOfItem(workflow, i) < n + 1,
           Cause \/ \A s \in Steps(workflow) : workflow.stageOf[s] < n + 1 => s \in facts
    PROVE  SerialInv'
<1>0. RunTypes /\ h \in Handlers /\ members \subseteq Items /\ Items' = Items /\ errors \in Nat /\ planned
  BY DEF SerialInv, OutputsInv, SerialTypes, Items, RowsInv
<1>1. Cause \/ OutputsAvailable(n + 1)
  <2> SUFFICES ASSUME ~Cause, NEW s \in Steps(workflow), workflow.stageOf[s] < n + 1
               PROVE  Plan.step[s] = "completed" /\ s \in facts
    BY DEF OutputsAvailable
  <2>1. s \in facts /\ saved = NoPlan
    BY DEF SerialInv
  <2>2. Plan.step[s] # "failed"
    BY <1>0, <2>1, StepState DEF Cause, MembersOf
  <2> QED
    BY <1>0, <2>1, <2>2, StepState
<1>2. \/ Return(h) /\ errors' = errors
      \/ /\ n + 1 \in Stages(workflow) /\ StageState(n + 1) = "blocked" /\ errors' = errors
         /\ handler' = [handler EXCEPT ![h].pc = "empty", ![h].kind = "activate", ![h].stage = n + 1]
      \/ /\ n + 1 \in Stages(workflow) /\ StageState(n + 1) = "blocked"
         /\ errors' = errors + 1 \/ (errors' = errors /\ ~OutputsAvailable(n + 1))
         /\ handler' = [handler EXCEPT ![h].pc = "fail_stage", ![h].kind = "activate", ![h].stage = n + 1]
  BY DEF AdvanceFrom
<1>3. /\ errors' >= errors
      /\ errors' = errors + 1 => errors' > 0
  <2>1. errors' = errors \/ errors' = errors + 1
    BY <1>2
  <2> QED
    BY ONLY <1>0, <2>1
<1>4. Cause => Cause'
  <2>1. errors > 0 => errors' > 0
    <3>1. errors' \in Nat
      BY DEF SerialTypes
    <3> QED
      BY ONLY <1>0, <1>3, <3>1
  <2> QED
    BY <1>0, <2>1 DEF Cause
<1>5. Stored' = Stored
  BY <1>0 DEF Stored
<1>6. Stands(h)' /\ handler'[h].pc \in {"idle", "empty", "fail_stage"}
  <2>1. CASE Return(h)
    BY <1>0, <2>1, ReturnStands
  <2>2. CASE /\ n + 1 \in Stages(workflow) /\ StageState(n + 1) = "blocked"
             /\ handler' = [handler EXCEPT ![h].pc = "empty", ![h].kind = "activate", ![h].stage = n + 1]
    <3>1. handler'[h].pc = "empty" /\ handler'[h].kind = "activate" /\ handler'[h].stage = n + 1
      BY <1>0, <2>2 DEF RunTypes, Requests
    <3> QED
      BY <1>5, <2>2, <3>1 DEF Stands
  <2>3. CASE /\ n + 1 \in Stages(workflow) /\ StageState(n + 1) = "blocked"
             /\ errors' = errors + 1 \/ (errors' = errors /\ ~OutputsAvailable(n + 1))
             /\ handler' = [handler EXCEPT ![h].pc = "fail_stage", ![h].kind = "activate", ![h].stage = n + 1]
    <3>1. handler'[h].pc = "fail_stage" /\ handler'[h].kind = "activate" /\ handler'[h].stage = n + 1
      BY <1>0, <2>3 DEF RunTypes, Requests
    <3>2. Cause'
      BY <1>1, <1>3, <1>4, <2>3 DEF Cause
    <3>3. ASSUME saved = NoPlan PROVE \E s \in StepsOf(workflow, n + 1) : Untouched(s)
      <4>1. n + 1 \in Nat
        BY ONLY n \in Nat
      <4>2. \A j : ~Recording(j)
        BY OneRequest
      <4>3. /\ \A i \in Stored : StageOfItem(workflow, i) < n + 1
            /\ \A s \in StepsOf(workflow, n + 1) : s \notin facts
        BY <2>3, <3>3, <4>1, <4>2, BlockedUnstored
      <4>4. \A i \in Stored : StageOfItem(workflow, i) # n + 1
        BY SMT, <4>1, <4>3
      <4>5. PICK s \in StepsOf(workflow, n + 1) : workflow.stageOf[s] = n + 1
        BY <2>3 DEF Stages, StepsOf
      <4> QED
        BY <4>3, <4>4, <4>5 DEF Untouched, StageOfItem
    <3>4. \A s : Untouched(s)' <=> Untouched(s)
      BY <1>5 DEF Untouched
    <3> QED
      BY <3>1, <3>2, <3>3, <3>4 DEF Stands
  <2> QED
    BY <1>2, <2>1, <2>2, <2>3
<1>7. \A j : ~Recording(j) /\ ~Recording(j)' /\ ~Capturing(j)
  BY <1>6, OneRequest
<1>8. \A j : Known(j)' <=> Known(j)
  BY <1>7 DEF Known
<1>9. saved' # NoPlan => Cause'
  BY <1>4 DEF SerialInv
<1> QED
  BY <1>0, <1>6, <1>7, <1>8, <1>9, QuietStep

(* A stage that reads as completed has all its outputs, and so have the    *)
(* stages before it.                                                       *)
LEMMA ActivateSerial ==
    ASSUME SerialInv, OutputsInv', SerialTypes', NEW h, Handlers = {h}, activateNextReadyWorkflowStage(h)
    PROVE  SerialInv'
<1> DEFINE n == handler[h].stage
<1>0. RunTypes /\ h \in Handlers /\ members \subseteq Items /\ Items' = Items /\ n \in Nat /\ Informed(h)
  BY DEF SerialInv, OutputsInv, SerialTypes, RunTypes, Requests, Items, clockVars,
     activateNextReadyWorkflowStage
<1>1. /\ handler[h].pc = "activate"
      /\ UNCHANGED <<workflow, createdAt, queuedAt, running, terminal, planned, members, facts, saved>>
  BY DEF activateNextReadyWorkflowStage, clockVars, storeVars, workVars, planVars
<1>2. /\ handler[h].kind \in {"submit", "complete"} /\ planned
      /\ handler[h].kind = "complete" =>
             handler[h].item \in members /\ n = StageOfItem(workflow, handler[h].item)
  BY <1>0, <1>1 DEF SerialInv, Stands, RowsInv
<1>3. \A j : ~Recording(j) /\ ~Capturing(j)
  BY <1>1, OneRequest
<1>4. CASE PlanState = "running" /\ StageState(n) = "completed" /\ AdvanceFrom(h, n)
  <2>1. saved = NoPlan
    BY SMT, <1>0, <1>4, RunStates
  <2>2. ASSUME n + 1 \in Stages(workflow), StageState(n + 1) = "blocked"
        PROVE  \A i \in Stored : StageOfItem(workflow, i) < n + 1
    <3>1. n + 1 \in Nat
      BY ONLY <1>0
    <3> QED
      BY <1>3, <2>1, <2>2, <3>1, BlockedUnstored
  <2>3. ASSUME NEW s \in Steps(workflow), workflow.stageOf[s] < n + 1 PROVE s \in facts
    <3>1. workflow.stageOf[s] \in Nat
      BY <1>0, StagesAreNumbers DEF RunTypes
    <3>2. workflow.stageOf[s] < n \/ workflow.stageOf[s] = n
      BY ONLY <1>0, <2>3, <3>1
    <3>3. CASE workflow.stageOf[s] = n
      <4>1. Plan.step[s] = "completed"
        BY <1>4, <3>3, StageStates DEF StepsOf
      <4>2. StepDone(s)
        BY <2>1, <4>1, CompletedStepDone
      <4>3. s \in facts \/ \E i \in Items : workflow.stepOf[i] = s
        BY <1>0, <2>1, <4>1, StepState DEF MembersOf
      <4> QED
        BY <1>3, <2>1, <4>2, <4>3 DEF SerialInv, FactsInv
    <3>4. CASE workflow.stageOf[s] < n
      <4>1. CASE handler[h].kind = "submit"
        <5>1. n = 0
          BY <1>0, <4>1 DEF Informed
        <5> QED
          BY ONLY <3>1, <3>4, <5>1
      <4>2. CASE handler[h].kind = "complete"
        <5>1. handler[h].item \in Stored
          BY <1>0, <1>2, <4>2 DEF SerialInv, MembershipsInv, RowsInv, Known
        <5> QED
          BY <1>2, <3>4, <4>2, <5>1 DEF SerialInv, OutputsInv, OutputsPrecede
      <4> QED
        BY <1>2, <4>1, <4>2
    <3> QED
      BY <3>2, <3>3, <3>4
  <2> HIDE DEF n
  <2> QED
    BY <1>0, <1>1, <1>4, <2>2, <2>3, AdvanceFromSerial
<1>5. CASE Return(h) /\ errors' = errors
  <2>1. Stands(h)' /\ handler'[h].pc = "idle"
    BY <1>0, <1>5, ReturnStands
  <2>2. \A j : ~Recording(j)'
    BY <2>1, OneRequest
  <2>3. \A j : Known(j)' <=> Known(j)
    BY <1>1, <1>3, <2>2 DEF Known
  <2>4. saved' # NoPlan => Cause'
    BY <1>1, <1>5 DEF SerialInv, Cause, Items
  <2> QED
    BY <1>1, <1>2, <1>3, <2>1, <2>3, <2>4, QuietStep
<1> QED
  BY <1>4, <1>5 DEF activateNextReadyWorkflowStage

(* The loop goes on from a stage without work.                             *)
LEMMA AdvanceSerial ==
    ASSUME SerialInv, OutputsInv', SerialTypes', NEW h, Handlers = {h}, ContinueActivation(h)
    PROVE  SerialInv'
<1> DEFINE n == handler[h].stage
<1>0. RunTypes /\ h \in Handlers /\ n \in Nat
  BY DEF SerialInv, OutputsInv, RunTypes, Requests
<1>1. /\ handler[h].pc = "advance" /\ AdvanceFrom(h, n)
      /\ UNCHANGED <<workflow, createdAt, queuedAt, running, terminal, planned, members, facts, saved>>
  BY DEF ContinueActivation, clockVars, storeVars, workVars, planVars
<1>2. /\ \A i \in Stored : StageOfItem(workflow, i) <= n
      /\ Cause \/ \A s \in Steps(workflow) : workflow.stageOf[s] <= n => s \in facts
  BY <1>0, <1>1 DEF SerialInv, Stands
<1>3. /\ \A i \in Stored : StageOfItem(workflow, i) \in Nat
      /\ \A s \in Steps(workflow) : workflow.stageOf[s] \in Nat
  BY <1>0, StagesAreNumbers DEF RunTypes, Stored, Items
<1>4. /\ \A i \in Stored : StageOfItem(workflow, i) < n + 1
      /\ \A s \in Steps(workflow) : workflow.stageOf[s] < n + 1 => workflow.stageOf[s] <= n
  BY ONLY <1>0, <1>2, <1>3
<1>5. Cause \/ \A s \in Steps(workflow) : workflow.stageOf[s] < n + 1 => s \in facts
  BY <1>2, <1>4
<1> HIDE DEF n
<1> QED
  BY <1>0, <1>1, <1>4, <1>5, AdvanceFromSerial

(* Every step of a controller that serves one request at a time keeps the  *)
(* invariant.                                                              *)
LEMMA NextSerial ==
    ASSUME OneAtATime, NoPlanIsNone, \A w \in Workflows : StepsTogether(w), SerialInv, HeldInv,
           [Next]_vars
    PROVE  SerialInv'
<1>1. StepsTogether(workflow) /\ RunTypes /\ OutputsInv /\ SerialTypes
  BY DEF SerialInv, OutputsInv, RunTypes
<1>2. OutputsInv'
  BY <1>1, NextOutputs
<1>3. SerialTypes'
  BY <1>1, SerialTypesKept
<1>4. ASSUME NEW h \in Handlers PROVE Handlers = {h}
  BY DEF OneAtATime
<1>5. CASE UNCHANGED vars \/ Tick
  <2>1. /\ UNCHANGED <<workflow, createdAt, queuedAt, running, terminal>>
        /\ UNCHANGED <<planned, members, facts, saved, errors, handler>>
    BY <1>5 DEF vars, Tick, clockVars, storeVars, workVars, planVars, boundVars
  <2>2. \A j \in Items : Touched(j)' <=> Touched(j)
    BY <2>1 DEF Touched, Queued, Items
  <2>3. QueuedOnce' /\ \A j \in running' : terminal'[j] = "none"
    BY <2>1 DEF SerialInv, RowsInv, QueuedOnce, Queued, Items
  <2> QED
    BY <1>2, <1>3, <2>1, <2>2, <2>3, WorkStep
<1>6. ~Crash
  <2>1. crashes \in Nat /\ MaxCrashes = 0
    BY <1>1 DEF SerialTypes, OneAtATime
  <2>2. ~(crashes < MaxCrashes)
    BY ONLY <2>1
  <2> QED
    BY <2>2 DEF Crash
<1>7. ASSUME NEW h \in Handlers, HandlerStep(h) PROVE SerialInv'
  BY <1>1, <1>2, <1>3, <1>4, <1>7, CaptureSerial, FactSerial, SaveSerial, RecordFailureSerial, FailStageSerial,
     DependentsSerial, EnqueueSerial, QueueSerial, RecordMembershipSerial, RecordedSerial, EmptySerial,
     ActivateSerial, AdvanceSerial DEF HandlerStep
<1>8. ASSUME NEW h \in Handlers, submitAdmittedWorkflow(h) PROVE SerialInv'
  BY <1>2, <1>3, <1>4, <1>8, SubmitSerial
<1>9. ASSUME NEW i \in Items, ClaimNextWork(i) \/ RecoverWork(i) PROVE SerialInv'
  BY <1>2, <1>3, <1>9, ClaimSerial, RecoverSerial
<1>10. ASSUME NEW h \in Handlers, NEW i \in Items, Report(h, i) \/ Replay(h, i) PROVE SerialInv'
  BY <1>1, <1>2, <1>3, <1>4, <1>10, ReportSerial, ReplaySerial
<1> QED
  BY <1>1, <1>5, <1>6, <1>7, <1>8, <1>9, <1>10, ReplayOfItem DEF Next, Progress

(* Nothing has happened at first.                                          *)
LEMMA InitSerial == Init => SerialInv /\ HeldInv
<1> SUFFICES ASSUME Init PROVE SerialInv /\ HeldInv
  OBVIOUS
<1>1. OutputsInv
  BY SMT, InitTypes DEF Init, OutputsInv, OutputsPrecede, Stored, Informed, Idle
<1>2. /\ Stored = {} /\ Queued = {} /\ running = {} /\ members = {} /\ facts = {} /\ saved = NoPlan
      /\ \A i \in Items : terminal[i] = "none"
  BY DEF Init, Stored, Queued
<1>3. \A h \in Handlers : handler[h].pc = "idle" /\ handler[h].kind = "none" /\ handler[h].at = 0
  BY SMT DEF Init, Idle
<1>4. \A i \in Items : ~Touched(i) /\ ~Known(i)
  BY SMT, <1>2, <1>3 DEF Touched, Known, Recording
<1>5. SerialTypes
  BY SMT, <1>2, <1>3 DEF Init, SerialTypes
<1>6. RowsInv
  BY SMT, <1>2, <1>3, <1>4 DEF RowsInv, QueuedOnce
<1>7. MembershipsInv
  BY <1>2, <1>4 DEF MembershipsInv
<1>8. FactsInv
  <2>1. \A i \in Items : ~StepDone(workflow.stepOf[i])
    <3> SUFFICES ASSUME NEW i \in Items, StepDone(workflow.stepOf[i]) PROVE FALSE
      OBVIOUS
    <3>1. terminal[i] = "completed" /\ terminal[i] = "none"
      BY <1>2 DEF StepDone
    <3> QED
      BY SMT, <3>1
  <2> QED
    BY <1>2, <2>1 DEF FactsInv
<1>9. \A h \in Handlers : Stands(h)
  BY SMT, <1>3 DEF Stands
<1> QED
  <2>1. HeldInv
    <3>1. \A h \in Handlers : unsaved[h] = NoPlan
      BY DEF Init
    <3> QED
      BY SMT, <1>3, <3>1 DEF HeldInv
  <2> QED
    BY <1>1, <1>2, <1>5, <1>6, <1>7, <1>8, <1>9, <2>1 DEF SerialInv

-----------------------------------------------------------------------------
(* A run reads as failed when it has one of the two.                       *)
LEMMA FailedState == SerialInv => (PlanState = "failed" <=> Failed)
<1> SUFFICES ASSUME SerialInv PROVE PlanState = "failed" <=> Failed
  OBVIOUS
<1>1. RunTypes /\ members \subseteq Items
  BY DEF SerialInv, OutputsInv, SerialTypes
<1>2. ASSUME PlanState = "failed" PROVE Failed
  <2>1. planned /\ (saved # NoPlan \/ \E s \in Steps(workflow) : Plan.step[s] = "failed")
    BY <1>1, <1>2, RunStates
  <2>2. ASSUME saved = NoPlan, NEW s \in Steps(workflow), Plan.step[s] = "failed"
        PROVE  \E i \in members : terminal[i] = "failed"
    BY <1>1, <2>2, StepState DEF MembersOf
  <2> QED
    BY <2>1, <2>2 DEF Failed
<1>3. ASSUME Failed PROVE PlanState = "failed"
  <2>1. CASE saved # NoPlan
    BY <1>1, <1>3, <2>1, RunStates DEF Failed
  <2>2. CASE saved = NoPlan
    <3>1. PICK i \in members : terminal[i] = "failed"
      BY <1>3, <2>2 DEF Failed
    <3>2. workflow.stepOf[i] \in Steps(workflow) /\ i \in MembersOf(workflow.stepOf[i])
      BY <1>1, WorkflowRunAssumption DEF RunTypes, Items, MembersOf
    <3>3. Plan.step[workflow.stepOf[i]] = "failed"
      BY <1>1, <2>2, <3>1, <3>2, StepState
    <3> QED
      BY <1>1, <1>3, <3>2, <3>3, RunStates DEF Failed
  <2> QED
    BY <2>1, <2>2
<1> QED
  BY <1>2, <1>3

(* What no step takes back: a saved plan is only replaced by another, a    *)
(* membership and an output stay, and settled work is not taken up again.  *)
LEMMA RunKeeps ==
    ASSUME NoPlanIsNone, SerialInv, HeldInv, planned, [Next]_vars
    PROVE  /\ workflow' = workflow /\ planned' /\ (saved # NoPlan => saved' # NoPlan)
           /\ members \subseteq members' /\ facts \subseteq facts' /\ (errors > 0 => errors' > 0)
           /\ \A j \in Items : terminal[j] # "none" => terminal'[j] = terminal[j]
<1> USE DEF clockVars, storeVars, workVars, planVars, boundVars
<1>0. RunTypes /\ errors \in Nat
  BY DEF SerialInv, OutputsInv, SerialTypes
<1>1. ASSUME NEW h \in Handlers, HandlerStep(h)
      PROVE  /\ UNCHANGED <<workflow, planned, terminal>> /\ members \subseteq members' /\ facts \subseteq facts'
             /\ saved # NoPlan => saved' # NoPlan
             /\ errors' \in {errors, errors + 1}
  <2>1. UNCHANGED <<workflow, planned, terminal>> /\ facts \subseteq facts'
    BY <1>1, RequestKeeps
  <2>2. members \subseteq members' /\ errors' \in {errors, errors + 1}
    BY <1>1 DEF HandlerStep, CaptureOutput, upsertWorkflowStepOutputFact, SaveFailedPlan,
       RecordWorkItemTerminalFailure, markWorkflowStageActivationFailed, enqueueReadyAssetMaterializeDependents,
       EnqueueWorkItems, QueueWorkItems, RecordCompiledWorkItemMembership, MembershipsRecorded,
       markCompiledStageEmptyStepsCompleted, activateNextReadyWorkflowStage, ContinueActivation, AdvanceFrom
  <2>3. \/ saved' = saved
        \/ \E plan : setWorkflowDependencyState(plan)
        \/ RecordWorkItemTerminalFailure(h) \/ markWorkflowStageActivationFailed(h)
        \/ SaveFailedPlan(h)
    BY <1>1 DEF HandlerStep, CaptureOutput, upsertWorkflowStepOutputFact,
       enqueueReadyAssetMaterializeDependents, EnqueueWorkItems,
       QueueWorkItems, RecordCompiledWorkItemMembership, MembershipsRecorded,
       markCompiledStageEmptyStepsCompleted, activateNextReadyWorkflowStage, ContinueActivation
  <2>4. RecordWorkItemTerminalFailure(h) \/ markWorkflowStageActivationFailed(h) =>
            saved' = saved \/ saved' # NoPlan
    BY DEF RecordWorkItemTerminalFailure, markWorkflowStageActivationFailed, NoPlanIsNone
  <2>5. SaveFailedPlan(h) => saved' # NoPlan
    BY <1>1 DEF SaveFailedPlan, HeldInv
  <2> QED
    BY <2>1, <2>2, <2>3, <2>4, <2>5, SavedStays
<1>2. ASSUME ~(\E h \in Handlers : HandlerStep(h))
      PROVE  /\ UNCHANGED <<workflow, planned, saved, members, facts, errors>>
             /\ \/ terminal' = terminal
                \/ \E i \in running : \E o : terminal' = [terminal EXCEPT ![i] = o]
  <2>0. \A h : ~submitAdmittedWorkflow(h)
    BY DEF submitAdmittedWorkflow
  <2>1. UNCHANGED <<workflow, planned, saved, members, facts, errors>>
    BY <1>2, <2>0 DEF Next, Progress, vars, Tick, Crash, RequestsLost, ClaimNextWork, RecoverWork,
       Report, completePersistedWorkHandler, failPersistedWorkHandler, ReplayReport
  <2>2. \/ terminal' = terminal
        \/ \E i \in running : \E o : terminal' = [terminal EXCEPT ![i] = o]
    BY <1>2 DEF Next, Progress, vars, Tick, Crash, RequestsLost, submitAdmittedWorkflow, ClaimNextWork, RecoverWork,
       Report, completePersistedWorkHandler, failPersistedWorkHandler, ReplayReport, SettleAttempt
  <2> QED
    BY <2>1, <2>2
<1>3. ASSUME NEW j \in Items, terminal[j] # "none", ~(\E h \in Handlers : HandlerStep(h))
      PROVE  terminal'[j] = terminal[j]
  <2>1. \A i \in running : i # j
    BY <1>3 DEF SerialInv, RowsInv
  <2> QED
    BY <1>0, <1>2, <1>3, <2>1 DEF RunTypes
<1>4. errors > 0 => errors' > 0
  <2>1. errors' = errors \/ errors' = errors + 1
    BY <1>1, <1>2
  <2> QED
    BY ONLY <1>0, <2>1
<1> QED
  BY <1>1, <1>2, <1>3, <1>4

(* So a failed run stays failed.                                           *)
LEMMA FailedStays ==
    ASSUME NoPlanIsNone, SerialInv, HeldInv, Failed, [Next]_vars
    PROVE  Failed'
<1>1. members \subseteq Items
  BY DEF SerialInv, SerialTypes
<1>2. \A i \in members : terminal[i] = "failed" => i \in members' /\ terminal'[i] = "failed"
  <2>1. "failed" # "none"
    BY SMT
  <2> QED
    BY <1>1, <2>1, RunKeeps DEF Failed
<1> QED
  BY <1>2, RunKeeps DEF Failed

(* A request takes up a failed plan with the output it captures, and lets  *)
(* go of it when it saves it.                                              *)
LEMMA HeldKept ==
    ASSUME NoPlanIsNone, SerialInv, HeldInv, [Next]_vars
    PROVE  HeldInv'
<1> USE DEF clockVars, storeVars, workVars, planVars, boundVars
<1>0. RunTypes /\ RunTypes'
  BY NextTypes DEF SerialInv, OutputsInv
<1>1. Failed => Failed'
  BY FailedStays
<1>2. ASSUME NEW h \in Handlers, HandlerStep(h) PROVE HeldInv'
  <2>1. \A g \in Handlers \ {h} : handler'[g] = handler[g]
    <3>1. \E r : handler' = [handler EXCEPT ![h] = r]
      BY <1>0, <1>2, RequestMoves
    <3> QED
      BY <1>0, <3>1 DEF RunTypes
  <2>2. \A g \in Handlers \ {h} : unsaved'[g] = unsaved[g]
    <3>1. unsaved' = unsaved \/ \E plan : unsaved' = [unsaved EXCEPT ![h] = plan]
      BY <1>2 DEF HandlerStep, CaptureOutput, upsertWorkflowStepOutputFact, SaveFailedPlan,
         RecordWorkItemTerminalFailure, markWorkflowStageActivationFailed, enqueueReadyAssetMaterializeDependents,
         EnqueueWorkItems, QueueWorkItems, RecordCompiledWorkItemMembership, MembershipsRecorded,
         markCompiledStageEmptyStepsCompleted, activateNextReadyWorkflowStage, ContinueActivation
    <3> QED
      BY <1>0, <3>1 DEF RunTypes
  <2>3. SUFFICES /\ unsaved'[h] # NoPlan => Failed' /\ handler'[h].pc \in {"fact", "save"}
                 /\ handler'[h].pc = "save" => unsaved'[h] # NoPlan
    BY <1>1, <2>1, <2>2 DEF HeldInv
  <2>4. CASE CaptureOutput(h)
    <3>1. unsaved[h] = NoPlan /\ handler[h].pc = "capture"
      <4>1. handler[h].pc = "capture"
        BY <2>4 DEF CaptureOutput
      <4>2. "capture" \notin {"fact", "save"}
        BY SMT
      <4> QED
        BY <4>1, <4>2 DEF HeldInv
    <3>2. CASE UNCHANGED unsaved /\ \E pc \in {"record_failure", "dependents"} : Goto(h, pc)
      <4>1. handler'[h].pc \in {"record_failure", "dependents"}
        BY <1>0, <3>2, GotoStands
      <4>2. handler'[h].pc # "save"
        BY SMT, <4>1
      <4> QED
        BY <3>1, <3>2, <4>2
    <3>3. ASSUME NEW plan, unsaved' = [unsaved EXCEPT ![h] = plan], plan = NoPlan \/ PlanState = "failed",
                 \E pc \in {"fact", AfterFact(plan)} : Goto(h, pc)
          PROVE  /\ unsaved'[h] # NoPlan => Failed' /\ handler'[h].pc \in {"fact", "save"}
                 /\ handler'[h].pc = "save" => unsaved'[h] # NoPlan
      <4>1. unsaved'[h] = plan
        BY <1>0, <3>3 DEF RunTypes
      <4>2. handler'[h].pc \in {"fact", AfterFact(plan)}
        BY <1>0, <3>3, GotoStands
      <4>3. plan # NoPlan => Failed'
        BY <1>1, <3>3, FailedState
      <4>4. AfterFact(plan) = IF plan = NoPlan THEN "dependents" ELSE "save"
        BY DEF AfterFact
      <4>5. /\ plan # NoPlan => handler'[h].pc \in {"fact", "save"}
            /\ handler'[h].pc = "save" => plan # NoPlan
        BY SMT, <4>2, <4>4
      <4> QED
        BY <4>1, <4>3, <4>5
    <3>4. \/ UNCHANGED unsaved /\ \E pc \in {"record_failure", "dependents"} : Goto(h, pc)
          \/ \E plan : /\ unsaved' = [unsaved EXCEPT ![h] = plan] /\ (plan = NoPlan \/ PlanState = "failed")
                       /\ \E pc \in {"fact", AfterFact(plan)} : Goto(h, pc)
      BY <2>4 DEF CaptureOutput
    <3> QED
      BY <3>2, <3>3, <3>4
  <2>5. CASE upsertWorkflowStepOutputFact(h)
    <3>1. unsaved' = unsaved /\ Goto(h, AfterFact(unsaved[h]))
      BY <2>5 DEF upsertWorkflowStepOutputFact
    <3>2. handler'[h].pc = AfterFact(unsaved[h])
      BY <1>0, <3>1, GotoStands
    <3>3. AfterFact(unsaved[h]) = IF unsaved[h] = NoPlan THEN "dependents" ELSE "save"
      BY DEF AfterFact
    <3>4. /\ unsaved[h] # NoPlan => handler'[h].pc = "save"
          /\ handler'[h].pc = "save" => unsaved[h] # NoPlan
      BY SMT, <3>2, <3>3
    <3> QED
      BY <1>1, <3>1, <3>4 DEF HeldInv
  <2>6. CASE SaveFailedPlan(h)
    <3>1. unsaved'[h] = NoPlan /\ Goto(h, "dependents")
      BY <1>0, <2>6 DEF SaveFailedPlan, RunTypes
    <3>2. handler'[h].pc # "save"
      BY SMT, <1>0, <3>1, GotoStands
    <3> QED
      BY <3>1, <3>2
  <2>7. CASE ~(CaptureOutput(h) \/ upsertWorkflowStepOutputFact(h) \/ SaveFailedPlan(h))
    <3>1. unsaved' = unsaved
      BY <1>2, <2>7 DEF HandlerStep, RecordWorkItemTerminalFailure, markWorkflowStageActivationFailed,
         enqueueReadyAssetMaterializeDependents, EnqueueWorkItems, QueueWorkItems, RecordCompiledWorkItemMembership,
         MembershipsRecorded, markCompiledStageEmptyStepsCompleted, activateNextReadyWorkflowStage, ContinueActivation
    <3>2. handler[h].pc \notin {"fact", "save"}
      <4>1. handler[h].pc \in {"record_failure", "fail_stage", "dependents", "enqueue", "queue", "members", "empty",
                             "activate", "advance"}
        BY <1>2, <2>7 DEF HandlerStep, RecordWorkItemTerminalFailure, markWorkflowStageActivationFailed,
           enqueueReadyAssetMaterializeDependents, EnqueueWorkItems, QueueWorkItems,
           RecordCompiledWorkItemMembership, MembershipsRecorded, markCompiledStageEmptyStepsCompleted,
           activateNextReadyWorkflowStage, ContinueActivation
      <4> QED
        BY SMT, <4>1
    <3>3. \/ Return(h)
          \/ \E pc \in {"record_failure", "activate", "members", "fail_stage", "empty", "advance", "queue"} : Goto(h, pc)
          \/ \E pc \in {"members", "enqueue"} : \E todo : handler' = [handler EXCEPT ![h].pc = pc, ![h].todo = todo]
          \/ handler[h].pc = "members" /\ handler' = [handler EXCEPT ![h].todo = @ \ {Min(handler[h].todo)}]
          \/ \E pc \in {"empty", "fail_stage"} :
                handler' = [handler EXCEPT ![h].pc = pc, ![h].kind = "activate", ![h].stage = handler[h].stage + 1]
      <4>1. CASE RecordWorkItemTerminalFailure(h) \/ markWorkflowStageActivationFailed(h)
        BY <4>1 DEF RecordWorkItemTerminalFailure, markWorkflowStageActivationFailed
      <4>2. CASE enqueueReadyAssetMaterializeDependents(h) \/ EnqueueWorkItems(h)
        BY <4>2 DEF enqueueReadyAssetMaterializeDependents, EnqueueWorkItems, AfterDependents
      <4>3. CASE QueueWorkItems(h) \/ RecordCompiledWorkItemMembership(h)
        BY <4>3 DEF QueueWorkItems, RecordCompiledWorkItemMembership, StageError
      <4>4. CASE MembershipsRecorded(h) \/ markCompiledStageEmptyStepsCompleted(h)
        BY <4>4 DEF MembershipsRecorded, AfterDependents, markCompiledStageEmptyStepsCompleted
      <4>5. CASE activateNextReadyWorkflowStage(h) \/ ContinueActivation(h)
        BY <4>5 DEF activateNextReadyWorkflowStage, ContinueActivation, AdvanceFrom
      <4> QED
        BY <1>2, <2>7, <4>1, <4>2, <4>3, <4>4, <4>5 DEF HandlerStep
    <3>4. handler'[h].pc # "save"
      BY SMT, <1>0, <3>3 DEF Goto, Return, Idle, RunTypes, Requests
    <3> QED
      BY <3>1, <3>2, <3>4 DEF HeldInv
  <2> QED
    BY <2>4, <2>5, <2>6, <2>7
<1>3. CASE ~(\E h \in Handlers : HandlerStep(h))
  <2>1. CASE Crash
    <3>1. \A h \in Handlers : unsaved'[h] = NoPlan /\ handler'[h].pc # "save"
      BY SMT, <2>1 DEF Crash, RequestsLost, Idle
    <3> QED
      BY <3>1 DEF HeldInv
  <2>2. ASSUME handler' = handler, unsaved' = unsaved PROVE HeldInv'
    BY <1>1, <2>2 DEF HeldInv
  <2>3. ASSUME NEW h \in Handlers, NEW r, handler[h].pc = "idle", r.pc # "save", unsaved' = unsaved,
               handler' = [handler EXCEPT ![h] = r]
        PROVE  HeldInv'
    <3>1. "idle" \notin {"fact", "save"}
      BY SMT
    <3>2. handler'[h] = r /\ \A g \in Handlers \ {h} : handler'[g] = handler[g]
      BY <1>0, <2>3 DEF RunTypes
    <3> QED
      BY <1>1, <2>3, <3>1, <3>2 DEF HeldInv
  <2>4. ASSUME NEW h \in Handlers, submitAdmittedWorkflow(h) PROVE HeldInv'
    <3>1. PICK pc \in {"empty", "queue"} :
              handler' = [handler EXCEPT ![h] = [Idle EXCEPT !.kind = "submit", !.at = now, !.pc = pc]]
      BY <2>4 DEF submitAdmittedWorkflow
    <3>2. [Idle EXCEPT !.kind = "submit", !.at = now, !.pc = pc].pc # "save"
      BY SMT, <3>1 DEF Idle
    <3> QED
      BY <2>3, <2>4, <3>1, <3>2 DEF submitAdmittedWorkflow
  <2>5. ASSUME NEW h \in Handlers, NEW i \in Items, Report(h, i) \/ Replay(h, i) PROVE HeldInv'
    <3>1. unsaved' = unsaved
      BY <2>5 DEF Report, completePersistedWorkHandler, failPersistedWorkHandler, Replay, ReplayReport
    <3>2. PICK kind, at, pc : Serve(h, kind, i, at, pc) /\ pc \in {"dependents", "capture", "fail_stage", "record_failure"}
      <4>1. CASE Report(h, i)
        BY <4>1 DEF Report, completePersistedWorkHandler, failPersistedWorkHandler, AfterCompletion, AfterFailure
      <4>2. CASE Replay(h, i)
        BY <1>0, <4>2, ReplayServes DEF AfterCompletion, AfterFailure
      <4> QED
        BY <2>5, <4>1, <4>2
    <3>3. pc # "save"
      BY SMT, <3>2
    <3> QED
      BY <2>3, <3>1, <3>2, <3>3 DEF Serve
  <2>6. CASE Tick \/ UNCHANGED vars \/ \E i \in Items : ClaimNextWork(i) \/ RecoverWork(i)
    BY <2>2, <2>6 DEF Tick, vars, ClaimNextWork, RecoverWork
  <2> QED
    BY <1>0, <1>3, <2>1, <2>4, <2>5, <2>6, ReplayOfItem DEF Next, Progress
<1> QED
  BY <1>2, <1>3

(* The inductive invariant of a controller that serves one request at a    *)
(* time, for every workflow whose steps' items wait for the same items.    *)
THEOREM RunSerial ==
    ASSUME OneAtATime, NoPlanIsNone, \A w \in Workflows : StepsTogether(w)
    PROVE  Spec => [](SerialInv /\ HeldInv)
<1>1. SerialInv /\ HeldInv /\ [Next]_vars => SerialInv' /\ HeldInv'
  BY NextSerial, HeldKept
<1> QED
  BY <1>1, InitSerial, PTL DEF Spec

(* One request at a time, an item is stored only when every item of every  *)
(* earlier stage has completed (activateNextReadyWorkflowStage).           *)
THEOREM RunStageOrder ==
    ASSUME OneAtATime, NoPlanIsNone, \A w \in Workflows : StepsTogether(w)
    PROVE  Spec => []StageOrder
BY RunSerial, SerialStageOrder, PTL

(* One request at a time, work that is running or done is never queued     *)
(* again (enqueueWorkItems).                                               *)
THEOREM RunQueuedOnce ==
    ASSUME OneAtATime, NoPlanIsNone, \A w \in Workflows : StepsTogether(w)
    PROVE  Spec => []QueuedOnce
<1>1. SerialInv => QueuedOnce
  BY DEF SerialInv, RowsInv
<1> QED
  BY RunSerial, <1>1, PTL

(* One request at a time, a run reads as completed only when all its work  *)
(* has been stored and has completed (deriveDependencyWorkflowState).      *)
THEOREM RunCompletedMeansDone ==
    ASSUME OneAtATime, NoPlanIsNone, \A w \in Workflows : StepsTogether(w)
    PROVE  Spec => []CompletedMeansDone
BY RunSerial, SerialCompleted, PTL

(* One request at a time, a run fails only because work failed, an output  *)
(* could not be captured, or a stage did not compile.                      *)
THEOREM RunFailuresHaveCauses ==
    ASSUME OneAtATime, NoPlanIsNone, \A w \in Workflows : StepsTogether(w)
    PROVE  Spec => []FailuresHaveCauses
<1>1. SerialInv => FailuresHaveCauses
  BY SerialCauses DEF FailuresHaveCauses, Cause
<1> QED
  BY RunSerial, <1>1, PTL
(* One request at a time, a failed run stays failed, whatever is reported  *)
(* for it afterwards (deriveDependencyWorkflowState with the saved plan).  *)
THEOREM RunFailureIsFinal ==
    ASSUME OneAtATime, NoPlanIsNone, \A w \in Workflows : StepsTogether(w)
    PROVE  Spec => FailureIsFinal
<1>1. SerialInv /\ HeldInv /\ [Next]_vars /\ Failed => Failed'
  BY FailedStays
<1>2. (SerialInv => (PlanState = "failed" <=> Failed))'
  BY FailedState, PTL
<1>3. SerialInv /\ HeldInv /\ SerialInv' /\ [Next]_vars => [PlanState = "failed" => PlanState' = "failed"]_vars
  BY <1>1, <1>2, FailedState
<1> QED
  BY RunSerial, <1>3, PTL DEF Spec, FailureIsFinal
-----------------------------------------------------------------------------
(* A failed plan names what failed: work that has an outcome and counts as *)
(* failed, or a step of a stage that was given up before it was stored.    *)
Marked(i) ==
    \/ terminal[i] = "failed"
    \/ /\ terminal[i] # "none" /\ saved # NoPlan
       /\ i \in DOMAIN saved.member /\ saved.member[i] = "failed"

GivenUp(s) == saved.step[s] = "failed" /\ Untouched(s)

NamedInv ==
    saved # NoPlan =>
        /\ planned
        /\ \/ \E i \in members : Marked(i)
           \/ /\ \A h \in Handlers : handler[h].kind \notin {"submit", "activate"}
              /\ \E s \in Steps(workflow) : GivenUp(s)

(* A plan has a state for every membership and every step.                 *)
LEMMA PlanShape ==
    /\ Plan = [member |-> Plan.member, step |-> Plan.step, failed |-> Plan.failed]
    /\ Plan.member = [i \in members |-> Plan.member[i]]
    /\ Plan.step = [s \in Steps(workflow) |-> Plan.step[s]]
<1> DEFINE f == [members |-> members, terminal |-> terminal, running |-> running,
                 queued |-> Queued, facts |-> facts, saved |-> saved]
<1>1. f.members = members
  OBVIOUS
<1>2. Plan = DerivePlan(workflow, f)
  BY DEF Plan
<1> HIDE DEF f
<1> QED
  BY SMT, <1>1, <1>2 DEF DerivePlan

(* The state a plan gives a step.                                          *)
LEMMA PlanStep ==
    ASSUME NEW s \in Steps(workflow)
    PROVE  LET states == {Plan.member[i] : i \in MembersOf(s)}
               wins == /\ saved # NoPlan /\ s \notin facts
                       /\ states \cap {"completed", "failed"} = {} \/ saved.step[s] = "failed"
           IN  Plan.step[s] = IF wins THEN saved.step[s] ELSE deriveDependencyStepState(states, s \in facts)
<1> DEFINE f == [members |-> members, terminal |-> terminal, running |-> running,
                 queued |-> Queued, facts |-> facts, saved |-> saved]
           states == {Plan.member[i] : i \in MembersOf(s)}
<1>1. f.members = members /\ f.saved = saved /\ f.facts = facts
  OBVIOUS
<1>2. SavedStepWins(s, states, f) <=> /\ saved # NoPlan /\ s \notin facts
                                      /\ states \cap {"completed", "failed"} = {} \/ saved.step[s] = "failed"
  BY <1>1 DEF SavedStepWins
<1>3. CASE SavedStepWins(s, states, f)
  <2>1. Plan.step[s] = saved.step[s]
    BY <1>1, <1>3 DEF Plan, DerivePlan, MembersOf
  <2> QED
    BY <1>2, <1>3, <2>1
<1>4. CASE ~SavedStepWins(s, states, f)
  <2>1. Plan.step[s] = deriveDependencyStepState(states, s \in facts)
    BY <1>1, <1>4 DEF Plan, DerivePlan, MembersOf
  <2> QED
    BY <1>2, <1>4, <2>1
<1> QED
  BY <1>3, <1>4

(* What counts as failed fails its membership and its step.                *)
LEMMA MarkedFails ==
    ASSUME RunTypes, members \subseteq Items, NEW i \in members, Marked(i)
    PROVE  /\ Plan.member[i] = "failed" /\ Plan.step[workflow.stepOf[i]] = "failed"
           /\ workflow.stepOf[i] \in Steps(workflow)
<1> DEFINE s == workflow.stepOf[i]
           f == [members |-> members, terminal |-> terminal, running |-> running,
                 queued |-> Queued, facts |-> facts, saved |-> saved]
           states == {Plan.member[j] : j \in MembersOf(s)}
<1>1. f.members = members /\ f.terminal = terminal /\ f.running = running /\ f.queued = Queued /\ f.saved = saved
  OBVIOUS
<1>2. Plan.member[i] = deriveDependencyMembership(i, f)
  BY <1>1 DEF Plan, DerivePlan
<1>3. s \in Steps(workflow)
  BY WorkflowRunAssumption DEF RunTypes, Items
<1> HIDE DEF f
<1>4. Plan.member[i] = "failed"
  BY SMT, <1>1, <1>2 DEF deriveDependencyMembership, membershipFromRowsOnly, Marked
<1>5. "failed" \in states
  BY <1>4 DEF MembersOf
<1>6. \/ Plan.step[s] = saved.step[s] /\ (states \cap {"completed", "failed"} = {} \/ saved.step[s] = "failed")
      \/ Plan.step[s] = deriveDependencyStepState(states, s \in facts)
  BY <1>3, PlanStep
<1> HIDE DEF states
<1>7. Plan.step[s] = "failed"
  BY SMT, <1>5, <1>6 DEF deriveDependencyStepState
<1> QED
  BY <1>3, <1>4, <1>7

(* So does a stage that was given up.                                      *)
LEMMA GivenUpFails ==
    ASSUME saved # NoPlan, NEW s \in Steps(workflow), GivenUp(s)
    PROVE  Plan.step[s] = "failed"
BY PlanStep DEF GivenUp, Untouched

(* A plan that is saved keeps the failures of the plan it was read from.   *)
LEMMA PlanSaved ==
    ASSUME SerialInv, NEW h, Handlers = {h}, HandlerStep(h), ~SaveFailedPlan(h), saved' # saved
    PROVE  /\ \A i \in members : Plan.member[i] = "failed" =>
                  i \in DOMAIN saved'.member /\ saved'.member[i] = "failed"
           /\ \A s \in Steps(workflow) : Plan.step[s] = "failed" /\ MembersOf(s) = {} => saved'.step[s] = "failed"
<1> DEFINE P == Plan
           Keeps(p) ==
               /\ \A i \in members : Plan.member[i] = "failed" => i \in DOMAIN p.member /\ p.member[i] = "failed"
               /\ \A s \in Steps(workflow) : Plan.step[s] = "failed" /\ MembersOf(s) = {} => p.step[s] = "failed"
<1>0. RunTypes /\ h \in Handlers /\ members \subseteq Items
  BY DEF SerialInv, OutputsInv, SerialTypes
<1>1. /\ P = [member |-> P.member, step |-> P.step, failed |-> P.failed]
      /\ P.member = [i \in members |-> P.member[i]]
      /\ P.step = [s \in Steps(workflow) |-> P.step[s]]
  BY PlanShape
<1>2. SUFFICES \E p : Keeps(p) /\ saved' = [step |-> p.step, member |-> p.member]
  <2>1. ASSUME NEW p, Keeps(p), saved' = [step |-> p.step, member |-> p.member] PROVE Keeps(saved')
    <3>1. saved'.step = p.step /\ saved'.member = p.member
      BY <2>1
    <3> QED
      BY <2>1, <3>1
  <2> QED
    BY <2>1
<1>4. CASE RecordWorkItemTerminalFailure(h)
  <2> DEFINE i == handler[h].item
  <2>1. i \in members /\ saved' = [step |-> ItemFailed(workflow, P, i).step, member |-> ItemFailed(workflow, P, i).member]
    BY <1>4 DEF RecordWorkItemTerminalFailure
  <2> HIDE DEF P, i
  <2>2. /\ \A j \in members : j \in DOMAIN ItemFailed(workflow, P, i).member
                              /\ (P.member[j] = "failed" => ItemFailed(workflow, P, i).member[j] = "failed")
        /\ \A s \in Steps(workflow) : P.step[s] = "failed" => ItemFailed(workflow, P, i).step[s] = "failed"
    BY SMT, <1>1, <2>1 DEF ItemFailed
  <2>3. Keeps(ItemFailed(workflow, P, i))
    BY <2>2 DEF P
  <2> QED
    BY <2>1, <2>3
<1>5. CASE markWorkflowStageActivationFailed(h)
  <2> DEFINE n == handler[h].stage
  <2>1. saved' = [step |-> StageFailed(workflow, P, n).step, member |-> StageFailed(workflow, P, n).member]
    BY <1>5 DEF markWorkflowStageActivationFailed
  <2> HIDE DEF P, n
  <2>2. /\ \A j \in members : j \in DOMAIN StageFailed(workflow, P, n).member
                              /\ (P.member[j] = "failed" => StageFailed(workflow, P, n).member[j] = "failed")
        /\ \A s \in Steps(workflow) : P.step[s] = "failed" => StageFailed(workflow, P, n).step[s] = "failed"
    BY SMT, <1>1 DEF StageFailed
  <2>3. Keeps(StageFailed(workflow, P, n))
    BY <2>2 DEF P
  <2> QED
    BY <2>1, <2>3
<1>6. CASE RecordCompiledWorkItemMembership(h)
  <2> DEFINE i == Min(handler[h].todo)
             p == [P EXCEPT !.member = [j \in members \cup {i} |-> IF j = i THEN "queued" ELSE @[j]]]
  <2>1. i \notin members /\ saved' = [step |-> p.step, member |-> p.member]
    BY <1>6 DEF RecordCompiledWorkItemMembership, setWorkflowDependencyState
  <2> HIDE DEF P, i
  <2>2. /\ p.step = P.step
        /\ \A j \in members : j \in DOMAIN p.member /\ p.member[j] = P.member[j]
    BY SMT, <1>1, <2>1
  <2> HIDE DEF p
  <2>3. Keeps(p)
    BY <2>2 DEF P
  <2> QED
    BY <2>1, <2>3
<1>7. CASE markCompiledStageEmptyStepsCompleted(h)
  <2> DEFINE empty == {s \in StepsOf(workflow, handler[h].stage) :
                          /\ \A i \in Items : workflow.stepOf[i] # s
                          /\ P.step[s] \notin {"completed", "failed"}}
             p == [P EXCEPT !.step = [s \in Steps(workflow) |-> IF s \in empty THEN "completed" ELSE @[s]]]
  <2>1. saved' = [step |-> p.step, member |-> p.member]
    BY <1>7 DEF markCompiledStageEmptyStepsCompleted, setWorkflowDependencyState
  <2>2. \A s \in empty : P.step[s] # "failed"
    OBVIOUS
  <2> HIDE DEF P, empty
  <2>3. /\ p.member = P.member
        /\ \A s \in Steps(workflow) : P.step[s] = "failed" => p.step[s] = "failed"
    BY SMT, <1>1, <2>2
  <2> HIDE DEF p
  <2>4. Keeps(p)
    BY <1>1, <2>3 DEF P
  <2> QED
    BY <2>1, <2>4
<1>8. \/ RecordWorkItemTerminalFailure(h) \/ markWorkflowStageActivationFailed(h)
      \/ RecordCompiledWorkItemMembership(h) \/ markCompiledStageEmptyStepsCompleted(h)
  BY DEF HandlerStep, CaptureOutput, upsertWorkflowStepOutputFact, enqueueReadyAssetMaterializeDependents,
     EnqueueWorkItems, QueueWorkItems, MembershipsRecorded, activateNextReadyWorkflowStage, ContinueActivation,
     planVars
<1> QED
  BY <1>4, <1>5, <1>6, <1>7, <1>8

(* A request goes on in a run that has failed: it takes up no stage, and   *)
(* what is stored and what has its output change for its own step only.    *)
LEMMA FailedGoesOn ==
    ASSUME SerialInv, NEW h, Handlers = {h}, HandlerStep(h), PlanState = "failed",
           handler[h].kind \notin {"submit", "activate"}
    PROVE  /\ handler'[h].kind \notin {"submit", "activate"}
           /\ UNCHANGED createdAt
           /\ facts' = facts \/ (handler[h].item \in members /\ facts' = facts \cup {workflow.stepOf[handler[h].item]})
<1> USE DEF clockVars, storeVars, workVars, planVars, boundVars
<1>0. RunTypes /\ h \in Handlers /\ handler[h].pc \notin {"empty", "queue", "advance", "fail_stage"}
  BY DEF SerialInv, OutputsInv, Stands
<1>1. /\ ~QueueWorkItems(h) /\ ~markCompiledStageEmptyStepsCompleted(h) /\ ~ContinueActivation(h)
      /\ ~markWorkflowStageActivationFailed(h)
  BY <1>0 DEF QueueWorkItems, markCompiledStageEmptyStepsCompleted, ContinueActivation,
     markWorkflowStageActivationFailed
<1>2. activateNextReadyWorkflowStage(h) => Return(h)
  BY DEF activateNextReadyWorkflowStage
<1>3. \/ Return(h) \/ \E pc : Goto(h, pc)
      \/ \E todo : handler' = [handler EXCEPT ![h].pc = "enqueue", ![h].todo = todo]
      \/ handler' = [handler EXCEPT ![h].todo = @ \ {Min(handler[h].todo)}]
  BY <1>0, <1>1, <1>2, CaptureGoes DEF HandlerStep, RecordWorkItemTerminalFailure,
     enqueueReadyAssetMaterializeDependents, AfterDependents, EnqueueWorkItems, RecordCompiledWorkItemMembership,
     StageError, MembershipsRecorded
<1>4. handler'[h].kind = "none" \/ handler'[h].kind = handler[h].kind
  <2>1. CASE Return(h)
    BY <1>0, <2>1, ReturnStands
  <2>2. CASE \E pc : Goto(h, pc)
    BY <1>0, <2>2, GotoStands
  <2>3. ASSUME NEW todo, handler' = [handler EXCEPT ![h].pc = "enqueue", ![h].todo = todo]
        PROVE  handler'[h].kind = handler[h].kind
    BY SMT, <1>0, <2>3 DEF RunTypes, Requests
  <2>4. CASE handler' = [handler EXCEPT ![h].todo = @ \ {Min(handler[h].todo)}]
    BY <1>0, <2>4 DEF RunTypes, Requests
  <2> QED
    BY <1>3, <2>1, <2>2, <2>3, <2>4
<1>5. UNCHANGED createdAt
  BY <1>1 DEF HandlerStep, CaptureOutput, upsertWorkflowStepOutputFact, SaveFailedPlan, RecordWorkItemTerminalFailure,
     enqueueReadyAssetMaterializeDependents, EnqueueWorkItems, RecordCompiledWorkItemMembership,
     MembershipsRecorded, activateNextReadyWorkflowStage
<1>6. facts' = facts \/ upsertWorkflowStepOutputFact(h)
  BY <1>1 DEF HandlerStep, CaptureOutput, SaveFailedPlan, RecordWorkItemTerminalFailure,
     enqueueReadyAssetMaterializeDependents, EnqueueWorkItems, RecordCompiledWorkItemMembership,
     MembershipsRecorded, activateNextReadyWorkflowStage
<1>7. upsertWorkflowStepOutputFact(h) =>
          handler[h].item \in members /\ facts' = facts \cup {workflow.stepOf[handler[h].item]}
  BY <1>0 DEF upsertWorkflowStepOutputFact, SerialInv, Stands
<1> QED
  BY <1>4, <1>5, <1>6, <1>7

(* The first failed plan that is saved names what failed.                  *)
LEMMA FirstFailureNamed ==
    ASSUME NoPlanIsNone, SerialInv, HeldInv, NEW h, Handlers = {h}, HandlerStep(h), saved = NoPlan, saved' # NoPlan,
           UNCHANGED <<workflow, terminal>>, members \subseteq members'
    PROVE  \/ \E i \in members' : Marked(i)'
           \/ handler'[h].kind \notin {"submit", "activate"} /\ \E s \in Steps(workflow) : GivenUp(s)'
<1> DEFINE P == Plan
<1>0. RunTypes /\ h \in Handlers /\ members \subseteq Items
  BY DEF SerialInv, OutputsInv, SerialTypes
<1>1. /\ P = [member |-> P.member, step |-> P.step, failed |-> P.failed]
      /\ P.member = [i \in members |-> P.member[i]]
      /\ P.step = [s \in Steps(workflow) |-> P.step[s]]
  BY PlanShape
<1>2. CASE RecordWorkItemTerminalFailure(h)
  <2> DEFINE i == handler[h].item
  <2>1. i \in members /\ saved' = [step |-> ItemFailed(workflow, P, i).step, member |-> ItemFailed(workflow, P, i).member]
    BY <1>2 DEF RecordWorkItemTerminalFailure
  <2>2. terminal[i] # "none"
    <3>1. terminal[i] = "completed" \/ terminal[i] = "failed"
      BY <1>0, <1>2 DEF RecordWorkItemTerminalFailure, SerialInv, Stands
    <3> QED
      BY SMT, <3>1
  <2> HIDE DEF P, i
  <2>3. i \in DOMAIN ItemFailed(workflow, P, i).member /\ ItemFailed(workflow, P, i).member[i] = "failed"
    BY SMT, <1>1, <2>1 DEF ItemFailed
  <2>4. saved'.member = ItemFailed(workflow, P, i).member
    BY <2>1
  <2> QED
    BY <2>1, <2>2, <2>3, <2>4 DEF Marked
<1>3. CASE markWorkflowStageActivationFailed(h)
  <2> DEFINE n == handler[h].stage
  <2>1. /\ saved' = [step |-> StageFailed(workflow, P, n).step, member |-> StageFailed(workflow, P, n).member]
        /\ handler[h].pc = "fail_stage" /\ UNCHANGED <<createdAt, facts>>
    BY <1>3 DEF markWorkflowStageActivationFailed, storeVars
  <2>2. handler[h].kind = "activate" /\ \E s \in StepsOf(workflow, n) : Untouched(s)
    BY <1>0, <2>1 DEF SerialInv, Stands
  <2>3. PICK s \in StepsOf(workflow, n) : Untouched(s)
    BY <2>2
  <2>4. s \in Steps(workflow) /\ workflow.stageOf[s] = n
    BY DEF StepsOf
  <2>5. Return(h)
    BY <1>3, <2>2 DEF markWorkflowStageActivationFailed
  <2>6. Untouched(s)'
    BY <2>1, <2>3 DEF Untouched, Stored, Items
  <2> HIDE DEF P, n
  <2>7. StageFailed(workflow, P, n).step[s] = "failed"
    BY SMT, <1>1, <2>4 DEF StageFailed
  <2>8. saved'.step[s] = "failed"
    BY <2>1, <2>7
  <2>9. handler'[h].kind \notin {"submit", "activate"}
    BY <1>0, <2>5, ReturnStands
  <2> QED
    BY <2>4, <2>6, <2>8, <2>9 DEF GivenUp
<1>4. CASE \E plan : setWorkflowDependencyState(plan)
  <2>1. PlanState = "failed"
    BY <1>4 DEF setWorkflowDependencyState
  <2>2. \E i \in members : terminal[i] = "failed"
    BY <2>1, FailedState DEF Failed
  <2> QED
    BY <2>2 DEF Marked
<1>5. CASE SaveFailedPlan(h)
  <2>1. \E i \in members : terminal[i] = "failed"
    BY <1>0, <1>5 DEF SaveFailedPlan, HeldInv, Failed
  <2> QED
    BY <2>1 DEF Marked
<1>6. \/ RecordWorkItemTerminalFailure(h) \/ markWorkflowStageActivationFailed(h)
      \/ \E plan : setWorkflowDependencyState(plan)
      \/ SaveFailedPlan(h)
  BY DEF HandlerStep, CaptureOutput, upsertWorkflowStepOutputFact, enqueueReadyAssetMaterializeDependents,
     EnqueueWorkItems, QueueWorkItems, RecordCompiledWorkItemMembership, MembershipsRecorded,
     markCompiledStageEmptyStepsCompleted, activateNextReadyWorkflowStage, ContinueActivation, planVars
<1> QED
  BY <1>2, <1>3, <1>4, <1>5, <1>6

(* A plan that a request has read and will save has the names of the       *)
(* failures, those of work that fails meanwhile apart.                     *)
Carries(plan) ==
    /\ \A i \in members : Marked(i) =>
           terminal[i] = "failed" \/ (i \in DOMAIN plan.member /\ plan.member[i] = "failed")
    /\ saved # NoPlan => \A s \in Steps(workflow) : GivenUp(s) => plan.step[s] = "failed"

CarryInv == \A h \in Handlers : unsaved[h] # NoPlan => Carries(unsaved[h])

(* It has them when the output is captured, ...                            *)
LEMMA CaptureCarries ==
    ASSUME SerialInv, HeldInv, NEW h, Handlers = {h}, CaptureOutput(h), unsaved'[h] # NoPlan
    PROVE  Carries(unsaved'[h])
<1> DEFINE i == handler[h].item
           c == workflow.stepOf[i]
           step == updateStepStateFromWorkItems({Plan.member[j] : j \in MembersOf(c)})
<1>0. RunTypes /\ h \in Handlers /\ members \subseteq Items /\ members \subseteq Stored
  BY DEF SerialInv, OutputsInv, SerialTypes, MembershipsInv, RowsInv, Known
<1>1. unsaved[h] = NoPlan
  <2>1. handler[h].pc = "capture"
    BY DEF CaptureOutput
  <2>2. "capture" \notin {"fact", "save"}
    BY SMT
  <2> QED
    BY <1>0, <2>1, <2>2 DEF HeldInv
<1>2. i \in members /\ unsaved'[h] = [step |-> [Plan.step EXCEPT ![c] = step], member |-> Plan.member]
  <2>1. \/ unsaved' = unsaved
        \/ i \in members /\ unsaved' = [unsaved EXCEPT ![h] = NoPlan]
        \/ i \in members /\ unsaved' = [unsaved EXCEPT ![h] =
               [step |-> [Plan.step EXCEPT ![c] = step], member |-> Plan.member]]
    BY DEF CaptureOutput
  <2>2. \A plan : unsaved' = [unsaved EXCEPT ![h] = plan] => unsaved'[h] = plan
    BY <1>0 DEF RunTypes
  <2> QED
    BY <1>1, <2>1, <2>2
<1>3. Plan.member = [j \in members |-> Plan.member[j]] /\ Plan.step = [s \in Steps(workflow) |-> Plan.step[s]]
  BY PlanShape
<1> HIDE DEF step
<1>4. unsaved'[h].step = [Plan.step EXCEPT ![c] = step] /\ unsaved'[h].member = Plan.member
  <2>1. ASSUME NEW x, NEW y, unsaved'[h] = [step |-> x, member |-> y]
        PROVE  unsaved'[h].step = x /\ unsaved'[h].member = y
    BY SMT, <2>1
  <2> HIDE DEF c
  <2> QED
    BY <1>2, <2>1
<1>5. ASSUME NEW j \in members, Marked(j) PROVE j \in DOMAIN unsaved'[h].member /\ unsaved'[h].member[j] = "failed"
  <2>1. Plan.member[j] = "failed" /\ DOMAIN Plan.member = members
    BY <1>0, <1>3, <1>5, MarkedFails
  <2> QED
    BY <1>4, <1>5, <2>1
<1>6. ASSUME saved # NoPlan, NEW s \in Steps(workflow), GivenUp(s) PROVE unsaved'[h].step[s] = "failed"
  <2>1. s # c
    BY <1>0, <1>2, <1>6 DEF GivenUp, Untouched
  <2>2. Plan.step[s] = "failed"
    BY <1>6, GivenUpFails
  <2>3. [Plan.step EXCEPT ![c] = step][s] = Plan.step[s]
    BY <1>3, <2>1
  <2> QED
    BY <1>4, <2>2, <2>3
<1> QED
  BY <1>5, <1>6 DEF Carries

(* ... and keeps them until it is saved.                                   *)
LEMMA CarryKept ==
    ASSUME OneAtATime, SerialInv, HeldInv, CarryInv, [Next]_vars
    PROVE  CarryInv'
<1> USE DEF clockVars, storeVars, workVars, planVars, boundVars
<1>0. RunTypes
  BY DEF SerialInv, OutputsInv
<1>1. ASSUME NEW plan, UNCHANGED <<workflow, members, saved, createdAt>>, facts \subseteq facts',
             \A i \in members : terminal'[i] = terminal[i] \/ terminal'[i] = "failed", Carries(plan)
      PROVE  Carries(plan)'
  <2>1. ASSUME NEW i \in members, Marked(i)'
        PROVE  terminal'[i] = "failed" \/ (i \in DOMAIN plan.member /\ plan.member[i] = "failed")
    <3>1. CASE terminal'[i] = terminal[i]
      <4>1. Marked(i)
        BY <1>1, <2>1, <3>1 DEF Marked
      <4> QED
        BY <1>1, <3>1, <4>1 DEF Carries
    <3> QED
      BY <1>1, <3>1
  <2>2. ASSUME saved # NoPlan, NEW s \in Steps(workflow), GivenUp(s)' PROVE plan.step[s] = "failed"
    <3>1. GivenUp(s)
      BY <1>1, <2>2 DEF GivenUp, Untouched, Stored, Items
    <3> QED
      BY <1>1, <2>2, <3>1 DEF Carries
  <2>3. Steps(workflow)' = Steps(workflow) /\ members' = members /\ saved' = saved
    BY <1>1
  <2> QED
    BY <2>1, <2>2, <2>3 DEF Carries
<1>2. ASSUME NEW h \in Handlers, HandlerStep(h) PROVE CarryInv'
  <2>0. Handlers = {h}
    BY DEF OneAtATime
  <2>1. CASE CaptureOutput(h)
    <3>1. UNCHANGED <<workflow, members, saved, createdAt, facts, terminal>>
      BY <2>1 DEF CaptureOutput
    <3>2. unsaved'[h] # NoPlan => Carries(unsaved'[h])
      BY <2>0, <2>1, CaptureCarries
    <3>3. unsaved'[h] # NoPlan => Carries(unsaved[h])'
      BY <3>1, <3>2 DEF Carries, Marked, GivenUp, Untouched, Stored, Items
    <3> QED
      BY <2>0, <3>3 DEF CarryInv
  <2>2. CASE SaveFailedPlan(h)
    <3>1. unsaved'[h] = NoPlan
      BY <1>0, <2>2 DEF SaveFailedPlan, RunTypes
    <3> QED
      BY <2>0, <3>1 DEF CarryInv
  <2>3. CASE upsertWorkflowStepOutputFact(h)
    <3>1. /\ UNCHANGED <<workflow, members, saved, createdAt, unsaved, terminal>>
          /\ facts \subseteq facts'
      BY <2>3 DEF upsertWorkflowStepOutputFact
    <3> QED
      BY <2>0, <3>1, <1>1 DEF CarryInv
  <2>4. CASE ~(CaptureOutput(h) \/ upsertWorkflowStepOutputFact(h) \/ SaveFailedPlan(h))
    <3>1. unsaved' = unsaved
      BY <1>2, <2>4 DEF HandlerStep, RecordWorkItemTerminalFailure, markWorkflowStageActivationFailed,
         enqueueReadyAssetMaterializeDependents, EnqueueWorkItems, QueueWorkItems, RecordCompiledWorkItemMembership,
         MembershipsRecorded, markCompiledStageEmptyStepsCompleted, activateNextReadyWorkflowStage, ContinueActivation
    <3>2. handler[h].pc \notin {"fact", "save"}
      <4>1. handler[h].pc \in {"record_failure", "fail_stage", "dependents", "enqueue", "queue", "members", "empty",
                             "activate", "advance"}
        BY <1>2, <2>4 DEF HandlerStep, RecordWorkItemTerminalFailure, markWorkflowStageActivationFailed,
           enqueueReadyAssetMaterializeDependents, EnqueueWorkItems, QueueWorkItems,
           RecordCompiledWorkItemMembership, MembershipsRecorded, markCompiledStageEmptyStepsCompleted,
           activateNextReadyWorkflowStage, ContinueActivation
      <4> QED
        BY SMT, <4>1
    <3> QED
      BY <2>0, <3>1, <3>2 DEF CarryInv, HeldInv
  <2> QED
    BY <2>1, <2>2, <2>3, <2>4
<1>3. CASE ~(\E h \in Handlers : HandlerStep(h))
  <2>1. SUFFICES ASSUME NEW h \in Handlers, unsaved'[h] # NoPlan PROVE Carries(unsaved[h])'
    BY DEF CarryInv
  <2>2. unsaved' = unsaved \/ unsaved' = [g \in Handlers |-> NoPlan]
    BY <1>3 DEF Next, Progress, vars, Tick, Crash, RequestsLost, ClaimNextWork, RecoverWork, submitAdmittedWorkflow,
       Report, completePersistedWorkHandler, failPersistedWorkHandler, ReplayReport
  <2>3. unsaved' = unsaved /\ unsaved[h] # NoPlan
    BY <2>1, <2>2
  <2>4. \A g \in Handlers : handler[g].pc # "idle"
    <3>1. \A g \in Handlers : handler[g].pc \in {"fact", "save"}
      BY <2>1, <2>3 DEF OneAtATime, HeldInv
    <3> QED
      BY SMT, <3>1
  <2>5. /\ UNCHANGED <<workflow, members, saved, createdAt, facts>>
        /\ terminal' = terminal \/ \E i \in Items : terminal' = [terminal EXCEPT ![i] = "failed"]
    BY <1>3, <2>4 DEF Next, Progress, vars, Tick, Crash, RequestsLost, ClaimNextWork, RecoverWork,
       submitAdmittedWorkflow, Report, completePersistedWorkHandler, failPersistedWorkHandler, ReplayReport, Serve
  <2>6. \A i \in members : terminal'[i] = terminal[i] \/ terminal'[i] = "failed"
    <3>1. members \subseteq Items
      BY DEF SerialInv, SerialTypes
    <3> QED
      BY <1>0, <2>5, <3>1 DEF RunTypes
  <2>7. Carries(unsaved[h])
    BY <2>3 DEF CarryInv
  <2> QED
    BY <1>1, <2>3, <2>5, <2>6, <2>7
<1> QED
  BY <1>2, <1>3

(* Every step keeps the names of a failed plan's failures.                 *)
LEMMA NamedKept ==
    ASSUME OneAtATime, NoPlanIsNone, SerialInv, HeldInv, NamedInv, CarryInv, [Next]_vars
    PROVE  NamedInv'
<1> USE DEF clockVars, storeVars, workVars, planVars, boundVars
<1>0. RunTypes /\ members \subseteq Items /\ members \subseteq Stored
  BY DEF SerialInv, OutputsInv, SerialTypes, MembershipsInv, RowsInv, Known
<1>1. ASSUME NEW h \in Handlers, HandlerStep(h) PROVE NamedInv'
  <2>0. Handlers = {h} /\ planned
    <3>1. handler[h].pc # "idle"
      BY <1>1 DEF HandlerStep, CaptureOutput, upsertWorkflowStepOutputFact, SaveFailedPlan,
         RecordWorkItemTerminalFailure, markWorkflowStageActivationFailed, enqueueReadyAssetMaterializeDependents,
         EnqueueWorkItems, QueueWorkItems, RecordCompiledWorkItemMembership, MembershipsRecorded,
         markCompiledStageEmptyStepsCompleted, activateNextReadyWorkflowStage, ContinueActivation
    <3> QED
      BY <3>1 DEF SerialInv, RowsInv, OneAtATime
  <2>1. /\ UNCHANGED <<workflow, terminal>> /\ planned' /\ (saved # NoPlan => saved' # NoPlan)
        /\ members \subseteq members'
    BY <1>1, <2>0, RequestKeeps, RunKeeps
  <2>2. Steps(workflow)' = Steps(workflow)
    BY <2>1
  <2>3. CASE saved = NoPlan
    BY <1>1, <2>0, <2>1, <2>2, <2>3, FirstFailureNamed DEF NamedInv
  <2>4. ASSUME saved # NoPlan, NEW i \in members, Marked(i) PROVE Marked(i)' /\ i \in members'
    <3>1. terminal[i] # "none"
      BY SMT, <2>4 DEF Marked
    <3>2. Plan.member[i] = "failed"
      BY <1>0, <2>4, MarkedFails
    <3>3. CASE SaveFailedPlan(h)
      <4>1. saved' = unsaved[h] /\ unsaved[h] # NoPlan /\ members' = members
        BY <3>3 DEF SaveFailedPlan, HeldInv
      <4>2. terminal[i] = "failed" \/ (i \in DOMAIN saved'.member /\ saved'.member[i] = "failed")
        BY <2>4, <4>1 DEF CarryInv, Carries
      <4> QED
        BY <2>1, <2>4, <3>1, <4>1, <4>2 DEF Marked
    <3>4. CASE ~SaveFailedPlan(h)
      <4>1. saved' # saved => i \in DOMAIN saved'.member /\ saved'.member[i] = "failed"
        BY <1>1, <2>0, <3>2, <3>4, PlanSaved
      <4> QED
        BY <2>1, <2>4, <3>1, <4>1 DEF Marked
    <3> QED
      BY <3>3, <3>4
  <2>5. ASSUME saved # NoPlan, handler[h].kind \notin {"submit", "activate"}, NEW s \in Steps(workflow), GivenUp(s)
        PROVE  handler'[h].kind \notin {"submit", "activate"} /\ GivenUp(s)'
    <3>1. Plan.step[s] = "failed" /\ PlanState = "failed"
      BY <1>0, <2>0, <2>5, GivenUpFails, RunStates
    <3>2. MembersOf(s) = {} /\ \A i \in members : workflow.stepOf[i] # s
      BY <1>0, <2>5 DEF GivenUp, Untouched, MembersOf
    <3>3. /\ handler'[h].kind \notin {"submit", "activate"} /\ UNCHANGED createdAt
          /\ facts' = facts \/ (handler[h].item \in members /\ facts' = facts \cup {workflow.stepOf[handler[h].item]})
      BY <1>1, <2>0, <2>5, <3>1, FailedGoesOn
    <3>4. s \notin facts'
      BY <2>5, <3>2, <3>3 DEF GivenUp, Untouched
    <3>5. Untouched(s)'
      BY <2>1, <2>5, <3>3, <3>4 DEF GivenUp, Untouched, Stored, Items
    <3>6. saved'.step[s] = "failed"
      <4>1. SaveFailedPlan(h) => saved'.step[s] = "failed"
        BY <2>5 DEF SaveFailedPlan, HeldInv, CarryInv, Carries
      <4> QED
        BY <1>1, <2>0, <2>5, <3>1, <3>2, <4>1, PlanSaved DEF GivenUp
    <3> QED
      BY <3>3, <3>5, <3>6 DEF GivenUp
  <2> QED
    BY <2>0, <2>1, <2>2, <2>3, <2>4, <2>5 DEF NamedInv
<1>2. ASSUME ~(\E h \in Handlers : HandlerStep(h)) PROVE NamedInv'
  <2>1. SUFFICES ASSUME saved' # NoPlan PROVE NamedInv'
    BY DEF NamedInv
  <2>2. UNCHANGED <<saved, createdAt, facts, members, workflow>>
    BY <1>2 DEF Next, Progress, vars, Tick, Crash, RequestsLost, ClaimNextWork, RecoverWork, submitAdmittedWorkflow,
       Report, completePersistedWorkHandler, failPersistedWorkHandler, ReplayReport
  <2>3. saved # NoPlan /\ planned
    BY <2>1, <2>2 DEF NamedInv
  <2>4. planned' /\ \A j \in Items : terminal[j] # "none" => terminal'[j] = terminal[j]
    BY <2>3, RunKeeps
  <2>5. ASSUME NEW i \in members, Marked(i) PROVE Marked(i)'
    <3>1. terminal[i] # "none" /\ i \in Items
      BY SMT, <1>0, <2>5 DEF Marked
    <3> QED
      BY <2>2, <2>4, <2>5, <3>1 DEF Marked
  <2>6. ASSUME NEW s \in Steps(workflow), GivenUp(s) PROVE GivenUp(s)'
    BY <2>2, <2>6 DEF GivenUp, Untouched, Stored, Items
  <2>7. \/ handler' = handler
        \/ handler' = [h \in Handlers |-> Idle]
        \/ \E h \in Handlers : \E i, at, pc : Serve(h, "complete", i, at, pc) \/ Serve(h, "fail", i, at, pc)
    BY <1>2, <2>3 DEF Next, Progress, vars, Tick, Crash, RequestsLost, ClaimNextWork, RecoverWork,
       submitAdmittedWorkflow, Report, completePersistedWorkHandler, failPersistedWorkHandler, ReplayReport
  <2>8. ASSUME \A h \in Handlers : handler[h].kind \notin {"submit", "activate"}
        PROVE  \A h \in Handlers : handler'[h].kind \notin {"submit", "activate"}
    BY SMT, <1>0, <2>7, <2>8 DEF Serve, Idle, RunTypes
  <2> QED
    BY <2>2, <2>3, <2>4, <2>5, <2>6, <2>8 DEF NamedInv
<1> QED
  BY <1>1, <1>2

(* A failed run says at which stage and step it failed.                    *)
LEMMA FailureNamed ==
    ASSUME SerialInv, NamedInv, PlanState = "failed", Steps(workflow) \subseteq Nat \ {0}
    PROVE  failedDependencyStatus.stage # -1 /\ failedDependencyStatus.step # 0
<1> DEFINE stages == {n \in Stages(workflow) : StageState(n) = "failed"}
           n == Min(stages)
           steps == {s \in StepsOf(workflow, n) : Plan.step[s] = "failed"}
<1>0. RunTypes /\ members \subseteq Items /\ Stages(workflow) \subseteq Nat
  BY WorkflowRunAssumption DEF SerialInv, OutputsInv, SerialTypes, RunTypes
<1>1. \E s \in Steps(workflow) : Plan.step[s] = "failed"
  BY <1>0, RunStates, MarkedFails, GivenUpFails DEF NamedInv
<1>2. stages # {} /\ stages \subseteq Nat
  <2>1. PICK s \in Steps(workflow) : Plan.step[s] = "failed"
    BY <1>1
  <2>2. workflow.stageOf[s] \in Stages(workflow) /\ s \in StepsOf(workflow, workflow.stageOf[s])
    BY DEF Stages, StepsOf
  <2>3. StageState(workflow.stageOf[s]) = "failed"
    BY <2>1, <2>2, StageStates
  <2> QED
    BY <1>0, <2>2, <2>3
<1>3. n \in stages
  BY <1>2, MinIsMember
<1>4. n \in Nat /\ steps # {} /\ steps \subseteq Nat \ {0}
  BY <1>2, <1>3, StageStates DEF StepsOf
<1>5. Min(steps) \in steps
  <2> HIDE DEF steps
  <2>1. steps \subseteq Nat
    BY SMT, <1>4
  <2> QED
    BY <1>4, <2>1, MinIsMember
<1>6. failedDependencyStatus.stage = n /\ failedDependencyStatus.step = Min(steps)
  BY <1>2, <1>4 DEF failedDependencyStatus
<1> HIDE DEF n, steps
<1> QED
  BY SMT, <1>4, <1>5, <1>6
-----------------------------------------------------------------------------
(* What a client is told.  A run told completed has done its work and is   *)
(* completed, or an error came after; a run told failed has failed, or an  *)
(* item of it has.                                                         *)
FailedItem == \E i \in Items : terminal[i] = "failed"

Done ==
    /\ saved = NoPlan /\ Steps(workflow) # {}
    /\ \A s \in Steps(workflow) : s \in facts \/ MembersOf(s) # {}

Complete == planned /\ (\A i \in Items : terminal[i] = "completed") /\ (Done \/ errors > 0)

Lost == planned /\ Cause /\ (Failed \/ FailedItem)

(* A stored plan is running, failed or completed; a completed one is done, *)
(* and a run that is done is completed.                                    *)
LEMMA CompletedState ==
    ASSUME SerialInv, planned
    PROVE  /\ PlanState \in {"running", "failed", "completed"}
           /\ PlanState = "completed" => Complete
           /\ Done /\ (\A i \in Items : terminal[i] = "completed") => PlanState = "completed"
<1> DEFINE states == {StageState(n) : n \in Stages(workflow)}
<1>0. RunTypes /\ members \subseteq Items
  BY DEF SerialInv, OutputsInv, SerialTypes
<1>1. PlanState = IF "failed" \in states \/ Plan.failed THEN "failed"
                  ELSE IF states = {"completed"} THEN "completed" ELSE "running"
  BY DEF PlanState, deriveDependencyWorkflowState, StageState
<1>2. Plan.failed <=> saved # NoPlan
  BY DEF Plan, DerivePlan
<1>3. states = {"completed"} => Steps(workflow) # {}
  BY DEF Stages
<1>4. /\ PlanState \in {"running", "failed", "completed"}
      /\ PlanState = "completed" => states = {"completed"}
      /\ states = {"completed"} /\ ~Plan.failed => PlanState = "completed"
  <2> HIDE DEF states
  <2> QED
    BY ONLY <1>1
<1>5. ASSUME PlanState = "completed" PROVE Complete
  <2>1. saved = NoPlan /\ \A s \in Steps(workflow) : Plan.step[s] = "completed"
    BY <1>0, <1>5, RunStates
  <2>2. Done
    BY <1>0, <1>3, <1>4, <1>5, <2>1, StepState DEF Done
  <2>3. \A i \in Items : terminal[i] = "completed"
    BY <1>5, SerialCompleted DEF CompletedMeansDone
  <2> QED
    BY <2>2, <2>3 DEF Complete
<1>6. ASSUME Done, \A i \in Items : terminal[i] = "completed" PROVE PlanState = "completed"
  <2>1. ASSUME NEW s \in Steps(workflow) PROVE Plan.step[s] = "completed"
    <3> DEFINE all == {Plan.member[i] : i \in MembersOf(s)}
    <3>1. \A i \in MembersOf(s) : Plan.member[i] = "completed"
      <4> SUFFICES ASSUME NEW i \in MembersOf(s) PROVE Plan.member[i] = "completed"
        OBVIOUS
      <4>1. i \in members /\ terminal[i] = "completed"
        BY <1>0, <1>6 DEF MembersOf
      <4>2. Plan.member[i] = IF terminal[i] # "none" THEN terminal[i]
                             ELSE IF i \in running THEN "running" ELSE "queued"
        BY <1>0, <1>6, <4>1, MembershipState DEF Done
      <4> QED
        BY ONLY <4>1, <4>2
    <3>2. all \subseteq {"completed"} /\ (s \in facts \/ all = {"completed"})
      BY <1>6, <3>1 DEF Done
    <3>3. Plan.step[s] = deriveDependencyStepState(all, s \in facts)
      BY <1>6, PlanStep DEF Done
    <3> HIDE DEF all
    <3> QED
      BY SMT, <3>2, <3>3 DEF deriveDependencyStepState
  <2>2. ASSUME NEW n \in Stages(workflow) PROVE StageState(n) = "completed"
    <3> DEFINE all == {Plan.step[s] : s \in StepsOf(workflow, n)}
    <3>1. all = {"completed"}
      BY <2>1 DEF Stages, StepsOf
    <3>2. StageState(n) = IF "failed" \in all THEN "failed"
                          ELSE IF all = {"completed"} THEN "completed"
                          ELSE IF all \cap {"active", "completed"} # {} THEN "active"
                          ELSE IF "ready" \in all \/ n = 0 THEN "ready"
                          ELSE "blocked"
      BY DEF StageState, deriveDependencyStageState
    <3> HIDE DEF all
    <3> QED
      BY SMT, <3>1, <3>2
  <2>3. states = {"completed"}
    BY <1>6, <2>2 DEF Done, Stages
  <2> QED
    BY <1>2, <1>4, <1>6, <2>3 DEF Done
<1> QED
  BY <1>4, <1>5, <1>6

(* All that is known of the run.                                           *)
RunInv == SerialInv /\ HeldInv /\ NamedInv /\ CarryInv

(* What has been told of the run stays true of it.                         *)
LEMMA TruthsKept ==
    ASSUME OneAtATime, NoPlanIsNone, \A w \in Workflows : StepsTogether(w), RunInv, [Next]_vars
    PROVE  /\ RunInv' /\ workflow' = workflow
           /\ (planned => planned') /\ (Complete => Complete') /\ (Lost => Lost') /\ (FailedItem => FailedItem')
<1>0. SerialInv /\ HeldInv /\ NamedInv /\ CarryInv /\ RunTypes
  BY DEF RunInv, SerialInv, OutputsInv
<1>1. SerialInv' /\ RunInv'
  BY <1>0, NextSerial, HeldKept, NamedKept, CarryKept DEF RunInv
<1>2. workflow' = workflow
  BY RequestKeeps DEF Next, Progress, vars, Tick, Crash, RequestsLost, ClaimNextWork, RecoverWork,
     submitAdmittedWorkflow, Report, completePersistedWorkHandler, failPersistedWorkHandler, ReplayReport, clockVars
<1>3. Items' = Items /\ Steps(workflow)' = Steps(workflow)
  BY <1>2 DEF Items
<1>4. FailedItem => planned
  <2> SUFFICES ASSUME NEW i \in Items, terminal[i] = "failed" PROVE planned
    BY DEF FailedItem
  <2>1. Touched(i)
    BY SMT DEF Touched
  <2> QED
    BY <1>0, <2>1 DEF SerialInv, RowsInv
<1>5. planned => /\ planned' /\ members \subseteq members' /\ facts \subseteq facts' /\ (errors > 0 => errors' > 0)
                 /\ \A j \in Items : terminal[j] = "completed" => terminal'[j] = "completed"
                 /\ \A j \in Items : terminal[j] = "failed" => terminal'[j] = "failed"
  <2>1. "completed" # "none" /\ "failed" # "none"
    BY SMT
  <2> QED
    BY <1>0, <2>1, RunKeeps
<1>6. FailedItem => FailedItem'
  BY <1>3, <1>4, <1>5 DEF FailedItem
<1>7. Lost => Lost'
  BY <1>0, <1>5, <1>6, FailedStays DEF Lost, Cause, FailedItem
<1>8. ASSUME Complete PROVE Complete'
  <2>1. planned' /\ \A i \in Items' : terminal'[i] = "completed"
    BY <1>3, <1>5, <1>8 DEF Complete
  <2>2. saved' # NoPlan => errors' > 0
    <3>1. saved' # NoPlan => errors' > 0 \/ \E i \in Items' : terminal'[i] = "failed"
      BY <1>1 DEF SerialInv, Cause
    <3>2. "completed" # "failed"
      BY SMT
    <3> QED
      BY <2>1, <3>1, <3>2
  <2>3. Done => Done' \/ errors' > 0
    BY <1>2, <1>3, <1>5, <1>8, <2>2 DEF Done, Complete, MembersOf
  <2> QED
    BY <1>5, <1>8, <2>1, <2>3 DEF Complete
<1> QED
  BY <1>1, <1>2, <1>5, <1>6, <1>7, <1>8

(* The client, and the run it watches while the controller is up.  After a *)
(* shutdown nothing is asked of the run any more.                          *)
ClientShape ==
    client = [command |-> client.command, pc |-> client.pc, read |-> client.read, some |-> client.some,
              told |-> client.told, failure |-> client.failure]

ClientInv ==
    /\ ClientShape
    /\ client.pc \notin {"status", "plan", "done"} => client.told = "none"
    /\ client.pc # "done" => client.failure = {}
    /\ client.pc \in {"status", "plan"} => planned
    /\ "failed" \in client.some => FailedItem
    /\ client.told = "completed" => Complete
    /\ client.told = "failed" => Lost
    /\ client.told # "unknown"
    /\ \A f \in client.failure : f.stage # -1 /\ f.step # 0
    /\ ~up => client.pc \in {"ensure", "done"}

Gone == ~up /\ client.pc = "done" /\ client.told = "none" /\ client.failure = {}

WatchInv == ClientInv /\ (RunInv \/ Gone)

(* A client that goes on, and one that gives up.                           *)
LEMMA ClientMoves ==
    ASSUME ClientShape
    PROVE  /\ \A pc : At(pc) => /\ ClientShape' /\ client'.pc = pc
                                /\ client'.some = client.some /\ client'.told = client.told
                                /\ client'.failure = client.failure
           /\ Fails => /\ ClientShape' /\ client'.pc = "done" /\ client'.told = "error"
                       /\ client'.some = client.some /\ client'.failure = client.failure
BY DEF ClientShape, At, Fails

(* A client that reads a count, ...                                        *)
LEMMA ClientReads ==
    ASSUME ClientShape, NEW queries, NEW next, ReadCount(queries, next)
    PROVE  /\ ClientShape' /\ client'.pc \in {client.pc, next}
           /\ client'.told = client.told /\ client'.failure = client.failure
           /\ "failed" \in client'.some => "failed" \in client.some \/ FailedItem
<1> DEFINE kind == queries[client.read + 1]
<1>1. client'.some = IF OfKind(kind) = {} THEN client.some ELSE client.some \cup {kind}
  BY SMT DEF ClientShape, ReadCount
<1>2. kind = "failed" => OfKind(kind) = {i \in Items : terminal[i] = "failed"}
  BY SMT DEF OfKind
<1>3. /\ ClientShape' /\ client'.pc \in {client.pc, next}
      /\ client'.told = client.told /\ client'.failure = client.failure
  BY DEF ClientShape, ReadCount
<1> HIDE DEF kind
<1>4. "failed" \in client'.some => "failed" \in client.some \/ (kind = "failed" /\ OfKind(kind) # {})
  BY <1>1
<1> QED
  BY <1>2, <1>3, <1>4 DEF FailedItem

(* The plan has the last word on the status, and the counts that the run   *)
(* has failed.                                                             *)
LEMMA StatusTold ==
    ASSUME NEW some, NEW state \in {"running", "failed", "completed"}
    PROVE  /\ submissionStatus(some, state) = "completed" => state = "completed"
           /\ submissionStatus(some, state) = "failed" => state = "failed" \/ "failed" \in some
           /\ submissionStatus(some, state) # "unknown"
           /\ submissionStatus(some, state) \in {"queued", "running"} => state = "running"
<1> DEFINE name == submissionStatusName(some)
<1>1. name \in {"running", "queued", "failed", "completed", "unknown"} /\ (name = "failed" => "failed" \in some)
  BY SMT DEF submissionStatusName
<1>2. submissionStatus(some, state) =
          IF state \in {"failed", "completed"} THEN state
          ELSE IF state = "running" /\ name \in {"completed", "unknown"} THEN "running" ELSE name
  BY SMT DEF submissionStatus
<1> HIDE DEF name
<1> QED
  BY SMT, <1>1, <1>2

(* ... and one that is told the status, which is true of the run.          *)
LEMMA ClientTold ==
    ASSUME ClientInv, RunInv, Steps(workflow) \subseteq Nat \ {0}, up, waitForSubmission
    PROVE  /\ ClientShape' /\ client'.some = {} /\ client'.pc \in {"status", "done"}
           /\ client'.told = "completed" => Complete
           /\ client'.told = "failed" => Lost
           /\ client'.told # "unknown"
           /\ client'.pc # "done" => client'.failure = {}
           /\ \A f \in client'.failure : f.stage # -1 /\ f.step # 0
<1> DEFINE told == submissionStatus(client.some, PlanState)
           named == submissionDependencyStatusFromPlan
<1>0. SerialInv /\ NamedInv
  BY DEF RunInv
<1>1. /\ client.pc = "plan" /\ planned
      /\ client' = [client EXCEPT !.read = 0, !.some = {}, !.failure = named,
                                  !.pc = IF told \in {"queued", "running"} THEN "status" ELSE "done",
                                  !.told = told]
  BY DEF waitForSubmission, Request, ClientInv
<1>2. PlanState \in {"running", "failed", "completed"} /\ (PlanState = "completed" => Complete)
  BY <1>0, <1>1, CompletedState
<1>3. /\ told = "completed" => PlanState = "completed"
      /\ told = "failed" => PlanState = "failed" \/ "failed" \in client.some
      /\ told # "unknown"
      /\ told \in {"queued", "running"} => PlanState = "running"
  BY <1>2, StatusTold
<1>4. (PlanState # "failed" => named = {}) /\ \A f \in named : f.stage # -1 /\ f.step # 0
  <2>1. PlanState = "failed" => named = {failedDependencyStatus}
    BY DEF submissionDependencyStatusFromPlan
  <2>2. PlanState # "failed" => named = {}
    BY DEF submissionDependencyStatusFromPlan
  <2> QED
    BY <1>0, <2>1, <2>2, FailureNamed
<1> HIDE DEF told, named
<1>5. /\ ClientShape' /\ client'.some = {} /\ client'.told = told /\ client'.failure = named
      /\ client'.pc = IF told \in {"queued", "running"} THEN "status" ELSE "done"
  BY <1>1 DEF ClientInv, ClientShape
<1>6. told = "failed" => Lost
  <2>1. PlanState = "failed" => Cause /\ Failed
    BY <1>0, SerialCauses, FailedState
  <2>2. "failed" \in client.some => FailedItem
    BY DEF ClientInv
  <2> QED
    BY <1>1, <1>3, <2>1, <2>2 DEF Lost, Cause, FailedItem
<1>7. client'.pc # "done" => client'.failure = {}
  <2>1. "running" # "failed"
    BY SMT
  <2> QED
    BY <1>3, <1>4, <1>5, <2>1
<1>8. client'.pc \in {"status", "done"}
  BY <1>5
<1> QED
  BY <1>2, <1>3, <1>4, <1>5, <1>6, <1>7, <1>8

(* Every step of the client and of the controller keeps the invariant.     *)
LEMMA WatchStep ==
    ASSUME OneAtATime, NoPlanIsNone, \A w \in Workflows : StepsTogether(w) /\ Steps(w) \subseteq Nat \ {0},
           WatchInv, [WatchNext]_<<vars, watchVars>>
    PROVE  WatchInv'
<1>0. \A w \in Workflows : StepsTogether(w)
  OBVIOUS
<1>1. CASE Gone
  <2>1. client.pc = "done" /\ ~up
    BY <1>1 DEF Gone
  <2>2. UNCHANGED <<vars, watchVars>>
    BY SMT, <2>1 DEF WatchNext, EnsureController, SubmitWorkflowPayloadAcknowledgement, Acknowledged,
       CountWorkItemsForRun, waitForSubmission, persistenceControllerStatus, ShutdownWhenIdle, Serving
  <2>3. UNCHANGED <<up, client>>
    BY <2>2 DEF watchVars
  <2>4. ClientShape /\ client.told = "none" /\ client.failure = {}
    BY <1>1 DEF Gone, WatchInv, ClientInv
  <2>5. "failed" \in client.some => FailedItem'
    BY <2>2 DEF WatchInv, ClientInv, FailedItem, Items, vars, clockVars, workVars
  <2>6. ClientInv'
    <3>1. "none" \notin {"completed", "failed", "unknown"} /\ "done" \notin {"status", "plan"}
      BY SMT
    <3> QED
      BY <2>1, <2>3, <2>4, <2>5, <3>1 DEF ClientInv, ClientShape
  <2> QED
    BY <1>1, <2>3, <2>6 DEF WatchInv, Gone
<1>2. CASE RunInv
  <2>0. /\ ClientInv /\ ClientShape /\ Steps(workflow) \subseteq Nat \ {0}
        /\ "posted" \notin {"status", "plan", "done"} /\ "post" \notin {"status", "plan", "done"}
        /\ "load" \notin {"status", "plan", "done"} /\ "idle" \notin {"status", "plan", "done"}
        /\ "ensure" \notin {"status", "plan", "done"} /\ "done" \notin {"status", "plan"}
        /\ "error" \notin {"completed", "failed", "unknown"} /\ "none" \notin {"completed", "failed", "unknown"}
        /\ \A pc : pc \in {"post", "posted", "status", "plan", "load", "idle"} => pc \notin {"ensure", "done"}
    <3>1. ClientInv /\ ClientShape /\ Steps(workflow) \subseteq Nat \ {0}
      BY <1>2 DEF WatchInv, ClientInv, RunInv, SerialInv, OutputsInv, RunTypes
    <3> QED
      BY SMT, <3>1
  <2>1. ASSUME [Next]_vars
        PROVE  /\ RunInv'
               /\ (planned => planned') /\ (Complete => Complete') /\ (Lost => Lost') /\ (FailedItem => FailedItem')
    BY <1>0, <1>2, <2>1, TruthsKept
  <2>2. CASE Serving \/ UNCHANGED <<vars, watchVars>>
    <3>1. [Next]_vars /\ UNCHANGED <<up, client>>
      BY <2>2 DEF Serving, watchVars
    <3>2. ClientInv'
      BY <2>0, <2>1, <3>1 DEF ClientInv, ClientShape
    <3> QED
      BY <2>1, <3>1, <3>2 DEF WatchInv
  <2>3. ASSUME UNCHANGED vars, ClientShape', UNCHANGED up \/ up',
               client'.pc \notin {"status", "plan", "done"} => client'.told = "none",
               client'.pc # "done" => client'.failure = {},
               client'.pc \in {"status", "plan"} => planned,
               "failed" \in client'.some => "failed" \in client.some \/ FailedItem,
               client'.told = "completed" => Complete, client'.told = "failed" => Lost, client'.told # "unknown",
               \A f \in client'.failure : f.stage # -1 /\ f.step # 0,
               up' \/ client'.pc \in {"ensure", "done"}
        PROVE  WatchInv'
    <3>1. [Next]_vars
      BY <2>3
    <3>2. "failed" \in client.some => FailedItem
      BY <2>0 DEF ClientInv
    <3>3. ClientInv'
      BY <2>1, <2>3, <3>1, <3>2 DEF ClientInv
    <3> QED
      BY <2>1, <3>1, <3>3 DEF WatchInv
  <2>4. CASE EnsureController
    <3>1. client.pc = "ensure" /\ UNCHANGED vars /\ ((At("post") /\ up') \/ (Fails /\ up' = up))
      BY <2>4 DEF EnsureController
    <3>2. client.told = "none" /\ client.failure = {}
      <4>1. "ensure" # "done"
        BY SMT
      <4> QED
        BY <2>0, <3>1, <4>1 DEF ClientInv
    <3>3. CASE At("post") /\ up'
      BY <2>0, <2>3, <3>1, <3>2, <3>3, ClientMoves
    <3>4. CASE Fails /\ up' = up
      BY <2>0, <2>3, <3>1, <3>2, <3>4, ClientMoves
    <3> QED
      BY <3>1, <3>3, <3>4
  <2>5. CASE SubmitWorkflowPayloadAcknowledgement
    <3>1. client.pc = "post" /\ UNCHANGED <<vars, up>> /\ Request(At("posted"))
      BY <2>5 DEF SubmitWorkflowPayloadAcknowledgement
    <3>2. client.told = "none" /\ client.failure = {} /\ up
      BY <2>0, <3>1 DEF ClientInv
    <3>3. At("posted")
      BY <3>1, <3>2 DEF Request
    <3> QED
      BY <2>0, <2>3, <3>1, <3>2, <3>3, ClientMoves
  <2>6. CASE Acknowledged
    <3>1. /\ client.pc = "posted" /\ UNCHANGED <<vars, up>> /\ planned /\ up
          /\ At("status") \/ At("load")
      BY <2>6 DEF Acknowledged
    <3>2. client.told = "none" /\ client.failure = {}
      BY <2>0, <3>1 DEF ClientInv
    <3>3. CASE At("status")
      BY <2>0, <2>3, <3>1, <3>2, <3>3, ClientMoves
    <3>4. CASE At("load")
      BY <2>0, <2>3, <3>1, <3>2, <3>4, ClientMoves
    <3> QED
      BY <3>1, <3>3, <3>4
  <2>7. CASE CountWorkItemsForRun
    <3>1. client.pc = "status" /\ UNCHANGED <<vars, up>> /\ Request(ReadCount(Counts, "plan"))
      BY <2>7 DEF CountWorkItemsForRun
    <3>2. client.failure = {} /\ up /\ planned
      BY <2>0, <3>1 DEF ClientInv
    <3>3. ReadCount(Counts, "plan")
      BY <3>1, <3>2 DEF Request
    <3>4. /\ client.told = "completed" => Complete
          /\ client.told = "failed" => Lost
          /\ client.told # "unknown"
      BY <2>0 DEF ClientInv
    <3>5. /\ ClientShape' /\ client'.pc \in {"status", "plan"}
          /\ client'.told = client.told /\ client'.failure = client.failure
          /\ "failed" \in client'.some => "failed" \in client.some \/ FailedItem
      BY <2>0, <3>1, <3>3, ClientReads
    <3> QED
      BY <2>0, <2>3, <3>1, <3>2, <3>4, <3>5
  <2>8. CASE waitForSubmission
    <3>1. client.pc = "plan" /\ UNCHANGED <<vars, up>>
      BY <2>8 DEF waitForSubmission
    <3>2. up /\ planned
      BY <2>0, <3>1 DEF ClientInv
    <3>3. /\ ClientShape' /\ client'.some = {} /\ client'.pc \in {"status", "done"}
          /\ client'.told = "completed" => Complete
          /\ client'.told = "failed" => Lost
          /\ client'.told # "unknown"
          /\ client'.pc # "done" => client'.failure = {}
          /\ \A f \in client'.failure : f.stage # -1 /\ f.step # 0
      BY <1>2, <2>0, <2>8, <3>2, ClientTold
    <3> QED
      BY <2>0, <2>3, <3>1, <3>2, <3>3
  <2>9. CASE persistenceControllerStatus
    <3>1. client.pc = "load" /\ UNCHANGED <<vars, up>> /\ Request(ReadCount(Load, "idle"))
      BY <2>9 DEF persistenceControllerStatus
    <3>2. client.failure = {} /\ up /\ client.told = "none"
      BY <2>0, <3>1 DEF ClientInv
    <3>3. ReadCount(Load, "idle")
      BY <3>1, <3>2 DEF Request
    <3>4. /\ ClientShape' /\ client'.pc \in {"load", "idle"}
          /\ client'.told = client.told /\ client'.failure = client.failure
          /\ "failed" \in client'.some => "failed" \in client.some \/ FailedItem
      BY <2>0, <3>1, <3>3, ClientReads
    <3> QED
      BY <2>0, <2>3, <3>1, <3>2, <3>4
  <2>10. CASE ShutdownWhenIdle
    <3>0. client.pc = "idle" /\ client.told = "none" /\ client.failure = {} /\ up
      BY <2>0, <2>10 DEF ShutdownWhenIdle, ClientInv
    <3>1. CASE client.some = {} /\ ~up' /\ At("done")
      <4>1. /\ ClientShape' /\ client'.pc = "done" /\ client'.some = {}
            /\ client'.told = "none" /\ client'.failure = {}
        BY <2>0, <3>0, <3>1, ClientMoves
      <4> QED
        BY <2>0, <3>1, <4>1 DEF WatchInv, ClientInv, Gone
    <3>2. CASE UNCHANGED <<vars, up>> /\ client' = [client EXCEPT !.pc = "load", !.read = 0, !.some = {}]
      <4>1. /\ ClientShape' /\ client'.pc = "load" /\ client'.some = {}
            /\ client'.told = client.told /\ client'.failure = client.failure
        BY <2>0, <3>2 DEF ClientShape
      <4> QED
        BY <2>0, <2>3, <3>0, <3>2, <4>1
    <3>3. CASE UNCHANGED <<vars, up>> /\ Fails
      BY <2>0, <2>3, <3>0, <3>3, ClientMoves
    <3> QED
      BY <2>10, <3>0, <3>1, <3>2, <3>3 DEF ShutdownWhenIdle
  <2> QED
    BY <2>2, <2>4, <2>5, <2>6, <2>7, <2>8, <2>9, <2>10 DEF WatchNext
<1> QED
  BY <1>1, <1>2 DEF WatchInv

(* One request at a time, what a client is told when its wait ends is true *)
(* of the run and stays true: completed runs have done all their work,     *)
(* failed ones had a failure and never complete, and a failed plan names   *)
(* the stage and the step it failed at (submissionStatus,                  *)
(* failedDependencyStatus, waitForSubmission).                             *)
THEOREM WatchToldTruth ==
    ASSUME OneAtATime, NoPlanIsNone, \A w \in Workflows : StepsTogether(w) /\ Steps(w) \subseteq Nat \ {0}
    PROVE  WatchSpec => []ToldTruth
<1>1. WatchInit => WatchInv
  <2> SUFFICES ASSUME WatchInit PROVE WatchInv
    OBVIOUS
  <2>1. RunInv
    BY InitSerial DEF WatchInit, Init, RunInv, NamedInv, CarryInv
  <2>2. ClientInv
    BY SMT DEF WatchInit, ClientInv, ClientShape
  <2> QED
    BY <2>1, <2>2 DEF WatchInv
<1>2. WatchInv /\ [WatchNext]_<<vars, watchVars>> => WatchInv'
  BY WatchStep
<1>3. WatchInv => ToldTruth
  <2> SUFFICES ASSUME WatchInv PROVE ToldTruth
    OBVIOUS
  <2>1. /\ client.told = "completed" => Complete
        /\ client.told = "failed" => Lost
        /\ client.told # "unknown"
        /\ \A f \in client.failure : f.stage # -1 /\ f.step # 0
    BY DEF WatchInv, ClientInv
  <2>2. ASSUME Complete, SerialInv
        PROVE  (\A i \in Items : terminal[i] = "completed") /\ (PlanState = "completed" \/ errors > 0)
    BY <2>2, CompletedState DEF Complete
  <2>3. ASSUME Lost, SerialInv
        PROVE  PlanState # "completed" /\ (errors > 0 \/ \E i \in Items : terminal[i] = "failed")
    <3>1. "failed" # "completed"
      BY SMT
    <3>2. Failed => PlanState = "failed"
      BY <2>3, FailedState
    <3>3. FailedItem => PlanState # "completed"
      BY <2>3, <3>1, SerialCompleted DEF FailedItem, CompletedMeansDone
    <3> QED
      BY <2>3, <3>1, <3>2, <3>3 DEF Lost, Cause
  <2>4. Gone => client.told # "completed" /\ client.told # "failed"
    BY SMT DEF Gone
  <2> QED
    BY <2>1, <2>2, <2>3, <2>4 DEF ToldTruth, WatchInv, RunInv
<1> QED
  BY <1>1, <1>2, <1>3, PTL DEF WatchSpec
==============================================================================
