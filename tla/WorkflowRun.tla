----------------------------- MODULE WorkflowRun -----------------------------
(***************************************************************************)
(* One workflow run in the controller: its submission, the workers that    *)
(* claim and report its items, and the request handlers that capture step  *)
(* outputs, release dependents and activate the next stage.  A handler is  *)
(* a sequence of store transactions with no lock around it, so handlers    *)
(* interleave between them; one read of the plan is one step.  The serial  *)
(* instances have a single handler.                                        *)
(***************************************************************************)
EXTENDS DependencyPlan, Integers, FiniteSetsExt

CONSTANTS Handlers,         \* request handlers that may run at once
          Workflows,        \* the workflows a run may be of
          MaxSecond,        \* bound on the clock
          MaxReplays,       \* bound on repeated reports
          MaxRecoveries,    \* bound on runs of an item lost with their worker
          MaxErrors,        \* bound on compile and output-capture errors
          MaxCrashes        \* bound on crashes of the controller

ASSUME WorkflowRunAssumption ==
    /\ {MaxSecond, MaxReplays, MaxRecoveries, MaxErrors, MaxCrashes} \subseteq Nat
    /\ \A w \in Workflows : /\ Stages(w) \subseteq Nat /\ Stages(w) = 0 .. Max(Stages(w))
                            /\ \A i \in WorkItems(w) : w.stepOf[i] \in Steps(w)
                            /\ w.materialize \subseteq WorkItems(w)

VARIABLES workflow, planned,        \* the run's workflow; is its plan stored
          now,                      \* seconds
          createdAt, queuedAt,      \* work_items and queued_work
          running,                  \* running_work
          terminal,                 \* latest outcome
          reported,                 \* the attempts workers reported: completed_work, failed_work
          members,                  \* workflow_dependency_work_items
          facts,                    \* workflow_step_output_facts
          saved,                    \* failed plan in the submission context
          unsaved,                  \* failed plans that requests have read and will save
          handler,                  \* what each request handler does next
          replays, recoveries, errors, crashes

clockVars == <<workflow, now>>
storeVars == <<createdAt, queuedAt>>
workVars == <<running, terminal, reported>>
planVars == <<planned, members, facts, saved, unsaved>>
boundVars == <<replays, recoveries, errors, crashes>>
vars == <<clockVars, storeVars, workVars, planVars, boundVars, handler>>

Never == -1      \* no row
Nano == -2       \* a requeue stamps nanoseconds: equal to no whole second

Items == WorkItems(workflow)
Queued == {i \in Items : queuedAt[i] # Never}
Stored == {i \in Items : createdAt[i] # Never}

Plan == DerivePlan(workflow, [members |-> members, terminal |-> terminal,
            running |-> running, queued |-> Queued, facts |-> facts, saved |-> saved])
PlanState == IF planned THEN deriveDependencyWorkflowState(workflow, Plan) ELSE "none"
StageState(n) == deriveDependencyStageState(workflow, Plan, n)

Idle == [pc |-> "idle", kind |-> "none", item |-> 0, at |-> 0, stage |-> 0, todo |-> {}]
Goto(h, pc) == handler' = [handler EXCEPT ![h].pc = pc]
Return(h) == handler' = [handler EXCEPT ![h] = Idle]

(* setWorkflowDependencyState stores failed plans and no others.           *)
setWorkflowDependencyState(plan) ==
    saved' = IF PlanState = "failed" THEN [step |-> plan.step, member |-> plan.member] ELSE saved
-----------------------------------------------------------------------------
(* Workers and the store.                                                  *)

Init ==
    /\ workflow \in Workflows
    /\ planned = FALSE
    /\ now = 0
    /\ createdAt = [i \in Items |-> Never]
    /\ queuedAt = [i \in Items |-> Never]
    /\ running = {}
    /\ terminal = [i \in Items |-> "none"]
    /\ reported = {}
    /\ members = {}
    /\ facts = {}
    /\ saved = NoPlan
    /\ unsaved = [h \in Handlers |-> NoPlan]
    /\ handler = [h \in Handlers |-> Idle]
    /\ replays = 0 /\ recoveries = 0 /\ errors = 0 /\ crashes = 0

Tick ==
    /\ now < MaxSecond
    /\ now' = now + 1
    /\ UNCHANGED <<workflow, storeVars, workVars, planVars, boundVars, handler>>

(* A worker takes any queued item; the unique index on running_work bars   *)
(* an item that is running.  The queue's order is WorkStore's subject.     *)
ClaimNextWork(i) ==
    /\ i \in Queued \ running
    /\ running' = running \cup {i}
    /\ queuedAt' = [queuedAt EXCEPT ![i] = Never]
    /\ UNCHANGED <<clockVars, createdAt, terminal, reported, planVars, boundVars, handler>>

(* The worker's session ends under it: the item is requeued unless it is   *)
(* queued already, or failed once its requeues are used up.                *)
RecoverWork(i) ==
    /\ i \in running
    /\ recoveries < MaxRecoveries
    /\ recoveries' = recoveries + 1
    /\ running' = running \ {i}
    /\ \/ /\ queuedAt' = [queuedAt EXCEPT ![i] = IF @ = Never THEN Nano ELSE @]
          /\ UNCHANGED terminal
       \/ /\ terminal' = [terminal EXCEPT ![i] = "failed"]
          /\ UNCHANGED queuedAt
    /\ UNCHANGED <<clockVars, createdAt, reported, planVars, replays, errors, crashes, handler>>

(* The outcome of i is recorded.  When i has an earlier one, the later of  *)
(* the two finish times, as the workers report them, decides which counts. *)
SettleAttempt(i, outcome) ==
    /\ i \in running
    /\ running' = running \ {i}
    /\ terminal' \in {[terminal EXCEPT ![i] = o] : o \in {outcome, terminal[i]} \ {"none"}}
    /\ reported' = reported \cup {[item |-> i, outcome |-> outcome, at |-> now]}

(* Where a handler goes after CompleteAttempt, and after FailAttempt.      *)
AfterCompletion(i) ==
    IF i \in workflow.materialize THEN "dependents" ELSE "capture"
AfterFailure(i) ==
    IF i \in workflow.materialize THEN "fail_stage" ELSE "record_failure"

Serve(h, kind, i, at, pc) ==
    /\ handler[h].pc = "idle"
    /\ handler' = [handler EXCEPT ![h] = [pc |-> pc, kind |-> kind, item |-> i, at |-> at,
                                           stage |-> StageOfItem(workflow, i), todo |-> {}]]

completePersistedWorkHandler(h, i) ==
    /\ SettleAttempt(i, "completed")
    /\ Serve(h, "complete", i, now, AfterCompletion(i))
    /\ UNCHANGED <<clockVars, storeVars, planVars, boundVars>>

failPersistedWorkHandler(h, i) ==
    /\ SettleAttempt(i, "failed")
    /\ Serve(h, "fail", i, now, AfterFailure(i))
    /\ UNCHANGED <<clockVars, storeVars, planVars, boundVars>>

(* A report comes again: CompleteAttempt or FailAttempt finds the attempt  *)
(* as it is reported, and the rest of the handler runs again.              *)
ReplayReport(h, r) ==
    /\ r \in reported
    /\ replays < MaxReplays
    /\ replays' = replays + 1
    /\ IF r.outcome = "completed" THEN Serve(h, "complete", r.item, r.at, AfterCompletion(r.item))
       ELSE Serve(h, "fail", r.item, r.at, AfterFailure(r.item))
    /\ UNCHANGED <<clockVars, storeVars, workVars, planVars, recoveries, errors, crashes>>

-----------------------------------------------------------------------------
(* Submission, from the point where the first stage has compiled.          *)

submitAdmittedWorkflow(h) ==
    /\ ~planned
    /\ handler[h].pc = "idle"
    /\ planned' = TRUE
    /\ handler' = [handler EXCEPT ![h] =
         [Idle EXCEPT !.kind = "submit", !.at = now,
                      !.pc = IF StageItems(workflow, 0) = {} THEN "empty" ELSE "queue"]]
    /\ UNCHANGED <<clockVars, storeVars, workVars, members, facts, saved, unsaved, boundVars>>

-----------------------------------------------------------------------------
(* Output capture.                                                         *)

MembersOf(s) == {i \in members : workflow.stepOf[i] = s}

(* Faulty: aggregates what has been reported so far.                       *)
outputsReadyEarly(i, plan) == workflow.stepOf[i] \notin facts

(* Every recorded item of i's step is completed and has its output: once   *)
(* the step has a fact the outputs of all but i, just reported, are pruned.*)
dependencyStepOutputsReady(i, plan) ==
    LET ofStep == MembersOf(workflow.stepOf[i])
    IN  /\ workflow.stepOf[i] \notin facts \/ ofStep = {i}
        /\ ofStep # {}
        /\ \A j \in ofStep : plan.member[j] = "completed"

(* The state of a step one of whose items has completed.                   *)
updateStepStateFromWorkItems(states) ==
    IF "failed" \in states THEN "failed"
    ELSE IF states = {"completed"} THEN "completed"
    ELSE "active"

(* A failed plan is saved, any other is not, after the output's fact.      *)
AfterFact(plan) == IF plan = NoPlan THEN "dependents" ELSE "save"

(* RecordCompletedWorkItemOutput up to its writes.  An output is refused   *)
(* before the plan is read or when it cannot be aggregated; an item        *)
(* without a membership is an error too.  Whether an output is refused is  *)
(* chosen at every report of it.                                           *)
CaptureOutput(h) ==
    LET i == handler[h].item
        s == workflow.stepOf[i]
        over == Plan.member[i] = "failed" \/ (PlanState # "running" /\ s \in facts)
        step == updateStepStateFromWorkItems({Plan.member[j] : j \in MembersOf(s)})
        plan == IF PlanState # "failed" THEN NoPlan
                ELSE [step |-> [Plan.step EXCEPT ![s] = step], member |-> Plan.member]
    IN  /\ handler[h].pc = "capture"
        /\ \/ /\ errors < MaxErrors
              /\ errors' = errors + 1
              /\ Goto(h, "record_failure")
              /\ UNCHANGED unsaved
           \/ /\ i \notin members
              /\ Goto(h, "record_failure")
              /\ UNCHANGED <<unsaved, errors>>
           \/ /\ i \in members /\ over
              /\ Goto(h, "dependents")
              /\ UNCHANGED <<unsaved, errors>>
           \/ /\ i \in members /\ ~over
              /\ unsaved' = [unsaved EXCEPT ![h] = plan]
              /\ Goto(h, IF dependencyStepOutputsReady(i, Plan) THEN "fact" ELSE AfterFact(plan))
              /\ UNCHANGED errors
        /\ UNCHANGED <<clockVars, storeVars, workVars, planned, members, facts, saved,
                       replays, recoveries, crashes>>

(* Faulty: the output is not kept.                                         *)
forgetStepOutput(h) ==
    /\ handler[h].pc = "fact"
    /\ Goto(h, AfterFact(unsaved[h]))
    /\ UNCHANGED <<clockVars, storeVars, workVars, planVars, boundVars>>

(* The fact is written from the membership list read before, which may     *)
(* have grown since.                                                       *)
upsertWorkflowStepOutputFact(h) ==
    LET s == workflow.stepOf[handler[h].item]
    IN  /\ handler[h].pc = "fact"
        /\ facts' = facts \cup {s}
        /\ Goto(h, AfterFact(unsaved[h]))
        /\ UNCHANGED <<clockVars, storeVars, workVars, planned, members, saved, unsaved, boundVars>>

(* The failed plan is saved as it was read, with the step's new state.     *)
SaveFailedPlan(h) ==
    /\ handler[h].pc = "save"
    /\ saved' = unsaved[h]
    /\ unsaved' = [unsaved EXCEPT ![h] = NoPlan]
    /\ Goto(h, "dependents")
    /\ UNCHANGED <<clockVars, storeVars, workVars, planned, members, facts, boundVars>>

(* RecordWorkItemTerminalFailure: fails the plan unless it shows the item  *)
(* failed already or its step has an output.  The request ends.            *)
RecordWorkItemTerminalFailure(h) ==
    LET i == handler[h].item
        skip == \/ i \notin members
                \/ Plan.member[i] = "failed"
                \/ Plan.member[i] = "completed" /\ workflow.stepOf[i] \in facts
    IN  /\ handler[h].pc = "record_failure"
        /\ saved' = IF skip THEN saved
                    ELSE LET p == ItemFailed(workflow, Plan, i)
                         IN  [step |-> p.step, member |-> p.member]
        /\ Return(h)
        /\ UNCHANGED <<clockVars, storeVars, workVars, planned, members, facts, unsaved, boundVars>>

(* markWorkflowStageActivationFailed.  A failed asset.materialize item     *)
(* also gets its own failure recorded afterwards.                          *)
markWorkflowStageActivationFailed(h) ==
    LET p == StageFailed(workflow, Plan, handler[h].stage)
    IN  /\ handler[h].pc = "fail_stage"
        /\ saved' = [step |-> p.step, member |-> p.member]
        /\ IF handler[h].kind = "fail" THEN Goto(h, "record_failure") ELSE Return(h)
        /\ UNCHANGED <<clockVars, storeVars, workVars, planned, members, facts, unsaved, boundVars>>

-----------------------------------------------------------------------------
(* Releasing dependents and storing a stage.                               *)

(* The items with a completed attempt, whatever came after it.             *)
Completed == {i \in Items : \E r \in reported : r.item = i /\ r.outcome = "completed"}

(* Faulty: releases a dependent when any one of its producers completes.   *)
DependentsOfAny(i) ==
    {j \in Stored \ (Queued \cup running) : terminal[j] = "none" /\ i \in workflow.dependsOn[j]}

(* Faulty: forgets the dependents that are running or done.                *)
DependentsAgain(i) ==
    {j \in Stored \ Queued :
        /\ i \in workflow.dependsOn[j]
        /\ workflow.dependsOn[j] \subseteq Completed}

ReadyDependents(i) ==
    {j \in Stored \ (Queued \cup running) :
        /\ terminal[j] = "none"
        /\ i \in workflow.dependsOn[j]
        /\ workflow.dependsOn[j] \subseteq Completed}

(* A completion handler ends here for asset.materialize items.             *)
AfterDependents(h) ==
    IF handler[h].item \in workflow.materialize THEN Return(h) ELSE Goto(h, "activate")

enqueueReadyAssetMaterializeDependents(h) ==
    LET ready == ReadyDependents(handler[h].item)
    IN  /\ handler[h].pc = "dependents"
        /\ IF ready = {} THEN AfterDependents(h)
           ELSE handler' = [handler EXCEPT ![h].pc = "enqueue", ![h].todo = ready]
        /\ UNCHANGED <<clockVars, storeVars, workVars, planVars, boundVars>>

(* enqueueWorkItems: a row with another queued_at is a conflict, the same  *)
(* queued_at is the same row.  It looks at neither running nor done work.  *)
CanEnqueue(S, at) == \A j \in S : queuedAt[j] \in {Never, at}
Enqueue(S, at) == queuedAt' = [j \in Items |-> IF j \in S THEN at ELSE queuedAt[j]]

EnqueueWorkItems(h) ==
    /\ handler[h].pc = "enqueue"
    /\ IF CanEnqueue(handler[h].todo, handler[h].at)
       THEN Enqueue(handler[h].todo, handler[h].at) /\ Goto(h, "members")
       ELSE UNCHANGED queuedAt /\ Return(h)
    /\ UNCHANGED <<clockVars, createdAt, workVars, planVars, boundVars>>

(* An error while a stage is activated fails the stage; elsewhere it ends  *)
(* the request.                                                            *)
StageError(h) == IF handler[h].kind = "activate" THEN Goto(h, "fail_stage") ELSE Return(h)

(* hasCurrentStageDependency holds for the others.                         *)
ReadyAtOnce(n) ==
    {i \in StageItems(workflow, n) : workflow.dependsOn[i] \cap StageItems(workflow, n) = {}}

(* Stores the stage's items and queues the ready ones, in one transaction. *)
QueueWorkItems(h) ==
    LET n == handler[h].stage
        at == handler[h].at
        ready == ReadyAtOnce(n)
    IN  /\ handler[h].pc = "queue"
        /\ IF /\ \A i \in StageItems(workflow, n) : createdAt[i] \in {Never, at}
              /\ CanEnqueue(ready, at)
           THEN /\ createdAt' = [i \in Items |->
                                   IF i \in StageItems(workflow, n) THEN at ELSE createdAt[i]]
                /\ Enqueue(ready, at)
                /\ handler' = [handler EXCEPT ![h].pc = "members",
                                              ![h].todo = ready \ workflow.materialize]
           ELSE UNCHANGED storeVars /\ StageError(h)
        /\ UNCHANGED <<clockVars, workVars, planVars, boundVars>>

(* One membership row, each in its own transaction, in item order.  A row  *)
(* that exists is an error.                                                *)
RecordCompiledWorkItemMembership(h) ==
    LET i == Min(handler[h].todo)
    IN  /\ handler[h].pc = "members" /\ handler[h].todo # {}
        /\ IF i \in members THEN UNCHANGED <<members, saved>> /\ StageError(h)
           ELSE /\ members' = members \cup {i}
                /\ setWorkflowDependencyState(
                     [Plan EXCEPT !.member = [j \in members \cup {i} |->
                                                IF j = i THEN "queued" ELSE @[j]]])
                /\ handler' = [handler EXCEPT ![h].todo = @ \ {i}]
        /\ UNCHANGED <<clockVars, storeVars, workVars, planned, facts, unsaved, boundVars>>

(* After the last row: submission goes on to the empty steps, a released   *)
(* dependent to activation; MarkWorkflowStageReady stores nothing.         *)
MembershipsRecorded(h) ==
    /\ handler[h].pc = "members" /\ handler[h].todo = {}
    /\ CASE handler[h].kind = "submit" -> Goto(h, "empty")
         [] handler[h].kind = "activate" -> Return(h)
         [] OTHER -> AfterDependents(h)
    /\ UNCHANGED <<clockVars, storeVars, workVars, planVars, boundVars>>

-----------------------------------------------------------------------------
(* Stage activation.                                                       *)

(* A fan-out over nothing is complete at once.  A stage all of whose steps *)
(* are complete lets the loop go on to the stage after it.                 *)
markCompiledStageEmptyStepsCompleted(h) ==
    LET n == handler[h].stage
        empty == {s \in StepsOf(workflow, n) :
                    /\ \A i \in Items : workflow.stepOf[i] # s
                    /\ Plan.step[s] \notin {"completed", "failed"}}
        plan == [Plan EXCEPT !.step = [s \in Steps(workflow) |->
                                         IF s \in empty THEN "completed" ELSE @[s]]]
        all == empty # {} /\ \A s \in StepsOf(workflow, n) : plan.step[s] = "completed"
    IN  /\ handler[h].pc = "empty"
        /\ facts' = facts \cup empty
        /\ IF empty = {} THEN UNCHANGED saved ELSE setWorkflowDependencyState(plan)
        /\ CASE all /\ handler[h].kind = "submit" -> Goto(h, "activate")
             [] all /\ handler[h].kind = "activate" -> Goto(h, "advance")
             [] ~all /\ handler[h].kind = "activate" /\ StageItems(workflow, n) # {}
                  -> Goto(h, "queue")
             [] OTHER -> Return(h)
        /\ UNCHANGED <<clockVars, storeVars, workVars, planned, members, unsaved, boundVars>>

(* Faulty: does not ask for the outputs of the earlier steps.              *)
StepsCompleted(n) ==
    \A s \in Steps(workflow) : workflow.stageOf[s] < n => Plan.step[s] = "completed"

(* compileActivationStage needs every earlier step completed, with output. *)
OutputsAvailable(n) ==
    \A s \in Steps(workflow) :
        workflow.stageOf[s] < n => Plan.step[s] = "completed" /\ s \in facts

(* The stage after n, from the plan just read.                             *)
AdvanceFrom(h, n) ==
    IF n + 1 \notin Stages(workflow) \/ StageState(n + 1) # "blocked"
    THEN Return(h) /\ UNCHANGED errors
    ELSE \/ /\ OutputsAvailable(n + 1)
            /\ handler' = [handler EXCEPT ![h].pc = "empty", ![h].kind = "activate",
                                          ![h].stage = n + 1]
            /\ UNCHANGED errors
         \/ /\ IF OutputsAvailable(n + 1)
               THEN errors < MaxErrors /\ errors' = errors + 1
               ELSE UNCHANGED errors
            /\ handler' = [handler EXCEPT ![h].pc = "fail_stage", ![h].kind = "activate",
                                          ![h].stage = n + 1]

activateNextReadyWorkflowStage(h) ==
    /\ handler[h].pc = "activate"
    /\ IF PlanState = "running" /\ StageState(handler[h].stage) = "completed"
       THEN AdvanceFrom(h, handler[h].stage)
       ELSE Return(h) /\ UNCHANGED errors
    /\ UNCHANGED <<clockVars, storeVars, workVars, planVars, replays, recoveries, crashes>>

(* Faulty: stops at a stage that has no work.                              *)
StopAfterEmptyStage(h) ==
    /\ handler[h].pc = "advance"
    /\ Return(h)
    /\ UNCHANGED <<clockVars, storeVars, workVars, planVars, boundVars>>

(* The loop's next turn: the plan is read again, its state is not asked.   *)
ContinueActivation(h) ==
    /\ handler[h].pc = "advance"
    /\ AdvanceFrom(h, handler[h].stage)
    /\ UNCHANGED <<clockVars, storeVars, workVars, planVars, replays, recoveries, crashes>>

RequestsLost ==
    /\ handler' = [h \in Handlers |-> Idle]
    /\ unsaved' = [h \in Handlers |-> NoPlan]

(* The controller dies and is started again: its transactions stand, the   *)
(* requests it was handling are gone, and nothing takes them up again.     *)
Crash ==
    /\ crashes < MaxCrashes
    /\ crashes' = crashes + 1
    /\ RequestsLost
    /\ UNCHANGED <<clockVars, storeVars, workVars, planned, members, facts, saved,
                   replays, recoveries, errors>>

-----------------------------------------------------------------------------
HandlerStep(h) ==
    \/ CaptureOutput(h)
    \/ upsertWorkflowStepOutputFact(h)
    \/ SaveFailedPlan(h)
    \/ RecordWorkItemTerminalFailure(h)
    \/ markWorkflowStageActivationFailed(h)
    \/ enqueueReadyAssetMaterializeDependents(h)
    \/ EnqueueWorkItems(h)
    \/ QueueWorkItems(h)
    \/ RecordCompiledWorkItemMembership(h)
    \/ MembershipsRecorded(h)
    \/ markCompiledStageEmptyStepsCompleted(h)
    \/ activateNextReadyWorkflowStage(h)
    \/ ContinueActivation(h)

Report(h, i) == completePersistedWorkHandler(h, i) \/ failPersistedWorkHandler(h, i)

(* What the controller and its workers do when nothing goes wrong.         *)
Progress ==
    \/ \E h \in Handlers : submitAdmittedWorkflow(h) \/ HandlerStep(h)
    \/ \E i \in Items : ClaimNextWork(i) \/ \E h \in Handlers : Report(h, i)

Next ==
    \/ Progress
    \/ Tick
    \/ Crash
    \/ \E i \in Items : RecoverWork(i)
    \/ \E h \in Handlers : \E r \in reported : ReplayReport(h, r)

Spec == Init /\ [][Next]_vars

(* A handler that has started runs on, a live worker keeps polling, and    *)
(* reports what it has claimed.  Nothing is assumed of the clock, of lost  *)
(* workers or of repeated reports.  Every behaviour takes finitely many    *)
(* steps, so weak fairness of the whole is enough.                         *)
FairSpec == Spec /\ WF_vars(Progress)

-----------------------------------------------------------------------------
(* Every variable has the shape its table or field has; a row's time is a  *)
(* second of the clock, and only a requeue stamps a queue row otherwise.   *)
TypeOK ==
    /\ workflow \in Workflows /\ planned \in BOOLEAN /\ now \in 0 .. MaxSecond
    /\ createdAt \in [Items -> {Never} \cup 0 .. MaxSecond]
    /\ queuedAt \in [Items -> {Never, Nano} \cup 0 .. MaxSecond]
    /\ running \subseteq Stored /\ Queued \subseteq Stored /\ members \subseteq Stored
    /\ terminal \in [Items -> {"none", "completed", "failed"}]
    /\ facts \subseteq Steps(workflow)
    /\ saved = NoPlan \/ (saved.step \in [Steps(workflow) -> StepStates]
                           /\ \A i \in DOMAIN saved.member : saved.member[i] \in MembershipStates)

(* An item is stored only when every item of every earlier stage has       *)
(* completed (activateNextReadyWorkflowStage).                             *)
StageOrder ==
    \A i \in Stored : \A j \in Items :
        StageOfItem(workflow, j) < StageOfItem(workflow, i) => terminal[j] = "completed"

(* Work that is running or done is never in the queue again: activating a  *)
(* stage or releasing a dependent twice must not queue it twice.           *)
QueuedOnce == \A i \in Queued : i \notin running /\ terminal[i] = "none"

(* An item waits for all the items it depends on before it is offered.     *)
DependentsWait ==
    \A i \in Queued \cup running : \A d \in workflow.dependsOn[i] : terminal[d] = "completed"

(* However handlers overlap, an item of a later stage is stored only when  *)
(* the output of every step before it is kept (compileActivationStage): it *)
(* never runs with inputs the controller does not have.                    *)
OutputsPrecede ==
    \A i \in Stored : \A s \in Steps(workflow) :
        workflow.stageOf[s] < StageOfItem(workflow, i) => s \in facts

(* A run reads as completed only when all its work has been stored and has *)
(* completed (deriveDependencyWorkflowState against the facts).            *)
CompletedMeansDone ==
    PlanState = "completed" => \A i \in Items : i \in Stored /\ terminal[i] = "completed"

(* A run fails only because work failed, an output could not be captured,  *)
(* or a stage did not compile: never because of how the controller keeps   *)
(* books (deriveDependencyWorkflowState, markDependencyPlanFailed).        *)
FailuresHaveCauses ==
    PlanState = "failed" =>
        errors > 0 \/ \E i \in Items : terminal[i] = "failed"

(* A failed run stays failed, whatever is reported for it afterwards.      *)
FailureIsFinal == [][PlanState = "failed" => PlanState' = "failed"]_vars

(* A submitted run completes or fails.                                     *)
RunFinishes == planned ~> PlanState \in {"completed", "failed"}

(* When all items of a stage have completed, the stage after it is stored  *)
(* or the run ends.  The instances have at most three stages.              *)
StagesAdvance ==
    \A n \in 0 .. 1 :
        (planned /\ n + 1 \in Stages(workflow) /\ StageItems(workflow, n) # {}
           /\ \A i \in StageItems(workflow, n) : terminal[i] = "completed")
        ~> (\/ PlanState \in {"completed", "failed"}
            \/ \E i \in Stored : StageOfItem(workflow, i) > n)
==============================================================================
