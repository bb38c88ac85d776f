--------------------------- MODULE DependencyPlan ---------------------------
(***************************************************************************)
(* The dependency plan of a workflow run.  The controller does not store   *)
(* it: every read derives it from the membership rows, the queued, running *)
(* and terminal work, the step output facts and, when the run has failed,  *)
(* the failed plan saved in the run's submission context.                  *)
(*                                                                         *)
(* A workflow is a record: stageOf gives each step's stage (0, 1, ...),    *)
(* stepOf each work item's step, dependsOn the items an item waits for     *)
(* inside its stage, and materialize the asset.materialize items.  A step  *)
(* no item belongs to is a fan-out over an empty list.  Skipped work is    *)
(* success and is not told apart from completed work.                      *)
(***************************************************************************)
EXTENDS Naturals, FiniteSets

CONSTANT NoPlan   \* no failed plan is saved

MembershipStates == {"queued", "running", "completed", "failed"}
StepStates == {"blocked", "ready", "active", "completed", "failed"}

Steps(w) == DOMAIN w.stageOf
Stages(w) == {w.stageOf[s] : s \in Steps(w)}
StepsOf(w, n) == {s \in Steps(w) : w.stageOf[s] = n}
WorkItems(w) == DOMAIN w.stepOf
StageOfItem(w, i) == w.stageOf[w.stepOf[i]]
StageItems(w, n) == {i \in WorkItems(w) : StageOfItem(w, i) = n}

(* The state the rows alone give a membership.                             *)
membershipFromRowsOnly(i, f) ==
    IF f.terminal[i] # "none" THEN f.terminal[i]
    ELSE IF i \in f.running THEN "running"
    ELSE "queued"

(* Terminal work first, then running, then queued, then the saved plan; a  *)
(* completion does not undo a membership the saved plan has as failed.     *)
deriveDependencyMembership(i, f) ==
    LET inSaved == f.saved # NoPlan /\ i \in DOMAIN f.saved.member
        noRow == f.terminal[i] = "none" /\ i \notin f.running \cup f.queued
        savedFailure == f.terminal[i] # "none" /\ f.saved.member[i] = "failed"
    IN  IF inSaved /\ (noRow \/ savedFailure) THEN f.saved.member[i]
        ELSE membershipFromRowsOnly(i, f)

(* Faulty: one completed item completes its step.                          *)
stepCompleteOnFirst(states, hasOutputFact) ==
    IF "failed" \in states THEN "failed"
    ELSE IF hasOutputFact \/ "completed" \in states THEN "completed"
    ELSE IF "running" \in states THEN "active"
    ELSE IF "queued" \in states THEN "ready"
    ELSE "blocked"

deriveDependencyStepState(states, hasOutputFact) ==
    IF "failed" \in states THEN "failed"
    ELSE IF hasOutputFact \/ states = {"completed"} THEN "completed"
    ELSE IF states \cap {"running", "completed"} # {} THEN "active"
    ELSE IF "queued" \in states THEN "ready"
    ELSE "blocked"

(* A saved step state counts while the step has no terminal evidence, and  *)
(* a saved failure until the step has an output.                           *)
SavedStepWins(s, states, f) ==
    /\ f.saved # NoPlan
    /\ s \notin f.facts
    /\ \/ states \cap {"completed", "failed"} = {}
       \/ f.saved.step[s] = "failed"

(* Faulty: a saved failure counts only until the step has its output.      *)
planForgetsSavedFailure(w, f) ==
    LET member == [i \in f.members |-> membershipFromRowsOnly(i, f)]
        states(s) == {member[i] : i \in {j \in f.members : w.stepOf[j] = s}}
    IN  [member |-> member,
         step |-> [s \in Steps(w) |->
                     IF SavedStepWins(s, states(s), f) THEN f.saved.step[s]
                     ELSE deriveDependencyStepState(states(s), s \in f.facts)],
         failed |-> FALSE]

(* getWorkflowDependencyState.                                             *)
DerivePlan(w, f) ==
    LET member == [i \in f.members |-> deriveDependencyMembership(i, f)]
        states(s) == {member[i] : i \in {j \in f.members : w.stepOf[j] = s}}
    IN  [member |-> member,
         step |-> [s \in Steps(w) |->
                     IF SavedStepWins(s, states(s), f) THEN f.saved.step[s]
                     ELSE deriveDependencyStepState(states(s), s \in f.facts)],
         failed |-> f.saved # NoPlan]

deriveDependencyStageState(w, plan, n) ==
    LET states == {plan.step[s] : s \in StepsOf(w, n)}
    IN  IF "failed" \in states THEN "failed"
        ELSE IF states = {"completed"} THEN "completed"
        ELSE IF states \cap {"active", "completed"} # {} THEN "active"
        ELSE IF "ready" \in states \/ n = 0 THEN "ready"
        ELSE "blocked"

deriveDependencyWorkflowState(w, plan) ==
    LET states == {deriveDependencyStageState(w, plan, n) : n \in Stages(w)}
    IN  IF "failed" \in states \/ plan.failed THEN "failed"
        ELSE IF states = {"completed"} THEN "completed"
        ELSE "running"

(* markDependencyPlanFailed for a whole stage: its steps fail, and those   *)
(* of their memberships that are not completed.                            *)
StageFailed(w, plan, n) ==
    [plan EXCEPT
        !.step = [s \in Steps(w) |-> IF w.stageOf[s] = n THEN "failed" ELSE @[s]],
        !.member = [i \in DOMAIN @ |->
            IF StageOfItem(w, i) = n /\ @[i] # "completed" THEN "failed" ELSE @[i]]]

(* The same for one work item.                                             *)
ItemFailed(w, plan, i) ==
    [plan EXCEPT !.step[w.stepOf[i]] = "failed", !.member[i] = "failed"]
=============================================================================
