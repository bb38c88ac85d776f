--------------------------- MODULE MCWorkflowRun ---------------------------
(* Workflows for TLC.  Steps and items are numbered from 1.                *)
EXTENDS WorkflowRun, TLC

NoDeps(S) == [i \in S |-> {}]

(* Two items, then one.                                                    *)
FanOutThenOne == [stageOf |-> <<0, 1>>, stepOf |-> <<1, 1, 2>>,
                  dependsOn |-> NoDeps(1 .. 3), materialize |-> {}]

(* One item, then two.                                                     *)
OneThenFanOut == [stageOf |-> <<0, 1>>, stepOf |-> <<1, 2, 2>>,
                  dependsOn |-> NoDeps(1 .. 3), materialize |-> {}]

(* Two parallel steps, an empty fan-out, and a last stage.                 *)
ParallelEmptyLast == [stageOf |-> <<0, 0, 1, 2>>, stepOf |-> <<1, 2, 4>>,
                      dependsOn |-> NoDeps(1 .. 3), materialize |-> {}]

(* The first stage is empty; the second has an empty step beside a full    *)
(* one.                                                                    *)
EmptyFirst == [stageOf |-> <<0, 1, 1, 2>>, stepOf |-> <<2, 4>>,
               dependsOn |-> NoDeps(1 .. 2), materialize |-> {}]

(* A commit_data item beside the one item it publishes.                    *)
OneCommit == [stageOf |-> <<0, 0, 1>>, stepOf |-> <<1, 2, 3>>,
              dependsOn |-> <<{}, {1}, {}>>, materialize |-> {}]

(* A commit_data item for each of two items, in the stage of both.         *)
TwoCommits == [stageOf |-> <<0, 0, 1>>, stepOf |-> <<1, 1, 2, 2, 3>>,
               dependsOn |-> <<{}, {}, {1}, {2}, {}>>, materialize |-> {}]

(* A dependent of two items of its stage.                                  *)
Join == [stageOf |-> <<0, 0, 1>>, stepOf |-> <<1, 1, 2, 3>>,
         dependsOn |-> <<{}, {}, {1, 2}, {}>>, materialize |-> {}]

(* A stage of nothing but materialized assets, then a step that uses them. *)
AssetStage == [stageOf |-> <<0, 1>>, stepOf |-> <<1, 2>>,
               dependsOn |-> NoDeps(1 .. 2), materialize |-> {1}]

(* An asset and, in its stage, the item that waits for it; then another.   *)
AssetThenUse == [stageOf |-> <<0, 0, 1>>, stepOf |-> <<1, 2, 3>>,
                 dependsOn |-> <<{}, {1}, {}>>, materialize |-> {1}]

SerialWorkflows == {FanOutThenOne, OneThenFanOut, ParallelEmptyLast, EmptyFirst, OneCommit, Join}
OverlapWorkflows == {FanOutThenOne}
RacingWorkflows == {FanOutThenOne, Join, AssetThenUse}
CommitWorkflows == {TwoCommits}
AssetWorkflows == {AssetStage}

(* Handlers differ in name only.                                           *)
HandlerSymmetry == Permutations(Handlers)
============================================================================
