----------------------------- MODULE ItemProofs -----------------------------
(***************************************************************************)
(* Attempts of one item that publish the same targets: what an attempt has *)
(* put in a registered location is what it reports, and a failed attempt   *)
(* leaves none of its targets.  For any number of attempts and targets,    *)
(* any number of workers killed, and artifacts replaced at any time.       *)
(*                                                                         *)
(* Neither property is inductive.  Between the check of a copy and its     *)
(* rename there is only the attempt's own temporary, and what an attempt   *)
(* holds is among the targets it remembers to have placed.                 *)
(***************************************************************************)
EXTENDS ItemAttempt, TLAPS

(* Labels of an attempt that has copied nothing to a target yet.           *)
Early == {"new", "staged", "prepared", "ready", "exited", "broke", "scrubbed", "promote", "clear", "rename",
          "describe", "publish", "check"}
Copying == {"copy", "upload"}
Late == {"place", "output", "output2", "output3", "done", "late", "dead"}

ItemTypes ==
    /\ targets \subseteq Targets
    /\ DOMAIN published = Targets
    /\ pc \in [Attempts -> Early \cup Late \cup Copying \cup {"failed"}]
    /\ DOMAIN hash = Attempts
    /\ DOMAIN temp = Attempts /\ \A a \in Attempts : DOMAIN temp[a] = Targets
    /\ placed \in [Attempts -> SUBSET Registered]
    /\ DOMAIN upload = Attempts

(* A temporary that was accepted has the hash the attempt reports.         *)
CopiesChecked(a) ==
    /\ pc[a] \in Early => \A t \in Targets : temp[a][t] = None
    /\ \A t \in Targets : temp[a][t] \in {None, hash[a]}
    /\ pc[a] = "place" => \A t \in targets : temp[a][t] = hash[a]
    /\ pc[a] = "upload" => upload[a].target \in Drive

(* The attempt remembers what it has placed, and a failed one took it back.*)
RemembersPlaced(a) ==
    /\ Held(a) \subseteq placed[a]
    /\ placed[a] # {} => pc[a] \in Late \cup {"failed"}
    /\ pc[a] = "failed" => Held(a) = {}

HoldsDescribed(a) == \A t \in Held(a) : published[t].content = hash[a]

Knows(a) == CopiesChecked(a) /\ RemembersPlaced(a) /\ HoldsDescribed(a)

ItemInv == ItemTypes /\ \A a \in Attempts : Knows(a)

(* A target is in a registered location or on a drive.                     *)
TargetsDiffer == Registered \cap Drive = {}
-----------------------------------------------------------------------------
(* Nothing is published at first.                                          *)
LEMMA InitItem == Init => ItemInv
BY DEF Init, ItemInv, ItemTypes, Knows, CopiesChecked, RemembersPlaced, HoldsDescribed, Held, Targets, Early, Late

(* The invariant gives what the run checks.                                *)
LEMMA ItemImplies == ItemInv => PublishedAsDescribed /\ PublishAllOrNothing
BY Zenon DEF ItemInv, Knows, RemembersPlaced, HoldsDescribed, PublishedAsDescribed, PublishAllOrNothing, Late

(* A step of one attempt leaves the rest to the others, and what they hold *)
(* it can only replace or remove.                                          *)
OwnFrame(a) ==
    /\ UNCHANGED targets /\ ItemTypes'
    /\ \A b \in Attempts \ {a} :
           /\ pc'[b] = pc[b] /\ hash'[b] = hash[b] /\ temp'[b] = temp[b] /\ placed'[b] = placed[b]
           /\ upload'[b] = upload[b]
           /\ Held(b)' \subseteq Held(b)
           /\ \A t \in Held(b)' : published'[t] = published[t]

(* So only the attempt that takes the step has to be looked at.            *)
LEMMA OthersKnow ==
    ASSUME ItemInv, NEW a \in Attempts, OwnFrame(a), Knows(a)'
    PROVE  ItemInv'
<1>1. ASSUME NEW b \in Attempts \ {a} PROVE Knows(b)'
  <2>1. CopiesChecked(b)'
    BY DEF ItemInv, Knows, OwnFrame, CopiesChecked
  <2>2. RemembersPlaced(b)'
    BY Zenon DEF ItemInv, Knows, OwnFrame, RemembersPlaced
  <2>3. HoldsDescribed(b)'
    BY DEF ItemInv, Knows, OwnFrame, HoldsDescribed
  <2> QED
    BY Zenon, <2>1, <2>2, <2>3 DEF Knows
<1> QED
  BY Zenon, <1>1 DEF ItemInv, OwnFrame

(* A step that publishes nothing, copies nothing and reports the same hash *)
(* moves on to a label where the same is known.                            *)
LEMMA QuietStep ==
    ASSUME ItemInv, NEW a \in Attempts, NEW label \in Early \cup Late \cup {"copy", "failed"},
           UNCHANGED <<targets, published, hash, temp, upload, placed>>, pc' = [pc EXCEPT ![a] = label],
           label \in Early => pc[a] \in Early,
           label = "copy" => pc[a] \in Early \cup {"copy"},
           label = "place" => \A t \in targets : temp[a][t] = hash[a],
           label = "failed" => pc[a] \in Early \cup Copying \/ Held(a) = {}
    PROVE  ItemInv'
<1>1. pc'[a] = label /\ \A b \in Attempts \ {a} : pc'[b] = pc[b]
  BY Zenon DEF ItemInv, ItemTypes
<1>2. \A b \in Attempts : Held(b)' = Held(b)
  BY Zenon DEF Held
<1>3. OwnFrame(a)
  <2>1. ItemTypes'
    BY Zenon DEF ItemInv, ItemTypes, Copying
  <2> QED
    BY Zenon, <1>1, <1>2, <2>1 DEF OwnFrame
<1>4. CopiesChecked(a)'
  <2>1. label # "upload"
    BY DEF Early, Late
  <2> QED
    BY Zenon, <1>1, <2>1 DEF ItemInv, Knows, CopiesChecked, Early
<1>5. RemembersPlaced(a)'
  BY ZenonT(30), <1>1, <1>2 DEF ItemInv, Knows, RemembersPlaced, Early, Late, Copying
<1>6. HoldsDescribed(a)'
  BY Zenon, <1>2 DEF ItemInv, Knows, HoldsDescribed
<1> QED
  BY Zenon, <1>3, <1>4, <1>5, <1>6, OthersKnow DEF Knows

(* Running the script, promoting its artifact, writing the output.         *)
LEMMA RunKeeps ==
    ASSUME ItemInv, NEW a \in Attempts,
           \/ stageWorkItemSourceBundle(a) \/ prepareInputs(a) \/ materializePythonProtectedRefs(a)
           \/ runPythonProcess(a) \/ scrubPythonSubprocessLogs(a) \/ readPythonOutput(a)
           \/ copyArtifactToTemp(a) \/ PromoteArtifacts(a)
           \/ publishPlanForTarget(a) \/ checkPublishDestinationAvailable(a)
           \/ writeOutput(a) \/ Crash(a)
    PROVE  ItemInv'
<1> USE DEF Goto, Return, item, own, publishing
<1>1. UNCHANGED <<targets, published, hash, temp, upload, placed>>
  BY Zenon DEF stageWorkItemSourceBundle, prepareInputs, materializePythonProtectedRefs, runPythonProcess,
     scrubPythonSubprocessLogs, readPythonOutput, copyArtifactToTemp, PromoteArtifacts,
     publishPlanForTarget, checkPublishDestinationAvailable, writeOutput, Crash
<1>2. PICK label \in Early \cup Late \cup {"copy", "failed"} :
          /\ pc' = [pc EXCEPT ![a] = label]
          /\ label \in Early \cup {"copy", "failed"} => pc[a] \in Early
          /\ label # "place"
  <2>1. CASE \/ stageWorkItemSourceBundle(a) \/ prepareInputs(a) \/ materializePythonProtectedRefs(a)
             \/ runPythonProcess(a) \/ scrubPythonSubprocessLogs(a)
    BY Zenon, <2>1 DEF stageWorkItemSourceBundle, prepareInputs, materializePythonProtectedRefs, runPythonProcess,
       scrubPythonSubprocessLogs, Early
  <2>2. CASE readPythonOutput(a) \/ copyArtifactToTemp(a) \/ PromoteArtifacts(a)
    BY Zenon, <2>2 DEF readPythonOutput, copyArtifactToTemp, PromoteArtifacts, Early, Late
  <2>3. CASE publishPlanForTarget(a)
    BY Zenon, <2>3 DEF publishPlanForTarget, Early, Late
  <2>5. CASE checkPublishDestinationAvailable(a)
    BY Zenon, <2>5 DEF checkPublishDestinationAvailable, Early
  <2>4. CASE writeOutput(a) \/ Crash(a)
    BY Zenon, <2>4 DEF writeOutput, Crash, Early, Late
  <2> QED
    BY Zenon, <2>1, <2>2, <2>3, <2>4, <2>5
<1> QED
  BY Zenon, <1>1, <1>2, QuietStep

(* The descriptor is taken before anything is copied or placed.            *)
LEMMA DescribeKeeps ==
    ASSUME ItemInv, NEW a \in Attempts, promotedArtifactDescriptor(a)
    PROVE  ItemInv'
<1> USE DEF Goto, Return, item, publishing
<1>1. CASE artifact = None
  <2>1. /\ UNCHANGED <<targets, published, hash, temp, upload, placed>> /\ pc' = [pc EXCEPT ![a] = "failed"]
        /\ pc[a] \in Early
    BY Zenon, <1>1 DEF promotedArtifactDescriptor, Early
  <2> QED
    BY Zenon, <2>1, QuietStep DEF Early
<1>2. CASE artifact # None
  <2>1. /\ UNCHANGED <<targets, published, temp, upload, placed>> /\ pc' = [pc EXCEPT ![a] = "publish"]
        /\ pc[a] = "describe" /\ hash' = [hash EXCEPT ![a] = artifact]
    BY Zenon, <1>2 DEF promotedArtifactDescriptor
  <2>2. /\ \A t \in Targets : temp[a][t] = None
        /\ placed[a] = {} /\ Held(a) = {}
    BY Zenon, <2>1 DEF ItemInv, Knows, CopiesChecked, RemembersPlaced, Early, Late
  <2>3. \A b \in Attempts : Held(b)' = Held(b)
    BY Zenon, <2>1 DEF Held
  <2>4. OwnFrame(a)
    BY Zenon, <2>1, <2>3 DEF ItemInv, ItemTypes, OwnFrame, Early
  <2>5. Knows(a)'
    BY <2>1, <2>2, <2>3 DEF ItemInv, ItemTypes, Knows, CopiesChecked, RemembersPlaced, HoldsDescribed
  <2> QED
    BY Zenon, <2>4, <2>5, OthersKnow
<1> QED
  BY Zenon, <1>1, <1>2

(* A copy or a hash is compared with the descriptor before it counts.      *)
LEMMA VerifiedKeeps ==
    ASSUME ItemInv, NEW a \in Attempts, NEW t \in Targets, NEW evidence, Verified(a, t, evidence), pc[a] \in Copying,
           UNCHANGED <<targets, hash, placed>>, DOMAIN published' = Targets, DOMAIN upload' = Attempts,
           \A b \in Attempts \ {a} : upload'[b] = upload[b],
           \A r \in Registered : published'[r] = published[r]
    PROVE  ItemInv'
<1> USE DEF Goto, Return
<1>1. placed[a] = {} /\ Held(a) = {}
  BY Zenon DEF ItemInv, Knows, RemembersPlaced, Late, Copying
<1>2. \A b \in Attempts : Held(b)' = Held(b)
  BY Zenon DEF Held
<1>3. CASE temp' = [temp EXCEPT ![a][t] = evidence] /\ pc' = [pc EXCEPT ![a] = "copy"] /\ evidence = hash[a]
  <2>1. OwnFrame(a)
    BY Zenon, <1>2, <1>3 DEF ItemInv, ItemTypes, OwnFrame, Held, Copying
  <2>2. Knows(a)'
    BY <1>1, <1>2, <1>3 DEF ItemInv, ItemTypes, Knows, CopiesChecked, RemembersPlaced, HoldsDescribed, Early, Late
  <2> QED
    BY Zenon, <2>1, <2>2, OthersKnow
<1>4. CASE pc' = [pc EXCEPT ![a] = "failed"] /\ UNCHANGED temp
  <2>1. OwnFrame(a)
    BY Zenon, <1>2, <1>4 DEF ItemInv, ItemTypes, OwnFrame, Held
  <2>2. Knows(a)'
    BY <1>1, <1>2, <1>4 DEF ItemInv, ItemTypes, Knows, CopiesChecked, RemembersPlaced, HoldsDescribed, Early, Late
  <2> QED
    BY Zenon, <2>1, <2>2, OthersKnow
<1> QED
  BY Zenon, <1>3, <1>4 DEF Verified, verifyPublishedArtifactEvidence

(* Copying changes no registered target, and neither does an upload to a   *)
(* drive.                                                                  *)
LEMMA CopyKeeps ==
    ASSUME TargetsDiffer, ItemInv, NEW a \in Attempts, publishArtifactForPlan(a)
    PROVE  ItemInv'
<1> USE DEF Goto, Return, item
<1>1. UNCHANGED <<targets, hash, placed>>
  BY Zenon DEF publishArtifactForPlan
<1>2. ASSUME pc[a] = "copy", NEW t \in Uncopied(a), Verified(a, t, artifact), UNCHANGED <<published, upload>>
      PROVE  ItemInv'
  <2>1. t \in Targets
    BY Zenon DEF Uncopied, ItemInv, ItemTypes
  <2> QED
    BY Zenon, <1>1, <1>2, <2>1, VerifiedKeeps DEF ItemInv, ItemTypes, Copying
<1>3. ASSUME pc[a] = "copy", NEW t \in Uncopied(a) \cap Drive, pc' = [pc EXCEPT ![a] = "upload"],
             upload' = [upload EXCEPT ![a] = [target |-> t, evidence |-> artifact]], UNCHANGED <<published, temp>>
      PROVE  ItemInv'
  <2>1. \A b \in Attempts : Held(b)' = Held(b)
    BY Zenon, <1>3 DEF Held
  <2>2. OwnFrame(a)
    BY Zenon, <1>1, <1>3, <2>1 DEF ItemInv, ItemTypes, OwnFrame, Copying
  <2>3. upload'[a].target = t /\ pc'[a] = "upload"
    BY <1>3 DEF ItemInv, ItemTypes
  <2>4. CopiesChecked(a)'
    BY Zenon, <1>1, <1>3, <2>3 DEF ItemInv, Knows, CopiesChecked, Early
  <2>5. RemembersPlaced(a)' /\ HoldsDescribed(a)'
    BY Zenon, <1>1, <1>3, <2>1, <2>3 DEF ItemInv, Knows, RemembersPlaced, HoldsDescribed, Late
  <2> QED
    BY Zenon, <2>2, <2>4, <2>5, OthersKnow DEF Knows
<1>4. ASSUME pc[a] = "upload", Verified(a, upload[a].target, upload[a].evidence), upload' = [upload EXCEPT ![a] = None],
             published' = [published EXCEPT ![upload[a].target] = [by |-> a, content |-> artifact]]
      PROVE  ItemInv'
  <2>1. upload[a].target \in Drive
    BY Zenon, <1>4 DEF ItemInv, Knows, CopiesChecked
  <2>2. \A r \in Registered : published'[r] = published[r]
    BY Zenon, <1>4, <2>1 DEF TargetsDiffer, ItemInv, ItemTypes, Targets
  <2>3. /\ DOMAIN published' = Targets /\ DOMAIN upload' = Attempts
        /\ \A b \in Attempts \ {a} : upload'[b] = upload[b]
    BY Zenon, <1>4 DEF ItemInv, ItemTypes
  <2> QED
    BY Zenon, <1>1, <1>4, <2>1, <2>2, <2>3, VerifiedKeeps DEF Targets, Copying
<1>5. ASSUME pc[a] \in Copying, pc' = [pc EXCEPT ![a] = "failed"], UNCHANGED <<published, temp, upload>>
      PROVE  ItemInv'
  BY Zenon, <1>1, <1>5, QuietStep DEF Early
<1> QED
  BY Zenon, <1>2, <1>3, <1>4, <1>5 DEF publishArtifactForPlan, Copying

(* The renames put checked copies in place, and replace what others have   *)
(* there.                                                                  *)
LEMMA PlaceKeeps ==
    ASSUME ItemInv, NEW a \in Attempts, PlaceTargets(a)
    PROVE  ItemInv'
<1> USE DEF Goto, item
<1>1. UNCHANGED <<targets, hash, temp, upload>>
  BY Zenon DEF PlaceTargets
<1>2. CASE pc[a] = "copy" /\ Uncopied(a) = {} /\ Goto(a, "place") /\ UNCHANGED <<published, placed>>
  <2>1. \A t \in targets : temp[a][t] = hash[a]
    BY Zenon, <1>2 DEF Uncopied, ItemInv, ItemTypes, Knows, CopiesChecked
  <2> QED
    BY Zenon, <1>1, <1>2, <2>1, QuietStep DEF Late, Early
<1>3. CASE pc[a] = "place" /\ UNCHANGED <<published, placed>>
           /\ \E l \in IF kind = "commit_data" THEN {"done", "late"} ELSE {"output"} : Goto(a, l)
  <2>1. PICK label \in {"done", "late", "output"} : pc' = [pc EXCEPT ![a] = label]
    BY Zenon, <1>3
  <2> QED
    BY Zenon, <1>1, <1>3, <2>1, QuietStep DEF Late, Early
<1>4. ASSUME NEW t \in Unplaced(a), pc[a] = "place", UNCHANGED pc,
             published' = [published EXCEPT ![t] = [by |-> a, content |-> temp[a][t]]],
             placed' = [placed EXCEPT ![a] = @ \cup {t}]
      PROVE  ItemInv'
  <2>1. t \in Registered /\ t \in Targets /\ t \in targets
    BY Zenon DEF Unplaced, ItemInv, ItemTypes
  <2>2. temp[a][t] = hash[a]
    BY Zenon, <1>4, <2>1 DEF ItemInv, Knows, CopiesChecked
  <2>3. \A b \in Attempts \ {a} : Held(b)' = Held(b) \ {t}
    BY <1>4, <2>1 DEF Held, ItemInv, ItemTypes
  <2>4. Held(a)' \subseteq Held(a) \cup {t}
    BY <1>4, <2>1 DEF Held, ItemInv, ItemTypes
  <2>5. \A r \in Targets \ {t} : published'[r] = published[r]
    BY Zenon, <1>4 DEF ItemInv, ItemTypes
  <2>6. \A b \in Attempts : Held(b) \subseteq Targets
    BY Zenon DEF Held, Targets
  <2>7. OwnFrame(a)
    <3>1. ItemTypes'
      BY Zenon, <1>1, <1>4, <2>1 DEF ItemInv, ItemTypes
    <3>2. \A b \in Attempts \ {a} : Held(b)' \subseteq Held(b) /\ \A r \in Held(b)' : published'[r] = published[r]
      BY Zenon, <2>3, <2>5, <2>6
    <3>3. \A b \in Attempts \ {a} : placed'[b] = placed[b]
      BY Zenon, <1>4 DEF ItemInv, ItemTypes
    <3> QED
      BY Zenon, <1>1, <1>4, <3>1, <3>2, <3>3 DEF OwnFrame
  <2>8. CopiesChecked(a)'
    BY Zenon, <1>1, <1>4 DEF ItemInv, Knows, CopiesChecked
  <2>9. RemembersPlaced(a)'
    <3>1. placed'[a] = placed[a] \cup {t}
      BY Zenon, <1>4 DEF ItemInv, ItemTypes
    <3> QED
      BY Zenon, <1>4, <2>4, <3>1 DEF ItemInv, Knows, RemembersPlaced, Late
  <2>10. HoldsDescribed(a)'
    <3>1. published'[t].content = hash[a]
      BY Zenon, <1>4, <2>1, <2>2 DEF ItemInv, ItemTypes
    <3> QED
      BY Zenon, <1>1, <2>4, <2>5, <2>6, <3>1 DEF ItemInv, Knows, HoldsDescribed
  <2> QED
    BY Zenon, <2>7, <2>8, <2>9, <2>10, OthersKnow DEF Knows
<1> QED
  BY Zenon, <1>2, <1>3, <1>4 DEF PlaceTargets

(* When a rename fails, all that was placed is removed.                    *)
LEMMA RenameFailsKeeps ==
    ASSUME ItemInv, NEW a \in Attempts, RenameFails(a)
    PROVE  ItemInv'
<1>1. /\ UNCHANGED <<targets, hash, temp, upload, placed>> /\ pc' = [pc EXCEPT ![a] = "failed"] /\ pc[a] = "place"
      /\ published' = [t \in Targets |-> IF t \in placed[a] THEN None ELSE published[t]]
  BY Zenon DEF RenameFails, rollbackPublishedTargets, Goto, Return, item, publishing
<1>2. \A b \in Attempts : Held(b)' = Held(b) \ placed[a]
  BY Zenon, <1>1 DEF Held, Targets
<1>3. \A b \in Attempts : \A t \in Held(b)' : published'[t] = published[t]
  BY Zenon, <1>1, <1>2 DEF Held, Targets
<1>4. OwnFrame(a)
  BY Zenon, <1>1, <1>2, <1>3 DEF OwnFrame, ItemInv, ItemTypes
<1>5. Held(a)' = {}
  BY Zenon, <1>2 DEF ItemInv, Knows, RemembersPlaced
<1>6. Knows(a)'
  BY Zenon, <1>1, <1>5 DEF ItemInv, ItemTypes, Knows, CopiesChecked, RemembersPlaced, HoldsDescribed, Early
<1> QED
  BY Zenon, <1>4, <1>6, OthersKnow

(* Every step keeps the invariant.                                         *)
LEMMA NextItem ==
    ASSUME TargetsDiffer, ItemInv, [Next]_vars
    PROVE  ItemInv'
<1>1. CASE UNCHANGED vars \/ ProducerAgain \/ ProducerRenames
  <2>1. UNCHANGED <<targets, published, pc, hash, temp, upload, placed>>
    BY Zenon, <1>1 DEF ProducerAgain, ProducerRenames, vars, item, own, publishing
  <2>2. ItemTypes'
    BY Zenon, <2>1 DEF ItemInv, ItemTypes
  <2>3. ASSUME NEW b \in Attempts PROVE Knows(b)'
    BY <2>1 DEF ItemInv, Knows, CopiesChecked, RemembersPlaced, HoldsDescribed, Held
  <2> QED
    BY Zenon, <2>2, <2>3 DEF ItemInv
<1> QED
  BY Zenon, <1>1, RunKeeps, DescribeKeeps, CopyKeeps, PlaceKeeps, RenameFailsKeeps DEF Next

(* The invariant holds throughout.                                         *)
LEMMA ItemInvariant == ASSUME TargetsDiffer PROVE Spec => []ItemInv
<1>1. ItemInv /\ [Next]_vars => ItemInv'
  BY Zenon, NextItem
<1> QED
  BY InitItem, <1>1, PTL DEF Spec

(* What an attempt has in a registered location is the artifact it         *)
(* describes, although other attempts replace artifact and targets.        *)
THEOREM ItemPublishedAsDescribed == ASSUME TargetsDiffer PROVE Spec => []PublishedAsDescribed
BY ItemInvariant, ItemImplies, PTL

(* An attempt that fails while it publishes has left none of its           *)
(* registered targets.                                                     *)
THEOREM ItemPublishAllOrNothing == ASSUME TargetsDiffer PROVE Spec => []PublishAllOrNothing
BY ItemInvariant, ItemImplies, PTL
=============================================================================
