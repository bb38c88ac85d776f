---------------------------- MODULE ItemAttempt ----------------------------
(***************************************************************************)
(* Attempts of one work item that leaves files: a Python script, whose     *)
(* artifacts are promoted and published, or a commit_data item, which only *)
(* publishes (cmd/worker: work_python.go, source_bundle.go,                *)
(* artifact_promotion.go, published_asset.go).  The paths they write are   *)
(* named after the item, not the attempt, so an attempt that was given up  *)
(* for lost and its successor write the same ones.                         *)
(*                                                                         *)
(* The content of a file is whoever produced it: an attempt, or Producer   *)
(* for the artifact of the item a commit_data item depends on.  A hash is  *)
(* the content it was taken of.  The artifacts of a script are promoted    *)
(* one after the other, each in the same way: one stands for them.         *)
(***************************************************************************)
EXTENDS Naturals, FiniteSets

CONSTANTS Attempts, None, Producer,
          Registered, Drive,   \* publish targets in a registered location, and on a drive
          MaxCrashes           \* bound on the workers killed

VARIABLES kind,                \* "python_script" or "commit_data"
          targets,             \* the publish targets bound to the item
          artifact,            \* the artifact under its final path in the data directory
          published,           \* what each target holds, and by whom
          output,              \* the item's output file
          pc,
          secrets,             \* attempts with secret files in their work directory
          logs,                \* state of an attempt's subprocess logs
          hash,                \* the artifact descriptor an attempt reports
          checked,             \* the targets it has found unused
          temp,                \* what its publish temporaries were copied from
          upload,              \* the upload to a drive it is busy with, and what it hashed for it
          placed,              \* the targets it has renamed into place
          crashes

vars == <<kind, targets, artifact, published, output, pc, secrets, logs, hash, checked, temp, upload,
          placed, crashes>>
item == <<kind, targets>>
publishing == <<checked, temp, upload, placed>>
own == <<secrets, logs, hash, publishing>>
Targets == Registered \cup Drive

Init ==
    /\ kind \in {"python_script", "commit_data"}
    /\ targets \in SUBSET Targets
    /\ kind = "commit_data" => Cardinality(targets) = 1
    /\ artifact = IF kind = "commit_data" THEN Producer ELSE None
    /\ published = [t \in Targets |-> None]
    /\ output = None
    /\ pc = [a \in Attempts |-> "new"]
    /\ secrets = {}
    /\ logs = [a \in Attempts |-> None]
    /\ hash = [a \in Attempts |-> artifact]
    /\ checked = [a \in Attempts |-> {}]
    /\ temp = [a \in Attempts |-> [t \in Targets |-> None]]
    /\ upload = [a \in Attempts |-> None]
    /\ placed = [a \in Attempts |-> {}]
    /\ crashes = 0

Goto(a, l) == pc' = [pc EXCEPT ![a] = l]

(* Every return runs the deferred cleanup of the secret files.             *)
Return(a, l) == Goto(a, l) /\ secrets' = secrets \ {a}
-----------------------------------------------------------------------------
(* The source bundle is fetched, its entries validated and extracted into  *)
(* the attempt's own directory.                                            *)
stageWorkItemSourceBundle(a) ==
    /\ pc[a] = "new" /\ kind = "python_script"
    /\ \E l \in {"staged", "failed"} : Return(a, l)
    /\ UNCHANGED <<item, artifact, published, output, logs, hash, publishing, crashes>>

(* Entry point, environment, arguments, data assets, input document, log   *)
(* files.                                                                  *)
prepareInputs(a) ==
    /\ pc[a] = "staged"
    /\ \/ Return(a, "prepared") /\ logs' = [logs EXCEPT ![a] = "empty"]
       \/ Return(a, "failed") /\ UNCHANGED logs
    /\ UNCHANGED <<item, artifact, published, output, hash, publishing, crashes>>

(* Secrets go into the environment or into files; a reference that cannot  *)
(* be resolved removes the files made so far.                              *)
materializePythonProtectedRefs(a) ==
    /\ pc[a] = "prepared"
    /\ \/ Goto(a, "ready") /\ secrets' \in {secrets, secrets \cup {a}}
       \/ Return(a, "failed")
    /\ UNCHANGED <<item, artifact, published, output, logs, hash, publishing, crashes>>

(* The process does not start, fails, or ends well.                        *)
runPythonProcess(a) ==
    /\ pc[a] = "ready"
    /\ \/ Return(a, "failed") /\ UNCHANGED logs
       \/ /\ \E l \in {"exited", "broke"} : Goto(a, l)
          /\ logs' = [logs EXCEPT ![a] = "raw"]
          /\ UNCHANGED secrets
    /\ UNCHANGED <<item, artifact, published, output, hash, publishing, crashes>>

scrubPythonSubprocessLogs(a) ==
    /\ pc[a] \in {"exited", "broke"}
    /\ \/ /\ logs' = [logs EXCEPT ![a] = "scrubbed"]
          /\ IF pc[a] = "broke" THEN Return(a, "failed") ELSE Goto(a, "scrubbed") /\ UNCHANGED secrets
       \/ Return(a, "failed") /\ UNCHANGED logs
    /\ UNCHANGED <<item, artifact, published, output, hash, publishing, crashes>>

(* Log lines go to the controller as they now are, whether or not they     *)
(* arrive; then output.json is read, and refused when it is missing, holds *)
(* a secret or declares a malformed artifact.                              *)
readPythonOutput(a) ==
    /\ pc[a] = "scrubbed"
    /\ logs' = [logs EXCEPT ![a] = IF @ = "scrubbed" THEN "sent" ELSE "leaked"]
    /\ \/ \E l \in {"promote", "output"} : Goto(a, l) /\ UNCHANGED secrets
       \/ Return(a, "failed")
    /\ UNCHANGED <<item, artifact, published, output, hash, publishing, crashes>>
-----------------------------------------------------------------------------
(* PromoteArtifacts copies the artifact beside its final path, removes     *)
(* what is there, renames, and takes the hash of what it then finds.       *)
copyArtifactToTemp(a) ==
    /\ pc[a] = "promote"
    /\ \/ Goto(a, "clear") /\ UNCHANGED secrets
       \/ Return(a, "failed")
    /\ UNCHANGED <<item, artifact, published, output, logs, hash, publishing, crashes>>

PromoteArtifacts(a) ==
    /\ \/ pc[a] = "clear" /\ artifact' = None /\ Goto(a, "rename") /\ UNCHANGED secrets
       \/ pc[a] = "rename" /\ artifact' = a /\ Goto(a, "describe") /\ UNCHANGED secrets
       \/ pc[a] \in {"clear", "rename"} /\ UNCHANGED artifact /\ Return(a, "failed")
    /\ UNCHANGED <<item, published, output, logs, hash, publishing, crashes>>

promotedArtifactDescriptor(a) ==
    /\ pc[a] = "describe"
    /\ IF artifact = None
       THEN Return(a, "failed") /\ UNCHANGED hash
       ELSE /\ hash' = [hash EXCEPT ![a] = artifact]
            /\ Goto(a, "publish") /\ UNCHANGED secrets
    /\ UNCHANGED <<item, artifact, published, output, logs, publishing, crashes>>
-----------------------------------------------------------------------------
(* A commit_data attempt starts here, with its producer's descriptor.      *)
(* Without targets there is nothing to do; otherwise the artifact must be  *)
(* there and names and destinations distinct.                              *)
publishPlanForTarget(a) ==
    /\ pc[a] = IF kind = "commit_data" THEN "new" ELSE "publish"
    /\ \/ targets = {} /\ Goto(a, "output") /\ UNCHANGED secrets
       \/ targets # {} /\ artifact # None /\ Goto(a, "check") /\ UNCHANGED secrets
       \/ Return(a, "failed")
    /\ UNCHANGED <<item, artifact, published, output, logs, hash, publishing, crashes>>

(* No destination may exist: they are looked at one after the other.       *)
checkPublishDestinationAvailable(a) ==
    /\ pc[a] = "check"
    /\ \/ \E t \in targets \ checked[a] :
              /\ published[t] = None
              /\ checked' = [checked EXCEPT ![a] = @ \cup {t}]
              /\ Goto(a, IF targets \subseteq checked'[a] THEN "copy" ELSE "check")
              /\ UNCHANGED secrets
       \/ Return(a, "failed") /\ UNCHANGED checked
    /\ UNCHANGED <<item, artifact, published, output, logs, hash, temp, upload, placed, crashes>>

(* Faulty: what was copied is not compared with the descriptor.            *)
AcceptCopied(a, evidence) == TRUE

verifyPublishedArtifactEvidence(a, evidence) == evidence = hash[a]

Uncopied(a) == {t \in targets : temp[a][t] = None}

Verified(a, t, evidence) ==
    IF verifyPublishedArtifactEvidence(a, evidence)
    THEN temp' = [temp EXCEPT ![a][t] = evidence] /\ Goto(a, "copy") /\ UNCHANGED secrets
    ELSE Return(a, "failed") /\ UNCHANGED temp

(* One target after the other: for a registered one the artifact is copied *)
(* to a temporary and the copy compared with the descriptor; for one on a  *)
(* drive it is hashed, uploaded, and the hash compared after.              *)
publishArtifactForPlan(a) ==
    /\ \/ /\ pc[a] = "copy" /\ artifact # None
          /\ \E t \in Uncopied(a) \cap Registered : Verified(a, t, artifact)
          /\ UNCHANGED <<published, upload>>
       \/ /\ pc[a] = "copy" /\ artifact # None
          /\ \E t \in Uncopied(a) \cap Drive : upload' = [upload EXCEPT ![a] = [target |-> t, evidence |-> artifact]]
          /\ Goto(a, "upload")
          /\ UNCHANGED <<published, temp, secrets>>
       \/ /\ pc[a] = "upload" /\ artifact # None
          /\ published' = [published EXCEPT ![upload[a].target] = [by |-> a, content |-> artifact]]
          /\ Verified(a, upload[a].target, upload[a].evidence)
          /\ upload' = [upload EXCEPT ![a] = None]
       \/ /\ (pc[a] = "copy" /\ Uncopied(a) # {}) \/ pc[a] = "upload"
          /\ Return(a, "failed")
          /\ UNCHANGED <<published, temp, upload>>
    /\ UNCHANGED <<item, artifact, output, logs, hash, checked, placed, crashes>>

Unplaced(a) == (targets \cap Registered) \ placed[a]

(* The renames, which replace whatever is there by now.  Then the commit's *)
(* manifest is validated and encoded, and fails too late.                  *)
PlaceTargets(a) ==
    /\ \/ /\ pc[a] = "copy" /\ Uncopied(a) = {}
          /\ Goto(a, "place")
          /\ UNCHANGED <<published, placed>>
       \/ /\ pc[a] = "place"
          /\ \E t \in Unplaced(a) :
                /\ published' = [published EXCEPT ![t] = [by |-> a, content |-> temp[a][t]]]
                /\ placed' = [placed EXCEPT ![a] = @ \cup {t}]
          /\ UNCHANGED pc
       \/ /\ pc[a] = "place" /\ Unplaced(a) = {}
          /\ \E l \in IF kind = "commit_data" THEN {"done", "late"} ELSE {"output"} : Goto(a, l)
          /\ UNCHANGED <<published, placed>>
    /\ UNCHANGED <<item, artifact, output, secrets, logs, hash, checked, temp, upload, crashes>>

(* Faulty: a failed rename leaves the targets already placed.              *)
KeepPublishedTargets(a) == UNCHANGED published

(* What was renamed so far is removed, by path.                            *)
rollbackPublishedTargets(a) ==
    published' = [t \in Targets |-> IF t \in placed[a] THEN None ELSE published[t]]

RenameFails(a) ==
    /\ pc[a] = "place" /\ Unplaced(a) # {}
    /\ rollbackPublishedTargets(a)
    /\ Return(a, "failed")
    /\ UNCHANGED <<item, artifact, output, logs, hash, publishing, crashes>>
-----------------------------------------------------------------------------
(* atomicWriteFile of the logical output, then the state found afterwards. *)
writeOutput(a) ==
    /\ \/ pc[a] = "output" /\ output' = None /\ Goto(a, "output2") /\ UNCHANGED secrets
       \/ pc[a] = "output2" /\ output' = a /\ Goto(a, "output3") /\ UNCHANGED secrets
       \/ pc[a] \in {"output", "output2"} /\ Return(a, "late") /\ UNCHANGED output
       \/ pc[a] = "output3" /\ Return(a, "done") /\ UNCHANGED output
    /\ UNCHANGED <<item, artifact, published, logs, hash, publishing, crashes>>

(* An attempt of the producing item that was given up for lost promotes    *)
(* its own artifact over the one a commit_data item was given.             *)
ProducerAgain ==
    /\ kind = "commit_data" /\ artifact = Producer
    /\ artifact' = None
    /\ UNCHANGED <<item, published, output, pc, own, crashes>>

ProducerRenames ==
    /\ kind = "commit_data" /\ artifact = None
    /\ artifact' = "lost attempt"
    /\ UNCHANGED <<item, published, output, pc, own, crashes>>

Crash(a) ==
    /\ crashes < MaxCrashes /\ pc[a] \notin {"done", "failed", "late", "dead"}
    /\ crashes' = crashes + 1
    /\ Goto(a, "dead")
    /\ UNCHANGED <<item, artifact, published, output, own>>

Next ==
    \/ \E a \in Attempts :
           \/ stageWorkItemSourceBundle(a) \/ prepareInputs(a) \/ materializePythonProtectedRefs(a)
           \/ runPythonProcess(a) \/ scrubPythonSubprocessLogs(a) \/ readPythonOutput(a)
           \/ copyArtifactToTemp(a) \/ PromoteArtifacts(a) \/ promotedArtifactDescriptor(a)
           \/ publishPlanForTarget(a) \/ checkPublishDestinationAvailable(a) \/ publishArtifactForPlan(a)
           \/ PlaceTargets(a) \/ RenameFails(a) \/ writeOutput(a) \/ Crash(a)
    \/ ProducerAgain \/ ProducerRenames

Spec == Init /\ [][Next]_vars
-----------------------------------------------------------------------------
Held(a) == {t \in Registered : published[t] # None /\ published[t].by = a}

(* What an attempt puts in a registered location is the artifact whose     *)
(* hash it reports, although another attempt may replace the artifact      *)
(* between its promotion and its copy (verifyPublishedArtifactEvidence).   *)
PublishedAsDescribed ==
    \A a \in Attempts : \A t \in Held(a) : published[t].content = hash[a]

(* An attempt that fails while it publishes leaves none of its registered  *)
(* targets behind: some of an attempt's targets are seen only while it     *)
(* places them, or after all were, or when it was killed.                  *)
PublishAllOrNothing ==
    \A a \in Attempts :
        Held(a) # {} => pc[a] \in {"place", "output", "output2", "output3", "done", "late", "dead"}
=============================================================================
