-------------------------- MODULE SourceAdmission --------------------------
(***************************************************************************)
(* Submitting workflow runs: their source is read, published into the      *)
(* controller's cache and read back, and the run is recorded in several    *)
(* transactions (cmd/controller/main.go, internal/reposource, store.go).   *)
(* After a restart the sources of active runs are verified, and repaired   *)
(* where they can be, before requests are admitted (source_reload.go).     *)
(* Workers fetch bundles of the cached files (source_bundle.go).           *)
(*                                                                         *)
(* A cached file is missing, or as admitted, or something else.  The files *)
(* of a GitHub revision are shared by its runs, other runs have their own  *)
(* directory; manifests are always per run.                                *)
(***************************************************************************)
EXTENDS Naturals, FiniteSets, Sequences

CONSTANTS Runs,
          None,
          MaxDamage,     \* bound: times a file is spoiled behind the controller's back
          MaxCrashes     \* bound: controller crashes

VARIABLES source,        \* of each run: "github", "local" or "inline"
          handler,       \* of each run: the step of its submission, or how that ended
          next,          \* index of the file its publication is at
          cache,         \* of each directory and file: None, "good" or "bad"
          manifest,      \* of each run: None or the files it declares
          registry,      \* ids of the project and workflow rows
          rows,          \* of each run: its rows
          mode,          \* of the controller: "down", "recovery" or "normal"
          unverified,    \* active runs that recovery has still to look at
          repairing,     \* the run whose source is being repaired
          damaged,       \* files and manifests that were spoiled and not written since
          fresh,         \* those that were spoiled after recovery began
          damages,       \* times one was
          crashes

cacheVars == <<source, cache, manifest, damaged, fresh, damages>>
storeVars == <<registry, rows>>
recoveryVars == <<mode, unverified, repairing>>
vars == <<handler, next, cacheVars, storeVars, recoveryVars, crashes>>

Files == <<"project", "workflow", "script">>
FileSet == {"project", "workflow", "script"}

(* CacheLayout.PathsForManifest                                            *)
PathsForManifest(r) == IF source[r] = "github" THEN "revision" ELSE r

Dirs == Runs \cup {"revision"}

(* Every run declares its two documents and one supplemental file.         *)
declaredSourceFiles(r) == FileSet

(* Ids are hashes of where the document comes from and of its content.     *)
projectRecord(r) == <<"project", source[r]>>
workflowRecord(r) == <<"workflow", source[r]>>

Ended == {"new", "acknowledged", "failed", "lost"}
AllRows == {"run", "stages", "plan", "queue", "first", "second", "steps"}

(* What the submission of a run had come to before its source was repaired *)
(* or the controller crashed.                                              *)
Left(r) == IF rows[r] = AllRows THEN "acknowledged" ELSE "lost"

Init ==
    /\ source \in [Runs -> {"github", "local", "inline"}]
    /\ handler = [r \in Runs |-> "new"] /\ next = [r \in Runs |-> 1]
    /\ cache = [d \in Dirs |-> [f \in FileSet |-> None]]
    /\ manifest = [r \in Runs |-> None]
    /\ registry = {} /\ rows = [r \in Runs |-> {}]
    /\ mode = "normal" /\ unverified = {} /\ repairing = None
    /\ damaged = {} /\ fresh = {} /\ damages = 0 /\ crashes = 0

Goto(r, pc) == handler' = [handler EXCEPT ![r] = pc]

-----------------------------------------------------------------------------
(* Size and hashes are the ones the manifest has.                          *)
VerifyCachedFile(r, f) == cache[PathsForManifest(r)][f] = "good"

(* CacheAccess.ReadFile with the stored manifest: a verified read of a     *)
(* declared file.                                                          *)
ReadFile(r, f) == manifest[r] # None /\ f \in manifest[r] /\ VerifyCachedFile(r, f)

SetFile(r, f, value) == cache' = [cache EXCEPT ![PathsForManifest(r)][f] = value]

Written(file) ==
    /\ damaged' = damaged \ {file} /\ fresh' = fresh \ {file}
    /\ UNCHANGED damages

(* A publication is a submission's, or recovery's repair.                  *)
(* publishCacheFile looks at the file that is there ...                    *)
publishCacheFile(r) ==
    LET f == Files[next[r]]
    IN  /\ handler[r] = "publish"
        /\ IF next[r] > Len(Files)
           THEN Goto(r, "manifest") /\ UNCHANGED next
           ELSE IF cache[PathsForManifest(r)][f] = None
           THEN Goto(r, "write") /\ UNCHANGED next
           ELSE IF VerifyCachedFile(r, f)
           THEN next' = [next EXCEPT ![r] = @ + 1] /\ UNCHANGED handler
           ELSE Goto(r, "remove") /\ UNCHANGED next
        /\ UNCHANGED <<cacheVars, storeVars, recoveryVars, crashes>>

(* ... removes it when it is not the admitted one; that it is gone already *)
(* is an error ...                                                         *)
removeCorrupt(r) ==
    LET f == Files[next[r]]
    IN  /\ handler[r] = "remove"
        /\ cache[PathsForManifest(r)][f] # None
        /\ SetFile(r, f, None)
        /\ Goto(r, "write")
        /\ UNCHANGED <<next, source, manifest, damaged, fresh, damages, storeVars, recoveryVars, crashes>>

(* ... and renames a temporary file into its place.                        *)
writeFileAtomically(r) ==
    /\ handler[r] = "write"
    /\ SetFile(r, Files[next[r]], "good")
    /\ Written(<<PathsForManifest(r), Files[next[r]]>>)
    /\ next' = [next EXCEPT ![r] = @ + 1]
    /\ Goto(r, "publish")
    /\ UNCHANGED <<source, manifest, storeVars, recoveryVars, crashes>>

(* Faulty: the manifest is left for later.                                 *)
skipManifest(r) == UNCHANGED manifest

(* The manifest is renamed into its place when all its files are there.    *)
publishManifest(r) == manifest' = [manifest EXCEPT ![r] = declaredSourceFiles(r)]

PublishAdmittedSource(r) ==
    /\ handler[r] = "manifest"
    /\ publishManifest(r)
    /\ Written(<<r, "manifest">>)
    /\ Goto(r, IF repairing = r THEN "repaired" ELSE "verify")
    /\ UNCHANGED <<next, source, cache, storeVars, recoveryVars, crashes>>

-----------------------------------------------------------------------------
(* submitWorkflowHandler is refused before recovery is complete.           *)
requireNormalAdmission == mode = "normal"

Submit(r, kinds) ==
    /\ handler[r] = "new" /\ source[r] \in kinds
    /\ requireNormalAdmission
    /\ Goto(r, "publish")
    /\ UNCHANGED <<next, cacheVars, storeVars, recoveryVars, crashes>>

(* The provider resolves the reference; the documents and then the files   *)
(* they declare are read from it.  An error of any step is Fail.           *)
submitWorkflowRunToStore(r) == Submit(r, {"github", "local"})

(* All content is in the request.                                          *)
submitInlineWorkflowRunToStore(r) == Submit(r, {"inline"})

(* The documents the run is compiled from are the cached ones.             *)
readBack(r) ==
    /\ handler[r] = "verify"
    /\ VerifyCachedFile(r, "project") /\ VerifyCachedFile(r, "workflow")
    /\ Goto(r, "register")
    /\ UNCHANGED <<next, cacheVars, storeVars, recoveryVars, crashes>>

(* Two transactions.  A row that is there already has the same values.     *)
UpsertProject(r) ==
    /\ handler[r] = "register" /\ projectRecord(r) \notin registry
    /\ registry' = registry \cup {projectRecord(r)}
    /\ UNCHANGED <<handler, next, cacheVars, rows, recoveryVars, crashes>>

UpsertWorkflow(r) ==
    /\ handler[r] = "register" /\ projectRecord(r) \in registry
    /\ registry' = registry \cup {workflowRecord(r)}
    /\ Goto(r, "run")
    /\ UNCHANGED <<next, cacheVars, rows, recoveryVars, crashes>>

(* One transaction of the rest of the submission.                          *)
Record(r, pc, row, then) ==
    /\ handler[r] = pc
    /\ rows' = [rows EXCEPT ![r] = @ \cup {row}]
    /\ Goto(r, then)
    /\ UNCHANGED <<next, cacheVars, registry, recoveryVars, crashes>>

(* After compilation: its project and workflow are foreign keys.           *)
CreateWorkflowRun(r) ==
    /\ {projectRecord(r), workflowRecord(r)} \subseteq registry
    /\ Record(r, "run", "run", "stages")

InsertStagePlan(r) == Record(r, "stages", "stages", "plan")
CreateWorkflowDependencyPlan(r) == Record(r, "plan", "plan", "queue")

(* Faulty: answers once the items are queued.                              *)
acknowledgeEarly == "acknowledged"

(* What follows QueueWorkItems.                                            *)
afterQueue == "members"

QueueWorkItems(r) == Record(r, "queue", "queue", afterQueue)

(* One transaction for each item; here there are two.                      *)
RecordCompiledWorkItemMembership(r) ==
    Record(r, "members", "first", "second") \/ Record(r, "second", "second", "steps")

(* Steps without items are completed, and a stage of nothing else makes    *)
(* way for the next: WorkflowRun's subject, one step here.                 *)
markCompiledStageEmptyStepsCompleted(r) == Record(r, "steps", "steps", "acknowledged")

(* A file that was removed to be replaced, and will not be.                *)
Abandoned(r) ==
    {<<PathsForManifest(r), f>> : f \in {f \in FileSet : /\ handler[r] = "write" /\ f = Files[next[r]]
                                                        /\ cache[PathsForManifest(r)][f] = None}}

(* Any step may fail, a read of damaged files among them, and what it left *)
(* stays.  A repair that fails ends the controller.                        *)
Fail(r) ==
    /\ handler[r] \notin Ended
    /\ damaged' = damaged \cup Abandoned(r)
    /\ IF repairing = r
       THEN /\ mode' = "down" /\ unverified' = {} /\ repairing' = None
            /\ Goto(r, Left(r))
       ELSE Goto(r, "failed") /\ UNCHANGED recoveryVars
    /\ UNCHANGED <<next, source, cache, manifest, fresh, damages, storeVars, crashes>>

-----------------------------------------------------------------------------
(* A worker's request for the supplemental files, each read with           *)
(* verification: the bundle is sent, or one is refused and the request is. *)
buildSourceBundle(r) == \A f \in declaredSourceFiles(r) \ {"project", "workflow"} : ReadFile(r, f)

(* Something else removes or overwrites a cached file, or a manifest,      *)
(* which then cannot be read.                                              *)
Spoil(file) ==
    /\ damages < MaxDamage /\ damages' = damages + 1
    /\ damaged' = damaged \cup {file} /\ fresh' = fresh \cup {file}
    /\ UNCHANGED <<handler, next, source, storeVars, recoveryVars, crashes>>

Damage(d, f) ==
    /\ cache[d][f] = "good" /\ Spoil(<<d, f>>)
    /\ \E value \in {None, "bad"} : cache' = [cache EXCEPT ![d][f] = value]
    /\ UNCHANGED manifest

DamageManifest(r) ==
    /\ manifest[r] # None /\ Spoil(<<r, "manifest">>)
    /\ manifest' = [manifest EXCEPT ![r] = None]
    /\ UNCHANGED cache

Crash ==
    /\ mode # "down" /\ crashes < MaxCrashes
    /\ crashes' = crashes + 1
    /\ mode' = "down" /\ unverified' = {} /\ repairing' = None
    /\ handler' = [r \in Runs |-> IF handler[r] \in Ended THEN handler[r] ELSE Left(r)]
    /\ damaged' = damaged \cup UNION {Abandoned(r) : r \in Runs}
    /\ UNCHANGED <<next, source, cache, manifest, fresh, damages, storeVars>>

(* Runs without stages, or with one that is not terminal.  A stage row     *)
(* keeps the state it is inserted with, so no run is ever left out.        *)
ListActiveWorkflowRuns == {r \in Runs : "run" \in rows[r]}

enterRecoveryMode ==
    /\ mode = "down"
    /\ mode' = "recovery" /\ unverified' = ListActiveWorkflowRuns
    /\ fresh' = {}
    /\ UNCHANGED <<handler, next, source, cache, manifest, damaged, damages, storeVars, repairing, crashes>>

(* Faulty: the workflow's file is not looked at.                           *)
verifyCachedProject(r) == ReadFile(r, "project")

(* The project and workflow files, against the rows and the manifest.      *)
verifyCachedRunSource(r) == ReadFile(r, "project") /\ ReadFile(r, "workflow")

isRepairableGitHubSource(r) == source[r] = "github"

(* A run is fine, or its source can be read again, or recovery ends here.  *)
verifyWorkflowRunSource(r) ==
    /\ mode = "recovery" /\ repairing = None /\ r \in unverified
    /\ IF verifyCachedRunSource(r)
       THEN unverified' = unverified \ {r} /\ UNCHANGED <<mode, repairing, handler, next>>
       ELSE IF manifest[r] # None /\ isRepairableGitHubSource(r)
       THEN /\ repairing' = r
            /\ Goto(r, "publish") /\ next' = [next EXCEPT ![r] = 1]
            /\ UNCHANGED <<mode, unverified>>
       ELSE mode' = "down" /\ unverified' = {} /\ UNCHANGED <<repairing, handler, next>>
    /\ UNCHANGED <<cacheVars, storeVars, crashes>>

(* repairGitHubRunSource has published; the source is verified once more.  *)
verifyRepaired(r) ==
    /\ handler[r] = "repaired"
    /\ verifyCachedRunSource(r)
    /\ unverified' = unverified \ {r} /\ repairing' = None
    /\ Goto(r, Left(r))
    /\ UNCHANGED <<next, cacheVars, storeVars, mode, crashes>>

allowNormalAdmission ==
    /\ mode = "recovery" /\ unverified = {}
    /\ mode' = "normal"
    /\ UNCHANGED <<handler, next, cacheVars, storeVars, unverified, repairing, crashes>>

Publish(r) ==
    publishCacheFile(r) \/ removeCorrupt(r) \/ writeFileAtomically(r) \/ PublishAdmittedSource(r)

Admit(r) ==
    \/ submitWorkflowRunToStore(r) \/ submitInlineWorkflowRunToStore(r) \/ readBack(r)
    \/ UpsertProject(r) \/ UpsertWorkflow(r) \/ CreateWorkflowRun(r)
    \/ InsertStagePlan(r) \/ CreateWorkflowDependencyPlan(r)
    \/ QueueWorkItems(r) \/ RecordCompiledWorkItemMembership(r)
    \/ markCompiledStageEmptyStepsCompleted(r)

Recover == enterRecoveryMode \/ allowNormalAdmission \/ Crash

Next ==
    \/ \E r \in Runs : \/ Publish(r) \/ Admit(r) \/ Fail(r) \/ DamageManifest(r)
                       \/ verifyWorkflowRunSource(r) \/ verifyRepaired(r)
    \/ \E d \in Dirs, f \in FileSet : Damage(d, f)
    \/ Recover

Spec == Init /\ [][Next]_vars
-----------------------------------------------------------------------------
(* The source of a recorded run can be read, its documents and the bundle  *)
(* its workers ask for, unless something else has spoiled it and nothing   *)
(* has been written since.  Files and manifest are published before the    *)
(* run is recorded, and no other submission, failure or crash takes them   *)
(* away but in one place: a publication that has found a bad file removes  *)
(* whatever is there by then, and until it has written its own, or for     *)
(* good if it stops there, the file is missing.                            *)
SourceStaysReadable ==
    LET Excused(r, f) ==
            \/ {<<r, "manifest">>, <<PathsForManifest(r), f>>} \cap damaged # {}
            \/ \E q \in Runs : /\ handler[q] = "write" /\ Files[next[q]] = f
                               /\ PathsForManifest(q) = PathsForManifest(r)
    IN  \A r \in Runs : "run" \in rows[r] =>
            /\ \A f \in {"project", "workflow"} : ReadFile(r, f) \/ Excused(r, f)
            /\ buildSourceBundle(r) \/ Excused(r, "script")

(* A run that recovery has looked at can be read when requests are         *)
(* admitted again, although runs share their files and the repair of one   *)
(* rewrites them: only what was spoiled since recovery began may be bad.   *)
(* This is said of the documents; recovery does not look at other files.   *)
RecoveredReadable ==
    mode = "recovery" =>
        \A r \in ListActiveWorkflowRuns \ (unverified \cup {repairing}) :
            \A f \in {"project", "workflow"} :
                ReadFile(r, f) \/ {<<r, "manifest">>, <<PathsForManifest(r), f>>} \cap fresh # {}

(* A submission that was acknowledged is recorded as a whole, and so it is *)
(* after every crash.                                                      *)
AcknowledgedWhole == \A r \in Runs : handler[r] = "acknowledged" => rows[r] = AllRows
============================================================================
