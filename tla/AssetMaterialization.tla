----------------------- MODULE AssetMaterialization -----------------------
(***************************************************************************)
(* Workers materializing one data asset in the directories they share      *)
(* (cmd/worker: data_asset_materializer.go, archive_extractor.go,          *)
(* asset_destination.go, work_asset_materialize.go).                       *)
(*                                                                         *)
(* The attempts under way use one cache key, one destination path and one  *)
(* asset cache directory: two attempts of one work item, or of items of    *)
(* two runs.  What the provider serves may change, and a worker may be     *)
(* killed; every file operation is a step.                                 *)
(*                                                                         *)
(* Contents.  What is at a path maps the asset's members to the version of *)
(* the source they come from, 0 for a member that is missing; a plain file *)
(* is whole.                                                               *)
(***************************************************************************)
EXTENDS Naturals

CONSTANTS Attempts, Members, None,
          Jobs,          \* the bound assets and payloads that the attempts may carry
          MaxVersion,    \* bound on the versions the provider serves
          MaxCrashes     \* bound on the workers killed

VARIABLES job,           \* the asset and payload of each attempt
          origin,        \* the version the provider serves
          source,        \* <cache>/source: None or a version
          manifest,      \* <cache>/manifest.json: None or the version it records
          extracted,     \* <cache>/extracted
          dest,          \* the destination: None or its kind and contents
          pinned,        \* the destination manifest of each materialization key: asset and evidence
          locks,         \* the promotion lock files
          pc,            \* where each attempt is
          seen,          \* what it has read last
          got,           \* what its source evidence describes
          stage,         \* what it exposes: first its local path, then its staged copy
          crashes

vars == <<job, origin, source, manifest, extracted, dest, pinned, locks,
          pc, seen, got, stage, crashes>>
cacheVars == <<source, manifest, extracted>>
destVars == <<dest, pinned, locks>>
ownVars == <<seen, got, stage>>
fixed == <<job, origin, crashes>>

Whole(v) == [m \in Members |-> v]
Empty == Whole(0)
Keys == {j.key : j \in Jobs}

Init ==
    /\ job \in [Attempts -> Jobs]
    /\ origin = 1
    /\ source = None /\ manifest = None /\ extracted = Empty
    /\ dest = None /\ pinned = [k \in Keys |-> None] /\ locks = {}
    /\ pc = [a \in Attempts |-> "new"]
    /\ seen = [a \in Attempts |-> None]
    /\ got = [a \in Attempts |-> None]
    /\ stage = [a \in Attempts |-> None]
    /\ crashes = 0

Goto(a, l) == pc' = [pc EXCEPT ![a] = l]
Fail(a) == Goto(a, "failed") /\ UNCHANGED ownVars
See(a, x) == seen' = [seen EXCEPT ![a] = x]

(* The strategy the asset names, or the one of its provider; only files    *)
(* of a configured location can be used where they are.                    *)
materializationStrategy(j) ==
    IF j.strategy # None THEN j.strategy
    ELSE IF j.provider \in {"http", "gdrive_rclone"} THEN "worker_cache" ELSE "reference"

verifyExpectedIntegrity(j, v) == j.integrity # None => j.integrity = v

DestinationPaths(a) == dest # None \/ pinned[job[a].key] # None
-----------------------------------------------------------------------------
(* existingMaterializedDestination: stat of the destination, stat of the   *)
(* manifest, then both are read and compared.                              *)
AssetMaterialize(a) ==
    /\ pc[a] = "new"
    /\ IF job[a].destination
       THEN Goto(a, "stat") /\ See(a, dest # None)
       ELSE Goto(a, "materialize") /\ UNCHANGED seen
    /\ UNCHANGED <<got, stage, cacheVars, destVars, fixed>>

(* Faulty: a destination without a manifest is taken as it is.             *)
ReuseUnpinned(a) ==
    /\ pc[a] = "stat"
    /\ LET there == pinned[job[a].key] # None IN
       IF there THEN Goto(a, IF seen[a] THEN "existing" ELSE "failed") /\ UNCHANGED seen
       ELSE IF seen[a] THEN Goto(a, "compare") /\ See(a, dest)
       ELSE Goto(a, "materialize") /\ UNCHANGED seen
    /\ UNCHANGED <<got, stage, cacheVars, destVars, fixed>>

existingMaterializedDestination(a) ==
    /\ pc[a] = "stat"
    /\ LET there == pinned[job[a].key] # None IN
           Goto(a, IF seen[a] # there THEN "failed" ELSE IF there THEN "existing" ELSE "materialize")
    /\ UNCHANGED <<ownVars, cacheVars, destVars, fixed>>

(* manifest.matches: the manifest is of this asset.                        *)
readDestinationManifest(a) ==
    /\ pc[a] = "existing"
    /\ LET read == pinned[job[a].key] IN
           Goto(a, IF read.asset = job[a].asset THEN "compare" ELSE "failed") /\ See(a, read.evidence)
    /\ UNCHANGED <<got, stage, cacheVars, destVars, fixed>>

(* What is reused is reported as the source as well; the integrity the     *)
(* asset names is not looked at again.                                     *)
destinationEvidence(a) ==
    /\ pc[a] = "compare"
    /\ IF dest # None /\ dest = seen[a]
       THEN /\ Goto(a, "done") /\ UNCHANGED seen
            /\ stage' = [stage EXCEPT ![a] = dest] /\ got' = [got EXCEPT ![a] = dest.contents]
       ELSE Fail(a)
    /\ UNCHANGED <<cacheVars, destVars, fixed>>
-----------------------------------------------------------------------------
(* Source evidence for version v, and where the attempt goes on.           *)
Acquired(a, v) ==
    /\ got' = [got EXCEPT ![a] = Whole(v)]
    /\ stage' = [stage EXCEPT ![a] = Whole(v)]
    /\ Goto(a, IF job[a].archive = None THEN "promote" ELSE "extract")
    /\ UNCHANGED seen

(* An http or rclone asset cannot be used in place; a local file is hashed *)
(* where it is.                                                            *)
materializeReference(a) ==
    /\ pc[a] = "materialize" /\ materializationStrategy(job[a]) = "reference"
    /\ IF job[a].provider = "local_file" /\ verifyExpectedIntegrity(job[a], origin)
       THEN Acquired(a, origin)
       ELSE Fail(a)
    /\ UNCHANGED <<cacheVars, destVars, fixed>>

(* A source or a manifest in the cache makes it a hit.                     *)
materializeWorkerCache(a) ==
    /\ pc[a] = "materialize" /\ materializationStrategy(job[a]) = "worker_cache"
    /\ Goto(a, IF source # None \/ manifest # None THEN "hit" ELSE "acquire")
    /\ UNCHANGED <<ownVars, cacheVars, destVars, fixed>>

readAndVerifyCache(a) ==
    /\ pc[a] = "hit"
    /\ Goto(a, IF manifest = None THEN "failed" ELSE "verify") /\ See(a, manifest)
    /\ UNCHANGED <<got, stage, cacheVars, destVars, fixed>>

VerifyCached(a) ==
    /\ pc[a] = "verify"
    /\ IF source # None /\ source = seen[a] /\ verifyExpectedIntegrity(job[a], source)
       THEN Acquired(a, source)
       ELSE Fail(a)
    /\ UNCHANGED <<cacheVars, destVars, fixed>>

(* downloadHTTP, copyFileWithLimit and rclone's copyto write a temporary   *)
(* file; they may fail, by the size limit among other things.              *)
acquireSource(a) ==
    /\ pc[a] = "acquire"
    /\ \/ Goto(a, "rename") /\ See(a, origin) /\ UNCHANGED <<got, stage>>
       \/ Fail(a)
    /\ UNCHANGED <<cacheVars, destVars, fixed>>

(* The rename that ends writeStreamAtomically; the integrity is looked at  *)
(* afterwards and an unexpected source removed, by path.                   *)
writeStreamAtomically(a) ==
    /\ pc[a] = "rename"
    /\ source' = seen[a]
    /\ Goto(a, IF verifyExpectedIntegrity(job[a], seen[a]) THEN "manifest" ELSE "discard")
    /\ UNCHANGED <<ownVars, manifest, extracted, destVars, fixed>>

RemoveSource(a) ==
    /\ pc[a] = "discard"
    /\ source' = None
    /\ Fail(a)
    /\ UNCHANGED <<manifest, extracted, destVars, fixed>>

(* atomicWriteFile removes what is there, then renames.  When it fails the *)
(* source is removed, by path.                                             *)
writeCacheManifest(a) ==
    \/ /\ pc[a] = "manifest"
       /\ manifest' = None
       /\ Goto(a, "manifest2")
       /\ UNCHANGED <<ownVars, source, extracted, destVars, fixed>>
    \/ /\ pc[a] = "manifest2"
       /\ manifest' = seen[a]
       /\ Acquired(a, seen[a])
       /\ UNCHANGED <<source, extracted, destVars, fixed>>
    \/ /\ pc[a] \in {"manifest", "manifest2"}
       /\ Goto(a, "discard")
       /\ UNCHANGED <<ownVars, cacheVars, destVars, fixed>>
-----------------------------------------------------------------------------
(* The archives of a cached source are extracted beside it, those of a     *)
(* referenced file in the attempt's own directory.                         *)
SharedRoot(a) == materializationStrategy(job[a]) = "worker_cache"

(* prepareExtractionRoot empties the root, then the archive is opened, of  *)
(* a referenced file the one that is there now.  The selection may be      *)
(* refused, the archive unreadable or the source gone.                     *)
extractArchive(a) ==
    /\ pc[a] = "extract"
    /\ IF SharedRoot(a)
       THEN /\ extracted' = Empty
            /\ IF source = None
               THEN Fail(a)
               ELSE /\ Goto(a, "member") /\ See(a, source)
                    /\ stage' = [stage EXCEPT ![a] = Empty] /\ UNCHANGED got
       ELSE /\ \/ Goto(a, "promote") /\ stage' = [stage EXCEPT ![a] = Whole(origin)] /\ UNCHANGED <<seen, got>>
               \/ Fail(a)
            /\ UNCHANGED extracted
    /\ UNCHANGED <<source, manifest, destVars, fixed>>

(* Each selected member of the opened archive is written once.             *)
extractZipFile(a) ==
    /\ pc[a] = "member"
    /\ \E m \in Members :
           /\ stage[a][m] = 0
           /\ extracted' = [extracted EXCEPT ![m] = seen[a]]
           /\ stage' = [stage EXCEPT ![a][m] = seen[a]]
    /\ UNCHANGED <<pc, seen, got, source, manifest, destVars, fixed>>

(* A single member is exposed by its path, a selection as a directory,     *)
(* whose evidence is read back.  A required member may not be there.       *)
archiveSelectionResult(a) ==
    /\ pc[a] = "member"
    /\ \/ stage[a] = Whole(seen[a]) /\ Goto(a, "promote")
       \/ Goto(a, "failed")
    /\ UNCHANGED <<ownVars, cacheVars, destVars, fixed>>
-----------------------------------------------------------------------------
(* promoteMaterializedDestination copies what is at the local path now.    *)
promoteMaterializedDestination(a) ==
    /\ pc[a] = "promote"
    /\ IF ~job[a].destination THEN Goto(a, "done") ELSE
       IF DestinationPaths(a) THEN Goto(a, "failed") ELSE Goto(a, "copy")
    /\ UNCHANGED <<ownVars, cacheVars, destVars, fixed>>

LocalPath(a) ==
    IF ~SharedRoot(a) THEN IF job[a].archive = None THEN Whole(origin) ELSE stage[a]
    ELSE IF job[a].archive = None THEN IF source = None THEN Empty ELSE Whole(source)
    ELSE IF job[a].archive = "directory" THEN extracted
    ELSE Whole(extracted[CHOOSE m \in Members : TRUE])

(* A file that is gone cannot be copied; of a directory, what is there is. *)
(* The evidence is of the copy.                                            *)
copyMaterializedSourceToStage(a) ==
    /\ pc[a] = "copy"
    /\ IF LocalPath(a) = Empty /\ job[a].archive # "directory"
       THEN Fail(a)
       ELSE /\ stage' = [stage EXCEPT ![a] = [kind |-> IF job[a].archive = "directory" THEN "directory" ELSE "file",
                                              contents |-> LocalPath(a)]]
            /\ Goto(a, "recheck")
            /\ UNCHANGED <<seen, got>>
    /\ UNCHANGED <<cacheVars, destVars, fixed>>

RecheckDestination(a) ==
    /\ pc[a] = "recheck"
    /\ Goto(a, IF DestinationPaths(a) THEN "failed" ELSE "lock")
    /\ UNCHANGED <<ownVars, cacheVars, destVars, fixed>>

LockNames(a) == {<<"destination">>, <<"manifest", job[a].key>>}

(* Both lock files are created with O_EXCL in the order of their names;    *)
(* when one is there, those made so far are removed again.                 *)
acquireDestinationPromotionLocks(a) ==
    /\ \/ /\ pc[a] = "lock"
          /\ IF <<"destination">> \in locks
             THEN Goto(a, "failed") /\ UNCHANGED locks
             ELSE Goto(a, "lock2") /\ locks' = locks \cup {<<"destination">>}
       \/ /\ pc[a] = "lock2"
          /\ IF <<"manifest", job[a].key>> \in locks
             THEN Goto(a, "failed") /\ locks' = locks \ {<<"destination">>}
             ELSE Goto(a, "locked") /\ locks' = locks \cup {<<"manifest", job[a].key>>}
    /\ UNCHANGED <<ownVars, cacheVars, dest, pinned, fixed>>

(* Faulty: the check made before the locks is relied upon.                 *)
TrustRecheck(a) ==
    /\ pc[a] = "locked"
    /\ Goto(a, "place")
    /\ UNCHANGED <<ownVars, cacheVars, destVars, fixed>>

CheckUnderLocks(a) ==
    /\ pc[a] = "locked"
    /\ IF DestinationPaths(a)
       THEN Goto(a, "failed") /\ locks' = locks \ LockNames(a)
       ELSE Goto(a, "place") /\ UNCHANGED locks
    /\ UNCHANGED <<ownVars, cacheVars, dest, pinned, fixed>>

(* A directory does not replace a directory; a file replaces a file.       *)
PlaceDestination(a) ==
    /\ pc[a] = "place"
    /\ IF dest # None /\ job[a].archive = "directory"
       THEN Goto(a, "failed") /\ locks' = locks \ LockNames(a) /\ UNCHANGED dest
       ELSE dest' = stage[a] /\ Goto(a, "pin") /\ UNCHANGED locks
    /\ UNCHANGED <<ownVars, cacheVars, pinned, fixed>>

(* When the manifest cannot be written the destination is removed.         *)
writeDestinationManifest(a) ==
    /\ pc[a] = "pin"
    /\ locks' = locks \ LockNames(a)
    /\ \/ /\ pinned' = [pinned EXCEPT ![job[a].key] = [asset |-> job[a].asset, evidence |-> stage[a]]]
          /\ Goto(a, "done") /\ UNCHANGED dest
       \/ dest' = None /\ Goto(a, "failed") /\ UNCHANGED pinned
    /\ UNCHANGED <<ownVars, cacheVars, fixed>>
-----------------------------------------------------------------------------
(* The provider serves another version under the same address.             *)
OriginChanges ==
    /\ origin < MaxVersion
    /\ origin' = origin + 1
    /\ UNCHANGED <<job, cacheVars, destVars, pc, ownVars, crashes>>

(* The worker is killed: its lock files and half-made caches stay.         *)
Crash(a) ==
    /\ crashes < MaxCrashes
    /\ pc[a] \notin {"new", "done", "failed"}
    /\ crashes' = crashes + 1
    /\ Goto(a, "failed")
    /\ UNCHANGED <<job, origin, ownVars, cacheVars, destVars>>

Materialize(a) ==
    \/ materializeReference(a) \/ materializeWorkerCache(a) \/ readAndVerifyCache(a)
    \/ VerifyCached(a) \/ acquireSource(a) \/ writeStreamAtomically(a) \/ RemoveSource(a)
    \/ writeCacheManifest(a) \/ extractArchive(a) \/ extractZipFile(a) \/ archiveSelectionResult(a)

Promote(a) ==
    \/ promoteMaterializedDestination(a) \/ copyMaterializedSourceToStage(a)
    \/ RecheckDestination(a) \/ acquireDestinationPromotionLocks(a) \/ CheckUnderLocks(a)
    \/ PlaceDestination(a) \/ writeDestinationManifest(a)

Next ==
    \/ \E a \in Attempts :
           \/ AssetMaterialize(a) \/ existingMaterializedDestination(a)
           \/ readDestinationManifest(a) \/ destinationEvidence(a)
           \/ Materialize(a) \/ Promote(a) \/ Crash(a)
    \/ OriginChanges

Spec == Init /\ [][Next]_vars
-----------------------------------------------------------------------------
(* A destination is what its manifest pins: the reuse check of a later     *)
(* attempt (existingMaterializedDestination) finds them in agreement       *)
(* however many attempts promoted at once and wherever they were killed.   *)
PinnedDestination ==
    \A k \in Keys : pinned[k] # None => dest = pinned[k].evidence

(* What an attempt has reported of its destination stays true: no later    *)
(* attempt replaces or removes a destination that one has promoted or      *)
(* reused, also when a promotion fails or is killed half way.              *)
ReportedDestination ==
    \A a \in Attempts : pc[a] = "done" /\ job[a].destination => dest = stage[a]
=============================================================================
