------------------------------- MODULE MCParts -------------------------------
(***************************************************************************)
(* The components that share no state with one another, each on an         *)
(* instance of its own: part says which of them a behaviour is of.  The    *)
(* variables of the others are None throughout.                            *)
(***************************************************************************)
EXTENDS Integers, Sequences, FiniteSets, TLC

CONSTANTS ResolverCases, StageCases, OutputCases, RasterCases, None, c1, c2, c3, r1, r2, j1, j2, a1, a2, h1,
          producer

VARIABLES
    part,
    \* ControllerOwnership
    oPC, lock, oSeen, caretaker,
    \* SourceAdmission
    sSource, sHandler, next, cache, sManifest, registry, rows, mode, unverified, repairing, damaged, fresh,
    damages, sCrashes,
    \* WorkerLaunch
    cfg, lPC, lClient, hop, listener, relayPID, relays, orphans, file, lMode, lTemp, lJob, by, launches, losses,
    \* AssetMaterialization
    mJob, origin, mSource, mManifest, extracted, dest, pinned, locks, mPC, mSeen, got, stage, mCrashes,
    \* ItemAttempt
    kind, targets, artifact, published, output, iPC, secrets, logs, hash, checked, iTemp, upload, placed, iCrashes,
    \* WorkerHeartbeat
    hSession, hAge, loop, since, ticker, tick, waited, stray,
    \* SubmissionWatch
    workflow, planned, now, createdAt, queuedAt, running, terminal, reported, members, facts, saved, unsaved, handler,
    replays, recoveries, errors, crashes, up, client,
    \* VariableResolver, StageCompilation, StepOutputs, RasterPairCounts
    input, result

ownVars == <<oPC, lock, oSeen, caretaker>>
srcVars == <<sSource, sHandler, next, cache, sManifest, registry, rows, mode, unverified, repairing, damaged, fresh,
             damages, sCrashes>>
launchVars == <<cfg, lPC, lClient, hop, listener, relayPID, relays, orphans, file, lMode, lTemp, lJob, by, launches,
                losses>>
assetVars == <<mJob, origin, mSource, mManifest, extracted, dest, pinned, locks, mPC, mSeen, got, stage, mCrashes>>
itemVars == <<kind, targets, artifact, published, output, iPC, secrets, logs, hash, checked, iTemp, upload, placed,
              iCrashes>>
beatVars == <<hSession, hAge, loop, since, ticker, tick, waited, stray>>
runVars == <<workflow, planned, now, createdAt, queuedAt, running, terminal, reported, members, facts, saved, unsaved,
             handler, replays, recoveries, errors, crashes, up, client>>
pureVars == <<input, result>>
-----------------------------------------------------------------------------
(* Three controllers, one starting at a time.                              *)
Own == INSTANCE ControllerOwnership WITH
    Controllers <- {c1, c2, c3}, Overlap <- FALSE, pc <- oPC, seen <- oSeen

(* Two submissions of one project, a damaged file and a crash.             *)
Src == INSTANCE SourceAdmission WITH
    Runs <- {r1, r2}, MaxDamage <- 1, MaxCrashes <- 1,
    source <- sSource, handler <- sHandler, manifest <- sManifest, crashes <- sCrashes

(* Two workers started over a connection that is lost once.                *)
Launch == INSTANCE WorkerLaunch WITH
    Jobs <- {j1, j2}, MaxLaunches <- 2, MaxLosses <- 1,
    pc <- lPC, client <- lClient, mode <- lMode, temp <- lTemp, job <- lJob

(* Two attempts at an asset whose provider's file may change once.         *)
AssetJob(asset, provider, strategy, integrity, archive, destination, key) ==
    [asset |-> asset, provider |-> provider, strategy |-> strategy, integrity |-> integrity, archive |-> archive,
     destination |-> destination, key |-> key]
Asset == INSTANCE AssetMaterialization WITH
    Attempts <- {a1, a2}, Members <- {"m1", "m2"}, MaxVersion <- 2, MaxCrashes <- 1,
    Jobs <- {AssetJob("x", "http", None, None, None, TRUE, "k1"),
             AssetJob("x", "http", None, 1, "directory", TRUE, "k2"),
             AssetJob("y", "http", "reference", 1, None, FALSE, "k1"),
             AssetJob("y", "local_file", None, 1, "file", TRUE, "k1"),
             AssetJob("y", "local_file", "worker_cache", 1, "file", FALSE, "k1")},
    job <- mJob, source <- mSource, manifest <- mManifest, pc <- mPC, seen <- mSeen, crashes <- mCrashes

(* Two attempts at an item with two registered targets and one on a drive. *)
Item == INSTANCE ItemAttempt WITH
    Attempts <- {a1, a2}, Producer <- producer, Registered <- {"t1", "t2"}, Drive <- {"g"}, MaxCrashes <- 1,
    pc <- iPC, temp <- iTemp, crashes <- iCrashes

(* A session that is dead after two intervals and a half, and requests     *)
(* that take up to half an interval.                                       *)
Heartbeat == INSTANCE WorkerHeartbeat WITH
    HeartbeatInterval <- 2, DeadAfter <- 5, Timeout <- 1, session <- hSession, age <- hAge

(* Runs of two stages and of an empty first stage, with one handler.       *)
NoDeps(S) == [i \in S |-> {}]
TwoStages(stepOf) == [stageOf |-> <<0, 1>>, stepOf |-> stepOf, dependsOn |-> NoDeps(1 .. 3), materialize |-> {}]
EmptyFirst == [stageOf |-> <<0, 1, 1, 2>>, stepOf |-> <<2, 4>>, dependsOn |-> NoDeps(1 .. 2), materialize |-> {}]
Watch == INSTANCE SubmissionWatch WITH
    NoPlan <- None, Handlers <- {h1}, Workflows <- {TwoStages(<<1, 1, 2>>), TwoStages(<<1, 2, 2>>), EmptyFirst},
    MaxSecond <- 0, MaxReplays <- 1, MaxRecoveries <- 1, MaxErrors <- 1, MaxCrashes <- 0

(* The pure algorithms.                                                    *)
ResolverInputs == INSTANCE ResolverInputs
Resolver == INSTANCE VariableResolver WITH MaxDepth <- 3
DocumentInputs == INSTANCE DocumentInputs
Stages(document) == INSTANCE StageCompilation WITH input <- document
OutputInputs == INSTANCE OutputInputs
Outputs == INSTANCE StepOutputs WITH MaxWorkOutput <- 2, MaxStepOutput <- 7
RasterInputs == INSTANCE RasterInputs
Raster == INSTANCE RasterPairCounts WITH ValueMax <- 3

(* Every input, with what is made of it.                                   *)
ResolverResults ==
    LET made(in) == [resolved |-> Resolver!Resolved(in), meant |-> Resolver!Meant(in)]
    IN  {[input |-> in, result |-> made(in)] : in \in {in \in ResolverInputs!VariableSets : Resolver!Accepted(in)}}
StageResults ==
    LET made(in) == Stages(in)!Compiled
    IN  {[input |-> in, result |-> made(in)] : in \in DocumentInputs!Documents}
OutputResults ==
    LET made(in) == Outputs!Answer(in)
    IN  {[input |-> in, result |-> made(in)] : in \in OutputInputs!Questions}
RasterResults ==
    LET made(in) == [counts |-> Raster!ExecuteRasterPairValueCounts(in)]
    IN  {[input |-> in, result |-> made(in)] : in \in RasterInputs!Requests}
-----------------------------------------------------------------------------
OwnOff == oPC = None /\ lock = None /\ oSeen = None /\ caretaker = None
SrcOff ==
    /\ sSource = None /\ sHandler = None /\ next = None /\ cache = None /\ sManifest = None /\ registry = None
    /\ rows = None /\ mode = None /\ unverified = None /\ repairing = None /\ damaged = None /\ fresh = None
    /\ damages = None /\ sCrashes = None
LaunchOff ==
    /\ cfg = None /\ lPC = None /\ lClient = None /\ hop = None /\ listener = None /\ relayPID = None /\ relays = None
    /\ orphans = None /\ file = None /\ lMode = None /\ lTemp = None /\ lJob = None /\ by = None /\ launches = None
    /\ losses = None
AssetOff ==
    /\ mJob = None /\ origin = None /\ mSource = None /\ mManifest = None /\ extracted = None /\ dest = None
    /\ pinned = None /\ locks = None /\ mPC = None /\ mSeen = None /\ got = None /\ stage = None /\ mCrashes = None
ItemOff ==
    /\ kind = None /\ targets = None /\ artifact = None /\ published = None /\ output = None /\ iPC = None
    /\ secrets = None /\ logs = None /\ hash = None /\ checked = None /\ iTemp = None /\ upload = None
    /\ placed = None /\ iCrashes = None
BeatOff ==
    /\ hSession = None /\ hAge = None /\ loop = None /\ since = None /\ ticker = None /\ tick = None
    /\ waited = None /\ stray = None
RunOff ==
    /\ workflow = None /\ planned = None /\ now = None /\ createdAt = None /\ queuedAt = None /\ running = None
    /\ terminal = None /\ reported = None /\ members = None /\ facts = None /\ saved = None /\ unsaved = None
    /\ handler = None /\ replays = None /\ recoveries = None /\ errors = None /\ crashes = None /\ up = None /\ client = None

Init ==
    /\ part \in {"ownership", "source", "launch", "asset", "item", "heartbeat", "watch",
                 "resolver", "stages", "outputs", "raster"}
    /\ IF part = "ownership" THEN Own!Init ELSE OwnOff
    /\ IF part = "source" THEN Src!Init ELSE SrcOff
    /\ IF part = "launch" THEN Launch!Init ELSE LaunchOff
    /\ IF part = "asset" THEN Asset!Init ELSE AssetOff
    /\ IF part = "item" THEN Item!Init ELSE ItemOff
    /\ IF part = "heartbeat" THEN Heartbeat!Init ELSE BeatOff
    /\ IF part = "watch" THEN Watch!WatchInit ELSE RunOff
    /\ CASE part = "resolver" -> \E case \in ResolverCases : input = case.input /\ result = case.result
         [] part = "stages" -> \E case \in StageCases : input = case.input /\ result = case.result
         [] part = "outputs" -> \E case \in OutputCases : input = case.input /\ result = case.result
         [] part = "raster" -> \E case \in RasterCases : input = case.input /\ result = case.result
         [] OTHER -> input = None /\ result = None

OwnNext == part = "ownership" /\ Own!Next
    /\ UNCHANGED <<part, srcVars, launchVars, assetVars, itemVars, beatVars, runVars, pureVars>>
SrcNext == part = "source" /\ Src!Next
    /\ UNCHANGED <<part, ownVars, launchVars, assetVars, itemVars, beatVars, runVars, pureVars>>
LaunchNext == part = "launch" /\ Launch!Next
    /\ UNCHANGED <<part, ownVars, srcVars, assetVars, itemVars, beatVars, runVars, pureVars>>
AssetNext == part = "asset" /\ Asset!Next
    /\ UNCHANGED <<part, ownVars, srcVars, launchVars, itemVars, beatVars, runVars, pureVars>>
ItemNext == part = "item" /\ Item!Next
    /\ UNCHANGED <<part, ownVars, srcVars, launchVars, assetVars, beatVars, runVars, pureVars>>
BeatNext == part = "heartbeat" /\ Heartbeat!Next
    /\ UNCHANGED <<part, ownVars, srcVars, launchVars, assetVars, itemVars, runVars, pureVars>>
WatchNext == part = "watch" /\ Watch!WatchNext
    /\ UNCHANGED <<part, ownVars, srcVars, launchVars, assetVars, itemVars, beatVars, pureVars>>

Next == OwnNext \/ SrcNext \/ LaunchNext \/ AssetNext \/ ItemNext \/ BeatNext \/ WatchNext

(* The two submissions are alike.                                         *)
Submissions == Permutations({r1, r2})

vars == <<part, ownVars, srcVars, launchVars, assetVars, itemVars, beatVars, runVars, pureVars>>
Spec == Init /\ [][Next]_vars
-----------------------------------------------------------------------------
(* One controller at a time is past its ownership check, and only its      *)
(* caretaker runs, as long as controllers do not start at the same time    *)
(* (acquireControllerDatabaseOwnershipForPath, stopCareTaker).             *)
OneController == part = "ownership" => Own!OneController

(* No failed or crashed submission takes the source of a recorded run away *)
(* (publishManifest before QueueWorkItems).                                *)
SourceStaysReadable == part = "source" => Src!SourceStaysReadable

(* A run that recovery has looked at has its documents, although the repair*)
(* of another run rewrites files they share (verifyCachedRunSource).       *)
RecoveredReadable == part = "source" => Src!RecoveredReadable

(* An acknowledged submission is recorded as a whole.                      *)
AcknowledgedWhole == part = "source" => Src!AcknowledgedWhole

(* A worker that cannot start was overtaken by a later launch, which copies*)
(* and makes executable what the worker reads (uploadWorkerArtifact).      *)
FailsOnlyOvertaken == part = "launch" => Launch!FailsOnlyOvertaken

(* The tunnel knows every relay it has started, or a command about it has  *)
(* failed (CallbackTunnel Start, Close).                                   *)
RelaysAccounted == part = "launch" => Launch!RelaysAccounted

(* A materialized destination is what its manifest pins, whoever promoted  *)
(* it and whoever was killed (promoteMaterializedDestination).             *)
PinnedDestination == part = "asset" => Asset!PinnedDestination

(* What an attempt reports of its destination stays true, whatever others  *)
(* promote, reuse or leave half done (existingMaterializedDestination).    *)
ReportedDestination == part = "asset" => Asset!ReportedDestination

(* A published target has the hash its attempt reports                     *)
(* (verifyPublishedArtifactEvidence).                                      *)
PublishedAsDescribed == part = "item" => Item!PublishedAsDescribed

(* An attempt that fails while publishing leaves no registered target      *)
(* behind (rollbackPublishedTargets).                                      *)
PublishAllOrNothing == part = "item" => Item!PublishAllOrNothing

(* A heartbeat goroutine outlives its session by a bounded time only,      *)
(* whatever requests and answers are lost or late (RunHeartbeat).          *)
FencedInTime == part = "heartbeat" => Heartbeat!FencedInTime

(* What a client is told of a run is true of the run, then or later        *)
(* (submissionStatus).                                                     *)
ToldTruth == part = "watch" => Watch!ToldTruth

(* The resolver's answer is the variable's meaning (resolver.go).          *)
ResolvesToMeaning == part = "resolver" => Resolver!ResolvesToMeaning(result.resolved, result.meant)

(* Stages are the document's parallel groups, and what is compiled from    *)
(* them is unambiguous (NormalizeStages, CompileWorkflowStage).            *)
StagesCompileAsWritten ==
    part = "stages" => Stages(input)!StagesAreGroups(result.stages) /\ Stages(input)!ItemsUnambiguous(result.items)

(* A step's output is what its items reported, in their order, and a       *)
(* collection's is true of its members (aggregateStepOutputJSON).          *)
OutputsAsReported ==
    part = "outputs" => Outputs!CollectionDescribed(input, result) /\ Outputs!OutputsInOrder(input, result)

(* A dependent item is given the shared assets it asked for or none        *)
(* (hydrateAssetMaterializeDependentWorkItem).                             *)
HydratesItsOwn == part = "outputs" => Outputs!HydratesItsOwn(input, result)

(* Pair counts are exact whatever the tiles and the value types            *)
(* (ExecuteRasterPairValueCounts).                                         *)
CountsExact == part = "raster" => Raster!CountsExact(input, result.counts)
==============================================================================
