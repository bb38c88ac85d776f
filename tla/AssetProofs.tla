---------------------------- MODULE AssetProofs ----------------------------
(***************************************************************************)
(* Attempts that materialize assets in shared directories: a destination   *)
(* is what its manifest pins, and stays what an attempt has reported.  For *)
(* any number of attempts, assets and members, any changes at the provider *)
(* and any number of workers killed.                                       *)
(*                                                                         *)
(* PinnedDestination is not inductive.  It rests on the promotion locks: a *)
(* single attempt is between the creation of the lock files and their      *)
(* removal, it found neither destination nor manifest, and a worker killed *)
(* there leaves its locks, so nobody follows.                              *)
(***************************************************************************)
EXTENDS AssetMaterialization, TLAPS

Labels ==
    {"new", "stat", "existing", "compare", "materialize", "hit", "verify", "acquire", "rename", "discard",
     "manifest", "manifest2", "extract", "member", "promote", "copy", "recheck", "lock", "lock2", "locked",
     "place", "pin", "done", "failed"}

AssetTypes ==
    /\ job \in [Attempts -> Jobs]
    /\ pc \in [Attempts -> Labels]
    /\ DOMAIN seen = Attempts /\ DOMAIN got = Attempts /\ DOMAIN stage = Attempts
    /\ DOMAIN pinned = Keys

(* Between the creation of the first lock file and the removal of both.    *)
Promoting == {"lock2", "locked", "place", "pin"}

OnePromotes == \A a, b \in Attempts : pc[a] \in Promoting /\ pc[b] \in Promoting => a = b

NothingPinned == \A k \in Keys : pinned[k] = None

(* What the attempt that has the locks relies on.                          *)
HoldsPromotion(a) ==
    /\ pc[a] \in Promoting => <<"destination">> \in locks
    /\ pc[a] = "place" => dest = None /\ NothingPinned
    /\ pc[a] = "pin" => dest = stage[a] /\ NothingPinned

PinnedThere == \A k \in Keys : pinned[k] # None => dest # None /\ dest = pinned[k].evidence

DestinationInv ==
    /\ AssetTypes /\ OnePromotes /\ PinnedThere
    /\ \A a \in Attempts : HoldsPromotion(a)

(* What is to be placed has been copied.                                   *)
StageInv == \A a \in Attempts : pc[a] \in {"recheck", "lock"} \cup Promoting => stage[a] # None

(* What an attempt that reuses or has placed a destination rests on.       *)
RestsOnPinned(a) ==
    /\ pc[a] = "existing" => pinned[job[a].key] # None
    /\ pc[a] = "compare" => pinned[job[a].key] # None /\ seen[a] = pinned[job[a].key].evidence
    /\ pc[a] = "done" /\ job[a].destination =>
         pinned[job[a].key] # None /\ stage[a] = pinned[job[a].key].evidence

ReportInv == \A a \in Attempts : RestsOnPinned(a)

(* A manifest is told apart from a missing one, and so is evidence.        *)
NoneIsNoEvidence ==
    /\ \A x, y : None # [asset |-> x, evidence |-> y]
    /\ \A x, y : None # [kind |-> x, contents |-> y]
-----------------------------------------------------------------------------
(* A step of an attempt.                                                   *)
Own(a) == \/ AssetMaterialize(a) \/ existingMaterializedDestination(a)
          \/ readDestinationManifest(a) \/ destinationEvidence(a)
          \/ Materialize(a) \/ Promote(a) \/ Crash(a)

(* A step of an attempt changes what that attempt knows and nothing of     *)
(* what the others know.                                                   *)
OwnFrame(a) ==
    /\ UNCHANGED job /\ AssetTypes'
    /\ \A b \in Attempts \ {a} :
           pc'[b] = pc[b] /\ seen'[b] = seen[b] /\ got'[b] = got[b] /\ stage'[b] = stage[b]

(* Faults and early returns included.                                      *)
LEMMA StepOwnFrame ==
    ASSUME AssetTypes, NEW a \in Attempts, Own(a)
    PROVE  OwnFrame(a)
<1> USE DEF AssetTypes, Labels, OwnFrame, Goto, See, Fail, ownVars, cacheVars, destVars, fixed, Acquired
<1>1. CASE AssetMaterialize(a) \/ existingMaterializedDestination(a) \/ readDestinationManifest(a)
  BY <1>1 DEF AssetMaterialize, existingMaterializedDestination, readDestinationManifest
<1>2. CASE destinationEvidence(a)
  BY Zenon, <1>2 DEF destinationEvidence
<1>3. CASE materializeReference(a) \/ VerifyCached(a)
  BY Zenon, <1>3 DEF materializeReference, VerifyCached
<1>4. CASE materializeWorkerCache(a) \/ readAndVerifyCache(a) \/ acquireSource(a) \/ writeStreamAtomically(a)
  BY <1>4 DEF materializeWorkerCache, readAndVerifyCache, acquireSource, writeStreamAtomically
<1>5. CASE RemoveSource(a) \/ writeCacheManifest(a)
  BY Zenon, <1>5 DEF RemoveSource, writeCacheManifest
<1>6. CASE extractArchive(a)
  BY ZenonT(30), <1>6 DEF extractArchive
<1>7. CASE extractZipFile(a) \/ archiveSelectionResult(a)
  BY Zenon, <1>7 DEF extractZipFile, archiveSelectionResult
<1>8. CASE promoteMaterializedDestination(a) \/ copyMaterializedSourceToStage(a) \/ RecheckDestination(a)
  BY ZenonT(30), <1>8 DEF promoteMaterializedDestination, copyMaterializedSourceToStage, RecheckDestination
<1>9. CASE acquireDestinationPromotionLocks(a) \/ CheckUnderLocks(a) \/ PlaceDestination(a)
  BY Zenon, <1>9 DEF acquireDestinationPromotionLocks, CheckUnderLocks, PlaceDestination
<1>10. CASE writeDestinationManifest(a) \/ Crash(a)
  BY Zenon, <1>10 DEF writeDestinationManifest, Crash
<1> QED
  BY Zenon, <1>1, <1>2, <1>3, <1>4, <1>5, <1>6, <1>7, <1>8, <1>9, <1>10 DEF Own, Materialize, Promote

(* Nothing is there at first.                                              *)
LEMMA InitAsset == Init => DestinationInv /\ StageInv /\ ReportInv
BY Zenon DEF Init, DestinationInv, StageInv, ReportInv, AssetTypes, Labels, OnePromotes, PinnedThere, HoldsPromotion,
   Promoting, RestsOnPinned

(* An attempt outside the locks, and one that takes none, leaves what the  *)
(* promoting attempt relies on.                                            *)
LEMMA OutsideKeeps ==
    ASSUME DestinationInv, NEW a \in Attempts, OwnFrame(a),
           UNCHANGED destVars, pc[a] \notin Promoting, pc'[a] \notin Promoting
    PROVE  DestinationInv'
<1>1. AssetTypes' /\ UNCHANGED <<dest, pinned, locks>>
  BY Zenon DEF OwnFrame, destVars
<1>2. \A b \in Attempts : pc'[b] \in Promoting => b # a /\ pc'[b] = pc[b] /\ stage'[b] = stage[b]
  BY Zenon DEF OwnFrame
<1>3. OnePromotes' /\ PinnedThere'
  BY Zenon, <1>1, <1>2 DEF DestinationInv, OnePromotes, PinnedThere
<1>4. ASSUME NEW b \in Attempts PROVE HoldsPromotion(b)'
  BY Zenon, <1>1, <1>2 DEF DestinationInv, HoldsPromotion, NothingPinned, Promoting
<1> QED
  BY Zenon, <1>1, <1>3, <1>4 DEF DestinationInv

(* While one attempt promotes, no other relies on the destination.         *)
LEMMA PromoterAlone ==
    ASSUME DestinationInv, NEW a \in Attempts, OwnFrame(a),
           \A b \in Attempts \ {a} : pc[b] \notin Promoting,
           PinnedThere', HoldsPromotion(a)'
    PROVE  DestinationInv'
<1>1. \A b \in Attempts \ {a} : pc'[b] \notin Promoting
  BY Zenon DEF OwnFrame
<1>2. AssetTypes' /\ OnePromotes'
  BY Zenon, <1>1 DEF OwnFrame, OnePromotes
<1>3. ASSUME NEW b \in Attempts PROVE HoldsPromotion(b)'
  BY Zenon, <1>1 DEF HoldsPromotion, Promoting
<1> QED
  BY Zenon, <1>2, <1>3 DEF DestinationInv

(* The steps of a promotion.                                               *)
LEMMA PromoteKeeps ==
    ASSUME DestinationInv, StageInv, NEW a \in Attempts, Promote(a)
    PROVE  DestinationInv'
<1> USE DEF Goto, Fail, ownVars, destVars, fixed
<1>1. OwnFrame(a)
  BY Zenon, StepOwnFrame DEF DestinationInv, Own
<1>2. pc[a] \in Promoting => \A b \in Attempts \ {a} : pc[b] \notin Promoting
  BY Zenon DEF DestinationInv, OnePromotes
<1>3. HoldsPromotion(a) /\ pc \in [Attempts -> Labels] /\ job[a].key \in Keys /\ DOMAIN pinned = Keys
      /\ PinnedThere
  BY Zenon DEF DestinationInv, AssetTypes, Keys
<1>4. CASE promoteMaterializedDestination(a) \/ copyMaterializedSourceToStage(a) \/ RecheckDestination(a)
  <2>1. UNCHANGED destVars /\ pc[a] \notin Promoting /\ pc'[a] \notin Promoting
    BY Zenon, <1>3, <1>4 DEF promoteMaterializedDestination, copyMaterializedSourceToStage, RecheckDestination, Promoting
  <2> QED
    BY Zenon, <1>1, <2>1, OutsideKeeps
<1>5. CASE acquireDestinationPromotionLocks(a)
  <2>1. UNCHANGED <<dest, pinned>>
    BY Zenon, <1>5 DEF acquireDestinationPromotionLocks
  <2>2. CASE pc[a] = "lock" /\ <<"destination">> \in locks
    <3>1. UNCHANGED destVars /\ pc[a] \notin Promoting /\ pc'[a] \notin Promoting
      BY Zenon, <1>3, <1>5, <2>2 DEF acquireDestinationPromotionLocks, Promoting
    <3> QED
      BY Zenon, <1>1, <3>1, OutsideKeeps
  <2>3. CASE pc[a] = "lock" /\ <<"destination">> \notin locks
    <3>1. \A b \in Attempts : pc[b] \notin Promoting
      BY Zenon, <2>3 DEF DestinationInv, HoldsPromotion
    <3>2. pc'[a] = "lock2" /\ <<"destination">> \in locks'
      BY Zenon, <1>3, <1>5, <2>3 DEF acquireDestinationPromotionLocks
    <3>3. PinnedThere' /\ HoldsPromotion(a)'
      BY Zenon, <1>3, <2>1, <3>2 DEF PinnedThere, HoldsPromotion
    <3> QED
      BY Zenon, <1>1, <3>1, <3>3, PromoterAlone
  <2>4. CASE pc[a] = "lock2"
    <3>1. pc'[a] = "failed" \/ (pc'[a] = "locked" /\ locks \subseteq locks')
      BY Zenon, <1>3, <1>5, <2>4 DEF acquireDestinationPromotionLocks
    <3>2. PinnedThere' /\ HoldsPromotion(a)'
      BY Zenon, <1>3, <2>1, <2>4, <3>1 DEF PinnedThere, HoldsPromotion, Promoting
    <3> QED
      BY Zenon, <1>1, <1>2, <2>4, <3>2, PromoterAlone DEF Promoting
  <2> QED
    BY Zenon, <1>5, <2>2, <2>3, <2>4 DEF acquireDestinationPromotionLocks
<1>6. CASE CheckUnderLocks(a)
  <2>1. pc[a] = "locked" /\ UNCHANGED <<dest, pinned, stage>>
    BY Zenon, <1>6 DEF CheckUnderLocks
  <2>2. pc'[a] = "failed" \/ (pc'[a] = "place" /\ UNCHANGED locks /\ dest = None)
    BY Zenon, <1>3, <1>6 DEF CheckUnderLocks, DestinationPaths
  <2>3. dest = None => NothingPinned
    BY Zenon, <1>3 DEF PinnedThere, NothingPinned
  <2>4. PinnedThere' /\ HoldsPromotion(a)'
    BY Zenon, <1>3, <2>1, <2>2, <2>3 DEF PinnedThere, HoldsPromotion, Promoting, NothingPinned
  <2> QED
    BY Zenon, <1>1, <1>2, <2>1, <2>4, PromoterAlone DEF Promoting
<1>7. CASE PlaceDestination(a)
  <2>1. pc[a] = "place" /\ NothingPinned /\ UNCHANGED <<pinned, stage>>
    BY Zenon, <1>3, <1>7 DEF PlaceDestination, HoldsPromotion
  <2>2. (pc'[a] = "failed" /\ UNCHANGED dest) \/ (pc'[a] = "pin" /\ UNCHANGED locks /\ dest' = stage[a])
    BY Zenon, <1>3, <1>7 DEF PlaceDestination
  <2>3. PinnedThere' /\ HoldsPromotion(a)'
    BY Zenon, <1>3, <2>1, <2>2 DEF PinnedThere, HoldsPromotion, Promoting, NothingPinned
  <2> QED
    BY Zenon, <1>1, <1>2, <2>1, <2>3, PromoterAlone DEF Promoting
<1>8. CASE writeDestinationManifest(a)
  <2>1. pc[a] = "pin" /\ NothingPinned /\ dest = stage[a] /\ pc'[a] \in {"done", "failed"}
    BY Zenon, <1>3, <1>8 DEF writeDestinationManifest, HoldsPromotion
  <2>2. \/ UNCHANGED pinned
        \/ /\ pinned' = [pinned EXCEPT ![job[a].key] = [asset |-> job[a].asset, evidence |-> stage[a]]]
           /\ UNCHANGED dest
    BY Zenon, <1>8 DEF writeDestinationManifest
  <2>3. PinnedThere'
    <3>1. CASE UNCHANGED pinned
      BY Zenon, <2>1, <3>1 DEF PinnedThere, NothingPinned
    <3>2. CASE /\ pinned' = [pinned EXCEPT ![job[a].key] = [asset |-> job[a].asset, evidence |-> stage[a]]]
               /\ UNCHANGED dest
      <4>1. dest' # None /\ dest' = stage[a]
        BY Zenon, <2>1, <3>2 DEF StageInv, Promoting
      <4>2. \A k \in Keys : pinned'[k] # None => pinned'[k] = [asset |-> job[a].asset, evidence |-> stage[a]]
        BY Zenon, <1>3, <2>1, <3>2 DEF NothingPinned
      <4>3. [asset |-> job[a].asset, evidence |-> stage[a]].evidence = stage[a]
        BY Zenon
      <4> QED
        BY Zenon, <4>1, <4>2, <4>3 DEF PinnedThere
    <3> QED
      BY Zenon, <2>2, <3>1, <3>2
  <2>4. HoldsPromotion(a)'
    BY Zenon, <2>1 DEF HoldsPromotion, Promoting
  <2> QED
    BY Zenon, <1>1, <1>2, <2>1, <2>3, <2>4, PromoterAlone DEF Promoting
<1> QED
  BY Zenon, <1>4, <1>5, <1>6, <1>7, <1>8 DEF Promote

(* Every step keeps what a destination rests on.                           *)
LEMMA NextDestination ==
    ASSUME DestinationInv, StageInv, [Next]_vars
    PROVE  DestinationInv'
<1> USE DEF Goto, Fail, See, ownVars, destVars, fixed, cacheVars
<1>1. CASE UNCHANGED vars \/ OriginChanges
  BY Zenon, <1>1 DEF OriginChanges, vars, DestinationInv, AssetTypes, OnePromotes, PinnedThere, HoldsPromotion,
     NothingPinned
<1>2. ASSUME NEW a \in Attempts,
             \/ AssetMaterialize(a) \/ existingMaterializedDestination(a) \/ readDestinationManifest(a)
             \/ destinationEvidence(a) \/ Materialize(a)
      PROVE  DestinationInv'
  <2>1. OwnFrame(a)
    BY Zenon, <1>2, StepOwnFrame DEF DestinationInv, Own
  <2>2. pc \in [Attempts -> Labels]
    BY Zenon DEF DestinationInv, AssetTypes
  <2>3. UNCHANGED destVars
    BY Zenon, <1>2 DEF AssetMaterialize, existingMaterializedDestination, readDestinationManifest, destinationEvidence,
       Materialize, materializeReference, materializeWorkerCache, readAndVerifyCache, VerifyCached, acquireSource,
       writeStreamAtomically, RemoveSource, writeCacheManifest, extractArchive, extractZipFile,
       archiveSelectionResult
  <2>4. pc[a] \notin Promoting /\ pc'[a] \notin Promoting
    BY Zenon, <1>2, <2>2 DEF AssetMaterialize, existingMaterializedDestination, readDestinationManifest,
       destinationEvidence, Materialize, materializeReference, materializeWorkerCache, readAndVerifyCache,
       VerifyCached, acquireSource, writeStreamAtomically, RemoveSource, writeCacheManifest, extractArchive,
       extractZipFile, archiveSelectionResult, Acquired, Promoting
  <2> QED
    BY Zenon, <2>1, <2>3, <2>4, OutsideKeeps
<1>3. ASSUME NEW a \in Attempts, Crash(a) PROVE DestinationInv'
  <2>1. OwnFrame(a)
    BY Zenon, <1>3, StepOwnFrame DEF DestinationInv, Own
  <2>2. UNCHANGED <<dest, pinned, locks>> /\ pc'[a] = "failed"
    BY Zenon, <1>3 DEF Crash, DestinationInv, AssetTypes
  <2>3. CASE pc[a] \in Promoting
    <3>1. PinnedThere' /\ HoldsPromotion(a)'
      BY Zenon, <2>2 DEF DestinationInv, PinnedThere, HoldsPromotion, Promoting
    <3> QED
      BY Zenon, <2>1, <2>3, <3>1, PromoterAlone DEF DestinationInv, OnePromotes
  <2>4. CASE pc[a] \notin Promoting
    BY Zenon, <2>1, <2>2, <2>4, OutsideKeeps DEF Promoting
  <2> QED
    BY Zenon, <2>3, <2>4
<1> QED
  BY Zenon, <1>1, <1>2, <1>3, PromoteKeeps DEF Next

(* Every step keeps what has been copied.                                  *)
LEMMA NextStage ==
    ASSUME NoneIsNoEvidence, DestinationInv, StageInv, [Next]_vars
    PROVE  StageInv'
<1> USE DEF Goto, Fail, See, ownVars
<1>1. CASE UNCHANGED vars \/ OriginChanges
  BY Zenon, <1>1 DEF OriginChanges, vars, StageInv
<1>2. ASSUME NEW a \in Attempts, Own(a) PROVE StageInv'
  <2>1. OwnFrame(a) /\ pc \in [Attempts -> Labels] /\ DOMAIN stage = Attempts
    BY Zenon, <1>2, StepOwnFrame DEF DestinationInv, AssetTypes
  <2>2. CASE pc'[a] \notin {"recheck", "lock"} \cup Promoting
    BY Zenon, <2>1, <2>2 DEF OwnFrame, StageInv
  <2>3. CASE AssetMaterialize(a) \/ existingMaterializedDestination(a) \/ readDestinationManifest(a)
             \/ destinationEvidence(a) \/ Crash(a)
    BY Zenon, <2>1, <2>2, <2>3 DEF AssetMaterialize, existingMaterializedDestination, readDestinationManifest,
       destinationEvidence, Crash, Promoting
  <2>4. CASE Materialize(a)
    <3>1. pc'[a] \notin {"recheck", "lock"} \cup Promoting
      BY Zenon, <2>1, <2>4 DEF Materialize, materializeReference, materializeWorkerCache, readAndVerifyCache,
         VerifyCached, acquireSource, writeStreamAtomically, RemoveSource, writeCacheManifest, extractArchive,
         extractZipFile, archiveSelectionResult, Acquired, Promoting
    <3> QED
      BY Zenon, <2>2, <3>1
  <2>5. CASE copyMaterializedSourceToStage(a)
    <3>1. CASE pc'[a] = "failed"
      BY Zenon, <2>2, <3>1 DEF Promoting
    <3>2. CASE \E x, y : stage' = [stage EXCEPT ![a] = [kind |-> x, contents |-> y]]
      <4>1. stage'[a] # None
        BY Zenon, <2>1, <3>2 DEF NoneIsNoEvidence
      <4> QED
        BY Zenon, <2>1, <4>1 DEF OwnFrame, StageInv
    <3> QED
      BY Zenon, <2>1, <2>5, <3>1, <3>2 DEF copyMaterializedSourceToStage
  <2>6. CASE promoteMaterializedDestination(a)
    BY Zenon, <2>1, <2>2, <2>6 DEF promoteMaterializedDestination, Promoting
  <2>7. CASE RecheckDestination(a) \/ acquireDestinationPromotionLocks(a) \/ CheckUnderLocks(a)
             \/ PlaceDestination(a) \/ writeDestinationManifest(a)
    <3>1. UNCHANGED stage /\ pc[a] \in {"recheck", "lock"} \cup Promoting
      BY Zenon, <2>7 DEF RecheckDestination, acquireDestinationPromotionLocks, CheckUnderLocks, PlaceDestination,
         writeDestinationManifest, Promoting
    <3> QED
      BY Zenon, <2>1, <3>1 DEF OwnFrame, StageInv
  <2> QED
    BY Zenon, <1>2, <2>3, <2>4, <2>5, <2>6, <2>7 DEF Own, Promote
<1> QED
  BY Zenon, <1>1, <1>2 DEF Next, Own

(* A manifest is written once: who writes one found none under the locks.  *)
LEMMA PinnedStays ==
    ASSUME DestinationInv, NEW a \in Attempts, Own(a), NEW k \in Keys, pinned[k] # None
    PROVE  pinned'[k] = pinned[k]
<1>1. CASE writeDestinationManifest(a)
  <2>1. NothingPinned
    BY Zenon, <1>1 DEF writeDestinationManifest, DestinationInv, HoldsPromotion
  <2> QED
    BY Zenon, <2>1 DEF NothingPinned
<1>2. CASE AssetMaterialize(a) \/ existingMaterializedDestination(a) \/ readDestinationManifest(a)
           \/ destinationEvidence(a) \/ Crash(a)
  BY Zenon, <1>2 DEF AssetMaterialize, existingMaterializedDestination, readDestinationManifest, destinationEvidence,
     Crash, destVars
<1>3. CASE Materialize(a)
  BY Zenon, <1>3 DEF Materialize, materializeReference, materializeWorkerCache, readAndVerifyCache, VerifyCached,
     acquireSource, writeStreamAtomically, RemoveSource, writeCacheManifest, extractArchive, extractZipFile,
     archiveSelectionResult, destVars
<1>4. CASE promoteMaterializedDestination(a) \/ copyMaterializedSourceToStage(a) \/ RecheckDestination(a)
           \/ acquireDestinationPromotionLocks(a) \/ CheckUnderLocks(a) \/ PlaceDestination(a)
  BY Zenon, <1>4 DEF promoteMaterializedDestination, copyMaterializedSourceToStage, RecheckDestination,
     acquireDestinationPromotionLocks, CheckUnderLocks, PlaceDestination, destVars
<1> QED
  BY Zenon, <1>1, <1>2, <1>3, <1>4 DEF Own, Promote

(* An attempt comes to rest on a manifest by reading it, or by writing it. *)
LEMMA OwnReport ==
    ASSUME NoneIsNoEvidence, DestinationInv, ReportInv, NEW a \in Attempts, Own(a)
    PROVE  RestsOnPinned(a)'
<1> USE DEF Goto, Fail, See, ownVars
<1>1. UNCHANGED job /\ pc \in [Attempts -> Labels] /\ job[a].key \in Keys /\ DOMAIN pinned = Keys
      /\ DOMAIN seen = Attempts /\ DOMAIN stage = Attempts
  BY Zenon, StepOwnFrame DEF DestinationInv, AssetTypes, OwnFrame, Keys
<1>2. RestsOnPinned(a) /\ (pinned[job[a].key] # None => pinned'[job[a].key] = pinned[job[a].key])
  BY Zenon, <1>1, PinnedStays DEF ReportInv
<1>3. CASE pc'[a] \notin {"existing", "compare", "done"}
  BY Zenon, <1>3 DEF RestsOnPinned
<1>4. CASE AssetMaterialize(a) \/ Crash(a)
  BY Zenon, <1>1, <1>3, <1>4 DEF AssetMaterialize, Crash
<1>5. CASE existingMaterializedDestination(a)
  BY Zenon, <1>1, <1>2, <1>5 DEF existingMaterializedDestination, RestsOnPinned
<1>6. CASE readDestinationManifest(a)
  BY Zenon, <1>1, <1>2, <1>6 DEF readDestinationManifest, RestsOnPinned
<1>7. CASE destinationEvidence(a)
  BY Zenon, <1>1, <1>2, <1>7 DEF destinationEvidence, RestsOnPinned
<1>8. CASE Materialize(a)
  <2>1. pc'[a] \notin {"existing", "compare", "done"}
    BY Zenon, <1>1, <1>8 DEF Materialize, materializeReference, materializeWorkerCache, readAndVerifyCache, VerifyCached,
       acquireSource, writeStreamAtomically, RemoveSource, writeCacheManifest, extractArchive, extractZipFile,
       archiveSelectionResult, Acquired
  <2> QED
    BY Zenon, <1>3, <2>1
<1>9. CASE promoteMaterializedDestination(a)
  BY Zenon, <1>1, <1>9 DEF promoteMaterializedDestination, RestsOnPinned
<1>10. CASE copyMaterializedSourceToStage(a) \/ RecheckDestination(a) \/ acquireDestinationPromotionLocks(a)
            \/ CheckUnderLocks(a) \/ PlaceDestination(a)
  BY Zenon, <1>1, <1>3, <1>10 DEF copyMaterializedSourceToStage, RecheckDestination,
     acquireDestinationPromotionLocks, CheckUnderLocks, PlaceDestination
<1>11. CASE writeDestinationManifest(a)
  <2>1. CASE pc'[a] = "failed"
    BY Zenon, <1>3, <2>1
  <2>2. CASE /\ pinned' = [pinned EXCEPT ![job[a].key] = [asset |-> job[a].asset, evidence |-> stage[a]]]
             /\ pc'[a] = "done"
    <3>1. pinned'[job[a].key] = [asset |-> job[a].asset, evidence |-> stage[a]]
      BY Zenon, <1>1, <2>2
    <3>2. pinned'[job[a].key] # None /\ pinned'[job[a].key].evidence = stage[a]
      <4>1. [asset |-> job[a].asset, evidence |-> stage[a]].evidence = stage[a]
        BY Zenon
      <4>2. None # [asset |-> job[a].asset, evidence |-> stage[a]]
        BY Zenon DEF NoneIsNoEvidence
      <4> QED
        BY Zenon, <3>1, <4>1, <4>2
    <3>3. UNCHANGED stage
      BY Zenon, <1>11 DEF writeDestinationManifest
    <3> QED
      BY Zenon, <1>1, <2>2, <3>2, <3>3 DEF RestsOnPinned
  <2> QED
    BY Zenon, <1>1, <1>11, <2>1, <2>2 DEF writeDestinationManifest
<1> QED
  BY Zenon, <1>4, <1>5, <1>6, <1>7, <1>8, <1>9, <1>10, <1>11 DEF Own, Promote

(* Every step keeps what the attempts rest on.                             *)
LEMMA NextReport ==
    ASSUME NoneIsNoEvidence, DestinationInv, ReportInv, [Next]_vars
    PROVE  ReportInv'
<1>1. CASE UNCHANGED vars \/ OriginChanges
  BY Zenon, <1>1 DEF OriginChanges, vars, ownVars, destVars, ReportInv, RestsOnPinned
<1>2. ASSUME NEW a \in Attempts, Own(a) PROVE ReportInv'
  <2>1. ASSUME NEW b \in Attempts \ {a} PROVE RestsOnPinned(b)'
    <3>1. UNCHANGED job /\ pc'[b] = pc[b] /\ seen'[b] = seen[b] /\ stage'[b] = stage[b]
      BY Zenon, <1>2, StepOwnFrame DEF DestinationInv, OwnFrame
    <3>2. job[b].key \in Keys
      BY Zenon DEF DestinationInv, AssetTypes, Keys
    <3>3. pinned[job[b].key] # None => pinned'[job[b].key] = pinned[job[b].key]
      BY Zenon, <1>2, <3>2, PinnedStays
    <3> QED
      BY Zenon, <3>1, <3>3 DEF ReportInv, RestsOnPinned
  <2> QED
    BY Zenon, <1>2, <2>1, OwnReport DEF ReportInv
<1> QED
  BY Zenon, <1>1, <1>2 DEF Next, Own

(* A destination agrees with the manifest that pins it, however many       *)
(* attempts promoted at once and wherever workers were killed.             *)
THEOREM AssetPinnedDestination == ASSUME NoneIsNoEvidence PROVE Spec => []PinnedDestination
<1>1. Init => DestinationInv /\ StageInv
  BY InitAsset
<1>2. DestinationInv /\ StageInv /\ [Next]_vars => DestinationInv' /\ StageInv'
  BY Zenon, NextDestination, NextStage
<1>3. DestinationInv => PinnedDestination
  BY Zenon DEF DestinationInv, PinnedThere, PinnedDestination
<1> QED
  BY <1>1, <1>2, <1>3, PTL DEF Spec

(* What an attempt has reported of its destination stays true, whatever    *)
(* other attempts do and wherever workers are killed.                      *)
THEOREM AssetReportedDestination == ASSUME NoneIsNoEvidence PROVE Spec => []ReportedDestination
<1>1. Init => DestinationInv /\ StageInv /\ ReportInv
  BY InitAsset
<1>2. ASSUME DestinationInv, StageInv, ReportInv, [Next]_vars PROVE DestinationInv' /\ StageInv' /\ ReportInv'
  BY Zenon, <1>2, NextDestination, NextStage, NextReport
<1>3. ASSUME DestinationInv, ReportInv PROVE ReportedDestination
  <2>1. \A a \in Attempts : job[a].key \in Keys
    BY Zenon, <1>3 DEF DestinationInv, AssetTypes, Keys
  <2> QED
    BY Zenon, <1>3, <2>1 DEF DestinationInv, PinnedThere, ReportInv, RestsOnPinned, ReportedDestination
<1> QED
  BY <1>1, <1>2, <1>3, PTL DEF Spec
=============================================================================
