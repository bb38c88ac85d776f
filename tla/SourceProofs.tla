---------------------------- MODULE SourceProofs ----------------------------
(***************************************************************************)
(* The source of a recorded run can be read, recovery leaves what it has   *)
(* verified and an acknowledged submission is whole: for any number of     *)
(* runs that share a revision, any damage to the cache and any number of   *)
(* crashes.                                                                *)
(*                                                                         *)
(* SourceStaysReadable is not inductive: it speaks of recorded runs only,  *)
(* and what makes it true of a run when it is recorded is what each step   *)
(* of its publication leaves, while other runs publish, remove and repair  *)
(* in the same directory.  RecoveredReadable rests on there being no such  *)
(* run during recovery but the one that is repaired.                       *)
(***************************************************************************)
EXTENDS SourceAdmission, TLAPS

Publishing == {"publish", "write", "remove"}
Recording == {"verify", "register", "run", "stages", "plan", "queue", "members", "second", "steps"}
Labels == Ended \cup Publishing \cup Recording \cup {"manifest", "repaired"}

SourceTypes ==
    /\ source \in [Runs -> {"github", "local", "inline"}]
    /\ handler \in [Runs -> Labels]
    /\ next \in [Runs -> 1 .. 4]
    /\ cache \in [Dirs -> [FileSet -> {None, "good", "bad"}]]
    /\ manifest \in [Runs -> {None, FileSet}]
    /\ rows \in [Runs -> SUBSET AllRows]

Writing(q, d, f) == handler[q] = "write" /\ Files[next[q]] = f /\ PathsForManifest(q) = d

(* A file is as it was admitted, or something else got at it, or it is     *)
(* being replaced.                                                         *)
Held(d, f) == <<d, f>> \in damaged \/ cache[d][f] = "good" \/ \E q \in Runs : Writing(q, d, f)

Declared(r) == manifest[r] = FileSet \/ <<r, "manifest">> \in damaged

OnlyDamageIsBad == \A d \in Dirs, f \in FileSet : cache[d][f] = "bad" => <<d, f>> \in damaged

(* Before requests are admitted nothing runs but the repair.               *)
Quiet ==
    /\ mode \in {"down", "recovery", "normal"}
    /\ mode # "recovery" => repairing = None
    /\ repairing \in unverified \cup {None}
    /\ mode # "normal" => \A q \in Runs : handler[q] \notin Ended =>
          q = repairing /\ handler[q] \in Publishing \cup {"manifest", "repaired"}

(* How far a publication has come.                                         *)
PublishesInOrder(r) ==
    /\ handler[r] = "new" => next[r] = 1
    /\ handler[r] \in Publishing => \A k \in 1 .. 3 : k < next[r] => Held(PathsForManifest(r), Files[k])
    /\ handler[r] \in {"write", "remove"} => next[r] \in 1 .. 3
    /\ handler[r] = "manifest" => \A f \in FileSet : Held(PathsForManifest(r), f)

Published(r) == Declared(r) /\ \A f \in FileSet : Held(PathsForManifest(r), f)

(* Nothing is recorded of a run before its source is published.            *)
RecordsPublished(r) == handler[r] \in Recording \/ rows[r] # {} => Published(r)

(* The transactions of a submission are committed in order.                *)
RecordsInOrder(r) ==
    /\ handler[r] = "stages" => {"run"} \subseteq rows[r]
    /\ handler[r] = "plan" => {"run", "stages"} \subseteq rows[r]
    /\ handler[r] = "queue" => {"run", "stages", "plan"} \subseteq rows[r]
    /\ handler[r] = "members" => {"run", "stages", "plan", "queue"} \subseteq rows[r]
    /\ handler[r] = "second" => {"run", "stages", "plan", "queue", "first"} \subseteq rows[r]
    /\ handler[r] = "steps" => {"run", "stages", "plan", "queue", "first", "second"} \subseteq rows[r]
    /\ handler[r] = "acknowledged" => rows[r] = AllRows

SourceInv ==
    /\ SourceTypes /\ OnlyDamageIsBad /\ Quiet
    /\ \A r \in Runs : PublishesInOrder(r) /\ RecordsPublished(r) /\ RecordsInOrder(r)

(* None is no run, and neither the content of a file nor of a manifest.    *)
NoneIsNoContent == None \notin {"good", "bad", FileSet} \cup Runs
-----------------------------------------------------------------------------
(* Nothing is published or recorded at first.                              *)
LEMMA InitSource == ASSUME NoneIsNoContent, Init PROVE SourceInv
<1>1. Quiet
  BY DEF Init, Quiet
<1> QED
  BY <1>1 DEF NoneIsNoContent, Init, SourceInv, SourceTypes, OnlyDamageIsBad, PublishesInOrder, RecordsPublished,
     RecordsInOrder, Publishing, Recording, Labels, Ended

(* The invariant gives what the run checks.                                *)
LEMMA SourceReadable == ASSUME NoneIsNoContent, SourceInv PROVE SourceStaysReadable
<1> DEFINE Excused(r, f) ==
        \/ {<<r, "manifest">>, <<PathsForManifest(r), f>>} \cap damaged # {}
        \/ \E q \in Runs : handler[q] = "write" /\ Files[next[q]] = f /\ PathsForManifest(q) = PathsForManifest(r)
<1>1. ASSUME NEW r \in Runs, "run" \in rows[r], NEW f \in FileSet PROVE ReadFile(r, f) \/ Excused(r, f)
  <2>1. Declared(r) /\ Held(PathsForManifest(r), f)
    BY Zenon, <1>1 DEF SourceInv, RecordsPublished, Published
  <2>2. <<r, "manifest">> \in damaged \/ <<PathsForManifest(r), f>> \in damaged => Excused(r, f)
    BY Zenon
  <2>3. (\E q \in Runs : Writing(q, PathsForManifest(r), f)) => Excused(r, f)
    BY Zenon DEF Writing
  <2>4. manifest[r] = FileSet /\ cache[PathsForManifest(r)][f] = "good" => ReadFile(r, f)
    BY Zenon DEF NoneIsNoContent, ReadFile, VerifyCachedFile
  <2> QED
    BY Zenon, <2>1, <2>2, <2>3, <2>4 DEF Held, Declared
<1>2. \A r \in Runs : ReadFile(r, "script") => buildSourceBundle(r)
  <2>1. \A f \in FileSet \ {"project", "workflow"} : f = "script"
    BY Zenon DEF FileSet
  <2> QED
    BY Zenon, <2>1 DEF buildSourceBundle, declaredSourceFiles
<1>3. {"project", "workflow", "script"} = FileSet
  BY Zenon DEF FileSet
<1> HIDE DEF Excused
<1>4. \A r \in Runs : "run" \in rows[r] =>
          /\ \A f \in {"project", "workflow"} : ReadFile(r, f) \/ Excused(r, f)
          /\ buildSourceBundle(r) \/ Excused(r, "script")
  BY Zenon, <1>1, <1>2, <1>3
<1> QED
  BY Zenon, <1>4 DEF SourceStaysReadable, Excused

(* The directory of a run is one of the cache's.                           *)
LEMMA PathIsDir == ASSUME NEW r \in Runs PROVE PathsForManifest(r) \in Dirs
BY Zenon DEF PathsForManifest, Dirs

(* What the steps do to files and manifests.                               *)
LEMMA WhoChangesFiles ==
    ASSUME [Next]_vars
    PROVE  /\ \/ UNCHANGED <<cache, manifest, damaged, fresh>>
              \/ \E r \in Runs : removeCorrupt(r) \/ writeFileAtomically(r) \/ PublishAdmittedSource(r)
              \/ \E r \in Runs : Fail(r) \/ DamageManifest(r)
              \/ Crash \/ enterRecoveryMode
              \/ \E d \in Dirs, f \in FileSet : Damage(d, f)
           /\ UNCHANGED source
<1> DEFINE Kept == UNCHANGED <<cache, manifest, damaged, fresh, source>>
<1> USE DEF cacheVars
<1>1. CASE UNCHANGED vars
  BY Zenon, <1>1 DEF vars
<1>2. ASSUME NEW r \in Runs, Publish(r)
      PROVE  /\ UNCHANGED source
             /\ Kept \/ removeCorrupt(r) \/ writeFileAtomically(r) \/ PublishAdmittedSource(r)
  BY Zenon, <1>2 DEF Publish, publishCacheFile, removeCorrupt, writeFileAtomically, PublishAdmittedSource
<1>3. ASSUME NEW r \in Runs, Admit(r) PROVE Kept
  BY Zenon, <1>3 DEF Admit, submitWorkflowRunToStore, submitInlineWorkflowRunToStore, Submit, readBack, UpsertProject,
     UpsertWorkflow, CreateWorkflowRun, InsertStagePlan, CreateWorkflowDependencyPlan, QueueWorkItems,
     RecordCompiledWorkItemMembership, markCompiledStageEmptyStepsCompleted, Record
<1>4. ASSUME NEW r \in Runs, verifyWorkflowRunSource(r) \/ verifyRepaired(r) PROVE Kept
  BY Zenon, <1>4 DEF verifyWorkflowRunSource, verifyRepaired
<1>5. ASSUME NEW r \in Runs, Fail(r) \/ DamageManifest(r) PROVE UNCHANGED source
  BY Zenon, <1>5 DEF Fail, DamageManifest, Spoil
<1>6. CASE Recover
  BY Zenon, <1>6 DEF Recover, enterRecoveryMode, allowNormalAdmission, Crash
<1>7. ASSUME NEW d \in Dirs, NEW f \in FileSet, Damage(d, f) PROVE UNCHANGED source
  BY Zenon, <1>7 DEF Damage, Spoil
<1> QED
  BY Zenon, <1>1, <1>2, <1>3, <1>4, <1>5, <1>6, <1>7 DEF Next, Recover

(* A file that is being replaced still is, or has been, or the replacement *)
(* was given up.                                                           *)
LEMMA WhoStopsWriting ==
    ASSUME NoneIsNoContent, SourceInv, [Next]_vars, NEW q \in Runs, handler[q] = "write"
    PROVE  \/ handler'[q] = "write" /\ next'[q] = next[q]
           \/ writeFileAtomically(q) \/ Fail(q) \/ Crash
<1> USE DEF SourceInv, SourceTypes, Goto
<1>1. CASE UNCHANGED vars
  BY Zenon, <1>1 DEF vars
<1>2. ASSUME NEW r \in Runs, Publish(r), ~writeFileAtomically(q) PROVE handler'[q] = "write" /\ next'[q] = next[q]
  <2>1. CASE publishCacheFile(r)
    <3>1. r # q /\ handler[r] = "publish"
      BY Zenon, <2>1 DEF publishCacheFile
    <3>2. \/ UNCHANGED handler \/ \E pc \in Labels : handler' = [handler EXCEPT ![r] = pc]
      BY Zenon, <2>1 DEF publishCacheFile, Labels, Publishing
    <3>3. \/ UNCHANGED next \/ next' = [next EXCEPT ![r] = @ + 1]
      BY Zenon, <2>1 DEF publishCacheFile
    <3> QED
      BY Zenon, <3>1, <3>2, <3>3
  <2>2. CASE removeCorrupt(r)
    BY Zenon, <2>2 DEF removeCorrupt
  <2>3. CASE writeFileAtomically(r)
    <3>1. r # q
      BY Zenon, <1>2, <2>3
    <3> QED
      BY Zenon, <2>3, <3>1 DEF writeFileAtomically
  <2>4. CASE PublishAdmittedSource(r)
    BY Zenon, <2>4 DEF PublishAdmittedSource
  <2> QED
    BY Zenon, <1>2, <2>1, <2>2, <2>3, <2>4 DEF Publish
<1>3. ASSUME NEW r \in Runs, Admit(r) PROVE handler'[q] = "write" /\ next'[q] = next[q]
  BY Zenon, <1>3 DEF Admit, submitWorkflowRunToStore, submitInlineWorkflowRunToStore, Submit, readBack, UpsertProject,
     UpsertWorkflow, CreateWorkflowRun, InsertStagePlan, CreateWorkflowDependencyPlan, QueueWorkItems,
     RecordCompiledWorkItemMembership, markCompiledStageEmptyStepsCompleted, Record
<1>4. ASSUME NEW r \in Runs, verifyWorkflowRunSource(r) PROVE handler'[q] = "write" /\ next'[q] = next[q]
  <2>1. mode = "recovery" /\ repairing = None
    BY Zenon, <1>4 DEF verifyWorkflowRunSource
  <2>2. q # repairing => handler[q] \in Ended
    BY Zenon, <2>1 DEF Quiet
  <2>3. "write" \notin Ended
    BY Zenon DEF Ended
  <2> QED
    BY Zenon, <2>1, <2>2, <2>3 DEF NoneIsNoContent
<1>5. ASSUME NEW r \in Runs, verifyRepaired(r) \/ DamageManifest(r) \/ (Fail(r) /\ r # q)
      PROVE  handler'[q] = "write" /\ next'[q] = next[q]
  BY Zenon, <1>5 DEF verifyRepaired, DamageManifest, Spoil, Fail
<1>6. CASE Recover
  BY Zenon, <1>6 DEF Recover, enterRecoveryMode, allowNormalAdmission
<1>7. ASSUME NEW d \in Dirs, NEW f \in FileSet, Damage(d, f) PROVE handler'[q] = "write" /\ next'[q] = next[q]
  BY Zenon, <1>7 DEF Damage, Spoil
<1> QED
  BY Zenon, <1>1, <1>2, <1>3, <1>4, <1>5, <1>6, <1>7 DEF Next

(* What is held stays held, whoever takes a step.                          *)
LEMMA HeldStays ==
    ASSUME NoneIsNoContent, SourceInv, [Next]_vars, NEW d \in Dirs, NEW f \in FileSet, Held(d, f)
    PROVE  Held(d, f)'
<1> USE PathIsDir DEF SourceInv, SourceTypes
<1>1. \A q \in Runs : PathsForManifest(q)' = PathsForManifest(q)
  BY Zenon, WhoChangesFiles DEF PathsForManifest
<1>2. ASSUME NEW q \in Runs, writeFileAtomically(q) PROVE Held(d, f)'
  <2>1. cache' = [cache EXCEPT ![PathsForManifest(q)][Files[next[q]]] = "good"]
    BY Zenon, <1>2 DEF writeFileAtomically, SetFile
  <2>2. handler[q] = "write" /\ damaged' = damaged \ {<<PathsForManifest(q), Files[next[q]]>>}
    BY Zenon, <1>2 DEF writeFileAtomically, Written
  <2>3. CASE d = PathsForManifest(q) /\ f = Files[next[q]]
    <3>1. cache'[d][f] = "good"
      BY Zenon, <2>1, <2>3
    <3> QED
      BY Zenon, <3>1 DEF Held
  <2>4. CASE ~(d = PathsForManifest(q) /\ f = Files[next[q]])
    <3>1. cache'[d][f] = cache[d][f]
      BY Zenon, <2>1, <2>4
    <3>2. <<d, f>> \in damaged => <<d, f>> \in damaged'
      BY Zenon, <2>2, <2>4
    <3>3. ASSUME NEW p \in Runs, Writing(p, d, f) PROVE Writing(p, d, f)'
      <4>1. p # q
        BY Zenon, <2>4, <3>3 DEF Writing
      <4>2. handler'[p] = handler[p] /\ next'[p] = next[p]
        BY Zenon, <1>2, <4>1 DEF writeFileAtomically, Goto
      <4> QED
        BY Zenon, <1>1, <3>3, <4>2 DEF Writing
    <3> QED
      BY Zenon, <3>1, <3>2, <3>3 DEF Held
  <2> QED
    BY Zenon, <2>3, <2>4
<1>3. ASSUME NEW q \in Runs, Writing(q, d, f), cache'[d][f] = cache[d][f], damaged \subseteq damaged' PROVE Held(d, f)'
  <2>1. CASE handler'[q] = "write" /\ next'[q] = next[q]
    BY Zenon, <1>1, <1>3, <2>1 DEF Held, Writing
  <2>2. CASE Fail(q) \/ Crash
    <3>1. cache[d][f] = None => <<d, f>> \in Abandoned(q)
      BY Zenon, <1>3 DEF Writing, Abandoned
    <3>2. Abandoned(q) \subseteq damaged'
      BY Zenon, <2>2 DEF Fail, Crash
    <3>3. cache[d][f] \in {None, "good", "bad"}
      BY Zenon
    <3>4. cache[d][f] = "bad" => <<d, f>> \in damaged
      BY Zenon DEF OnlyDamageIsBad
    <3> QED
      BY Zenon, <1>3, <3>1, <3>2, <3>3, <3>4 DEF Held
  <2> QED
    BY Zenon, <1>2, <1>3, <2>1, <2>2, WhoStopsWriting DEF Writing
<1>4. ASSUME cache'[d][f] = cache[d][f], damaged \subseteq damaged' PROVE Held(d, f)'
  BY Zenon, <1>3, <1>4 DEF Held
<1>5. ASSUME NEW r \in Runs, removeCorrupt(r) PROVE Held(d, f)'
  <2>1. cache' = [cache EXCEPT ![PathsForManifest(r)][Files[next[r]]] = None] /\ UNCHANGED <<damaged, next>>
    BY Zenon, <1>5 DEF removeCorrupt, SetFile
  <2>2. CASE d = PathsForManifest(r) /\ f = Files[next[r]]
    <3>1. handler'[r] = "write"
      BY Zenon, <1>5 DEF removeCorrupt, Goto
    <3> QED
      BY Zenon, <1>1, <2>1, <2>2, <3>1 DEF Held, Writing
  <2>3. CASE ~(d = PathsForManifest(r) /\ f = Files[next[r]])
    <3>1. cache'[d][f] = cache[d][f]
      BY Zenon, <2>1, <2>3
    <3> QED
      BY Zenon, <1>4, <2>1, <3>1
  <2> QED
    BY Zenon, <2>2, <2>3
<1>6. ASSUME NEW r \in Runs, PublishAdmittedSource(r) PROVE Held(d, f)'
  <2>1. UNCHANGED cache /\ damaged' = damaged \ {<<r, "manifest">>}
    BY Zenon, <1>6 DEF PublishAdmittedSource, Written
  <2>2. f # "manifest"
    BY Zenon DEF FileSet
  <2>3. <<d, f>> \in damaged => <<d, f>> \in damaged'
    BY Zenon, <2>1, <2>2
  <2>4. ASSUME NEW q \in Runs, Writing(q, d, f) PROVE Writing(q, d, f)'
    <3>1. handler'[q] = handler[q] /\ next'[q] = next[q]
      BY Zenon, <1>6, <2>4 DEF PublishAdmittedSource, Goto, Writing
    <3> QED
      BY Zenon, <1>1, <2>4, <3>1 DEF Writing
  <2> QED
    BY Zenon, <2>1, <2>3, <2>4 DEF Held
<1>7. ASSUME NEW r \in Runs, Fail(r) \/ DamageManifest(r) PROVE Held(d, f)'
  <2>1. UNCHANGED cache /\ damaged \subseteq damaged'
    BY Zenon, <1>7 DEF Fail, DamageManifest, Spoil
  <2> QED
    BY Zenon, <1>4, <2>1
<1>8. ASSUME UNCHANGED <<cache, manifest, damaged, fresh>> \/ Crash \/ enterRecoveryMode PROVE Held(d, f)'
  <2>1. UNCHANGED cache /\ damaged \subseteq damaged'
    BY Zenon, <1>8 DEF Crash, enterRecoveryMode
  <2> QED
    BY Zenon, <1>4, <2>1
<1>9. ASSUME NEW e \in Dirs, NEW g \in FileSet, Damage(e, g) PROVE Held(d, f)'
  <2>1. PICK value : cache' = [cache EXCEPT ![e][g] = value] /\ damaged' = damaged \cup {<<e, g>>}
    BY Zenon, <1>9 DEF Damage, Spoil
  <2>2. CASE d = e /\ f = g
    BY Zenon, <2>1, <2>2 DEF Held
  <2>3. CASE ~(d = e /\ f = g)
    <3>1. cache'[d][f] = cache[d][f]
      BY Zenon, <2>1, <2>3
    <3> QED
      BY Zenon, <1>4, <2>1, <3>1
  <2> QED
    BY Zenon, <2>2, <2>3
<1> QED
  BY Zenon, <1>2, <1>5, <1>6, <1>7, <1>8, <1>9, WhoChangesFiles

(* A manifest stays unless it is spoiled.                                  *)
LEMMA DeclaredStays ==
    ASSUME SourceInv, [Next]_vars
    PROVE  /\ manifest' \in [Runs -> {None, FileSet}]
           /\ \A r \in Runs : Declared(r) => Declared(r)'
<1> USE DEF SourceInv, SourceTypes, Declared
<1>1. ASSUME NEW q \in Runs, removeCorrupt(q) \/ writeFileAtomically(q) \/ Fail(q)
      PROVE  UNCHANGED manifest /\ \A r \in Runs : Declared(r) => Declared(r)'
  <2>1. UNCHANGED manifest
    BY Zenon, <1>1 DEF removeCorrupt, writeFileAtomically, Fail
  <2>2. CASE removeCorrupt(q) \/ Fail(q)
    BY Zenon, <2>1, <2>2 DEF removeCorrupt, Fail
  <2>3. CASE writeFileAtomically(q)
    <3>1. next[q] \in 1 .. 3
      BY Zenon, <2>3 DEF writeFileAtomically, PublishesInOrder
    <3>2. Files[next[q]] # "manifest"
      BY ONLY <3>1 DEF Files
    <3>3. damaged' = damaged \ {<<PathsForManifest(q), Files[next[q]]>>}
      BY Zenon, <2>3 DEF writeFileAtomically, Written
    <3> QED
      BY Zenon, <2>1, <3>2, <3>3
  <2> QED
    BY Zenon, <1>1, <2>1, <2>2, <2>3
<1>2. ASSUME NEW q \in Runs, PublishAdmittedSource(q)
      PROVE  manifest' \in [Runs -> {None, FileSet}] /\ \A r \in Runs : Declared(r) => Declared(r)'
  <2>1. manifest' = [manifest EXCEPT ![q] = FileSet] /\ damaged' = damaged \ {<<q, "manifest">>}
    BY Zenon, <1>2 DEF PublishAdmittedSource, publishManifest, declaredSourceFiles, Written
  <2> QED
    BY Zenon, <2>1
<1>3. ASSUME NEW q \in Runs, DamageManifest(q)
      PROVE  manifest' \in [Runs -> {None, FileSet}] /\ \A r \in Runs : Declared(r) => Declared(r)'
  <2>1. manifest' = [manifest EXCEPT ![q] = None] /\ damaged' = damaged \cup {<<q, "manifest">>}
    BY Zenon, <1>3 DEF DamageManifest, Spoil
  <2> QED
    BY Zenon, <2>1
<1>4. ASSUME UNCHANGED <<cache, manifest, damaged, fresh>> \/ Crash \/ enterRecoveryMode
      PROVE  UNCHANGED manifest /\ \A r \in Runs : Declared(r) => Declared(r)'
  BY Zenon, <1>4 DEF Crash, enterRecoveryMode
<1>5. ASSUME NEW e \in Dirs, NEW g \in FileSet, Damage(e, g)
      PROVE  UNCHANGED manifest /\ \A r \in Runs : Declared(r) => Declared(r)'
  BY Zenon, <1>5 DEF Damage, Spoil
<1> QED
  BY Zenon, <1>1, <1>2, <1>3, <1>4, <1>5, WhoChangesFiles

(* Nothing but damage makes a file bad.                                    *)
LEMMA OnlyDamageStays ==
    ASSUME NoneIsNoContent, SourceInv, [Next]_vars
    PROVE  OnlyDamageIsBad'
<1> USE PathIsDir DEF NoneIsNoContent, SourceInv, SourceTypes, OnlyDamageIsBad
<1>1. ASSUME UNCHANGED cache, damaged \subseteq damaged' PROVE OnlyDamageIsBad'
  BY Zenon, <1>1
<1>2. ASSUME NEW r \in Runs, removeCorrupt(r) \/ writeFileAtomically(r) PROVE OnlyDamageIsBad'
  <2>1. PICK value \in {None, "good"} : cache' = [cache EXCEPT ![PathsForManifest(r)][Files[next[r]]] = value]
    BY Zenon, <1>2 DEF removeCorrupt, writeFileAtomically, SetFile
  <2>2. damaged \ {<<PathsForManifest(r), Files[next[r]]>>} \subseteq damaged'
    BY Zenon, <1>2 DEF removeCorrupt, writeFileAtomically, Written
  <2>3. ASSUME NEW d \in Dirs, NEW f \in FileSet, cache'[d][f] = "bad" PROVE <<d, f>> \in damaged'
    <3>1. ~(d = PathsForManifest(r) /\ f = Files[next[r]])
      BY Zenon, <2>1, <2>3
    <3>2. cache'[d][f] = cache[d][f]
      BY Zenon, <2>1, <3>1
    <3> QED
      BY Zenon, <2>2, <2>3, <3>1, <3>2
  <2> QED
    BY Zenon, <2>3
<1>3. ASSUME NEW d \in Dirs, NEW f \in FileSet, Damage(d, f) PROVE OnlyDamageIsBad'
  <2>1. PICK value : cache' = [cache EXCEPT ![d][f] = value] /\ damaged' = damaged \cup {<<d, f>>}
    BY Zenon, <1>3 DEF Damage, Spoil
  <2> QED
    BY Zenon, <2>1
<1>4. ASSUME NEW r \in Runs, PublishAdmittedSource(r) PROVE OnlyDamageIsBad'
  <2>1. UNCHANGED cache /\ damaged' = damaged \ {<<r, "manifest">>}
    BY Zenon, <1>4 DEF PublishAdmittedSource, Written
  <2>2. "manifest" \notin FileSet
    BY Zenon DEF FileSet
  <2> QED
    BY Zenon, <2>1, <2>2
<1>5. ASSUME \/ UNCHANGED <<cache, manifest, damaged, fresh>> \/ Crash \/ enterRecoveryMode
             \/ \E r \in Runs : Fail(r) \/ DamageManifest(r)
      PROVE  OnlyDamageIsBad'
  <2>1. UNCHANGED cache /\ damaged \subseteq damaged'
    BY Zenon, <1>5 DEF Crash, enterRecoveryMode, Fail, DamageManifest, Spoil
  <2> QED
    BY Zenon, <1>1, <2>1
<1> QED
  BY Zenon, <1>2, <1>3, <1>4, <1>5, WhoChangesFiles

(* Files keep their types.                                                 *)
LEMMA TypesStay ==
    ASSUME SourceInv, [Next]_vars
    PROVE  cache' \in [Dirs -> [FileSet -> {None, "good", "bad"}]] /\ UNCHANGED source
<1> USE PathIsDir DEF SourceInv, SourceTypes
<1>1. ASSUME NEW r \in Runs, removeCorrupt(r) \/ writeFileAtomically(r)
      PROVE  cache' \in [Dirs -> [FileSet -> {None, "good", "bad"}]]
  <2> DEFINE f == Files[next[r]]
  <2>1. PICK content \in {None, "good"} : SetFile(r, f, content)
    BY Zenon, <1>1 DEF removeCorrupt, writeFileAtomically
  <2> HIDE DEF f
  <2> QED
    BY Zenon, <2>1 DEF SetFile
<1>2. ASSUME NEW d \in Dirs, NEW f \in FileSet, Damage(d, f)
      PROVE  cache' \in [Dirs -> [FileSet -> {None, "good", "bad"}]]
  BY <1>2 DEF Damage
<1>3. ASSUME \/ UNCHANGED <<cache, manifest, damaged, fresh>> \/ Crash \/ enterRecoveryMode
             \/ \E r \in Runs : PublishAdmittedSource(r) \/ Fail(r) \/ DamageManifest(r)
      PROVE  UNCHANGED cache
  BY Zenon, <1>3 DEF Crash, enterRecoveryMode, PublishAdmittedSource, Fail, DamageManifest
<1> QED
  BY Zenon, <1>1, <1>2, <1>3, WhoChangesFiles

(* Before requests are admitted only the repair takes steps.               *)
LEMMA QuietStays ==
    ASSUME NoneIsNoContent, SourceInv, [Next]_vars
    PROVE  Quiet'
<1> USE DEF SourceInv, SourceTypes, Goto, cacheVars, recoveryVars
<1>1. ASSUME NEW r \in Runs, Publish(r) PROVE Quiet'
  <2>1. UNCHANGED <<mode, repairing, unverified>> /\ handler[r] \in Publishing \cup {"manifest"}
    BY Zenon, <1>1 DEF Publish, publishCacheFile, removeCorrupt, writeFileAtomically, PublishAdmittedSource, Publishing
  <2>2. handler[r] \notin Ended
    BY Zenon, <2>1 DEF Publishing, Ended
  <2>3. \A q \in Runs : q # r => handler'[q] = handler[q]
    BY Zenon, <1>1 DEF Publish, publishCacheFile, removeCorrupt, writeFileAtomically, PublishAdmittedSource
  <2>4. repairing = r => handler'[r] \in Publishing \cup {"manifest", "repaired"}
    BY Zenon, <1>1, <2>1 DEF Publish, publishCacheFile, removeCorrupt, writeFileAtomically, PublishAdmittedSource,
       Publishing
  <2> QED
    BY Zenon, <2>1, <2>2, <2>3, <2>4 DEF Quiet
<1>2. ASSUME NEW r \in Runs, Admit(r) PROVE Quiet'
  <2>1. UNCHANGED <<mode, repairing, unverified>>
    BY Zenon, <1>2 DEF Admit, submitWorkflowRunToStore, submitInlineWorkflowRunToStore, Submit, readBack, UpsertProject,
       UpsertWorkflow, CreateWorkflowRun, InsertStagePlan, CreateWorkflowDependencyPlan, QueueWorkItems,
       RecordCompiledWorkItemMembership, markCompiledStageEmptyStepsCompleted, Record
  <2>2. mode = "normal" \/ handler[r] \in Recording
    BY Zenon, <1>2 DEF Admit, submitWorkflowRunToStore, submitInlineWorkflowRunToStore, Submit, requireNormalAdmission,
       readBack, UpsertProject, UpsertWorkflow, CreateWorkflowRun, InsertStagePlan, CreateWorkflowDependencyPlan,
       QueueWorkItems, RecordCompiledWorkItemMembership, markCompiledStageEmptyStepsCompleted, Record, Recording
  <2>3. handler[r] \in Recording => handler[r] \notin Ended \cup Publishing \cup {"manifest", "repaired"}
    BY Zenon DEF Recording, Ended, Publishing
  <2>4. mode = "normal"
    BY Zenon, <2>2, <2>3 DEF Quiet
  <2> QED
    BY Zenon, <2>1, <2>4 DEF Quiet
<1>3. ASSUME NEW r \in Runs, Fail(r) \/ verifyRepaired(r) PROVE Quiet'
  <2>1. Left(r) \in Ended /\ "failed" \in Ended
    BY Zenon DEF Left, Ended
  <2>2. handler'[r] \in Ended /\ \A q \in Runs : q # r => handler'[q] = handler[q]
    BY Zenon, <1>3, <2>1 DEF Fail, verifyRepaired
  <2>3. handler[r] \notin Ended
    BY Zenon, <1>3 DEF Fail, verifyRepaired, Ended
  <2>4. CASE Fail(r) /\ repairing # r
    <3>1. UNCHANGED <<mode, repairing, unverified>>
      BY Zenon, <2>4 DEF Fail
    <3> QED
      BY Zenon, <2>2, <3>1 DEF Quiet
  <2>5. CASE Fail(r) /\ repairing = r
    <3>1. mode' = "down" /\ repairing' = None /\ mode = "recovery"
      BY Zenon, <2>5 DEF Fail, NoneIsNoContent, Quiet
    <3> QED
      BY Zenon, <2>2, <2>5, <3>1 DEF Quiet
  <2>6. CASE verifyRepaired(r)
    <3>1. mode' = mode /\ repairing' = None
      BY Zenon, <2>6 DEF verifyRepaired
    <3> QED
      BY Zenon, <2>2, <2>3, <3>1 DEF Quiet
  <2> QED
    BY Zenon, <1>3, <2>4, <2>5, <2>6
<1>4. ASSUME NEW r \in Runs, verifyWorkflowRunSource(r) PROVE Quiet'
  <2>1. mode = "recovery" /\ repairing = None
    BY Zenon, <1>4 DEF verifyWorkflowRunSource
  <2>2. \A q \in Runs : handler[q] \in Ended
    BY Zenon, <2>1 DEF Quiet, NoneIsNoContent
  <2>3. \/ mode' \in {"recovery", "down"} /\ repairing' = None /\ UNCHANGED handler
        \/ mode' = mode /\ repairing' = r /\ r \in unverified' /\ handler' = [handler EXCEPT ![r] = "publish"]
    BY Zenon, <1>4, <2>1 DEF verifyWorkflowRunSource
  <2> QED
    BY Zenon, <2>1, <2>2, <2>3 DEF Quiet, Publishing
<1>5. CASE enterRecoveryMode
  <2>1. mode = "down" /\ mode' = "recovery" /\ UNCHANGED <<handler, repairing>> /\ repairing = None
    BY Zenon, <1>5 DEF enterRecoveryMode, Quiet
  <2> QED
    BY Zenon, <2>1 DEF Quiet
<1>6. CASE allowNormalAdmission
  <2>1. mode' = "normal" /\ UNCHANGED <<handler, repairing>> /\ unverified = {}
    BY Zenon, <1>6 DEF allowNormalAdmission
  <2> QED
    BY Zenon, <2>1 DEF Quiet
<1>7. CASE Crash
  <2>1. mode' = "down" /\ repairing' = None
    BY Zenon, <1>7 DEF Crash
  <2>2. \A q \in Runs : handler'[q] \in Ended
    BY Zenon, <1>7 DEF Crash, Left, Ended
  <2> QED
    BY Zenon, <2>1, <2>2 DEF Quiet
<1>8. ASSUME \/ UNCHANGED vars \/ \E r \in Runs : DamageManifest(r)
             \/ \E d \in Dirs, f \in FileSet : Damage(d, f)
      PROVE  Quiet'
  <2>1. UNCHANGED <<mode, repairing, unverified, handler>>
    BY Zenon, <1>8 DEF vars, DamageManifest, Damage, Spoil
  <2> QED
    BY Zenon, <2>1 DEF Quiet
<1> QED
  BY Zenon, <1>1, <1>2, <1>3, <1>4, <1>5, <1>6, <1>7, <1>8 DEF Next, Recover

(* A run that takes no step keeps what is known of it, whatever the other  *)
(* runs do to the files it shares with them.                               *)
LEMMA Bystander ==
    ASSUME NoneIsNoContent, SourceInv, [Next]_vars, NEW r \in Runs,
           handler'[r] = handler[r], next'[r] = next[r], rows'[r] = rows[r]
    PROVE  (PublishesInOrder(r) /\ RecordsPublished(r) /\ RecordsInOrder(r))'
<1>1. PathsForManifest(r)' = PathsForManifest(r) /\ PathsForManifest(r) \in Dirs
  BY Zenon, WhoChangesFiles, PathIsDir DEF PathsForManifest
<1>2. \A f \in FileSet : Held(PathsForManifest(r), f) => Held(PathsForManifest(r), f)'
  BY Zenon, <1>1, HeldStays
<1>3. \A k \in 1 .. 3 : Files[k] \in FileSet
  BY DEF Files, FileSet
<1>4. PublishesInOrder(r)'
  BY Zenon, <1>1, <1>2, <1>3 DEF SourceInv, PublishesInOrder
<1>5. RecordsPublished(r)'
  BY Zenon, <1>1, <1>2, DeclaredStays DEF SourceInv, RecordsPublished, Published
<1> QED
  BY Zenon, <1>4, <1>5 DEF SourceInv, RecordsInOrder

(* What a step of the run itself has to leave.                             *)
StepKeeps(r) ==
    /\ handler' = [handler EXCEPT ![r] = handler'[r]]
    /\ handler'[r] \in Labels
    /\ next' = [next EXCEPT ![r] = next'[r]] /\ next'[r] \in 1 .. 4
    /\ rows' = [rows EXCEPT ![r] = rows'[r]] /\ rows'[r] \subseteq AllRows
    /\ (PublishesInOrder(r) /\ RecordsPublished(r) /\ RecordsInOrder(r))'

(* It is enough to look at the run that takes the step.                    *)
LEMMA StepOfOneRun ==
    ASSUME NoneIsNoContent, SourceInv, [Next]_vars, NEW r \in Runs, StepKeeps(r)
    PROVE  SourceInv'
<1>1. SourceTypes'
  BY Zenon, TypesStay, DeclaredStays DEF SourceInv, SourceTypes, StepKeeps
<1>2. ASSUME NEW q \in Runs PROVE (PublishesInOrder(q) /\ RecordsPublished(q) /\ RecordsInOrder(q))'
  <2>1. CASE q = r
    BY Zenon, <2>1 DEF StepKeeps
  <2>2. CASE q # r
    <3>1. handler'[q] = handler[q] /\ next'[q] = next[q] /\ rows'[q] = rows[q]
      BY Zenon, <2>2 DEF SourceInv, SourceTypes, StepKeeps
    <3> QED
      BY Zenon, <3>1, Bystander
  <2> QED
    BY Zenon, <2>1, <2>2
<1> QED
  BY Zenon, <1>1, <1>2, OnlyDamageStays, QuietStays DEF SourceInv

(* The steps of a publication.                                             *)
LEMMA PublishKeeps ==
    ASSUME NoneIsNoContent, SourceInv, [Next]_vars, NEW r \in Runs, Publish(r)
    PROVE  StepKeeps(r)
<1> DEFINE d == PathsForManifest(r)
<1>1. d' = d /\ d \in Dirs
  BY Zenon, WhoChangesFiles, PathIsDir DEF PathsForManifest
<1>2. \A f \in FileSet : Held(d, f) => Held(d, f)'
  BY Zenon, <1>1, HeldStays
<1>3. \A k \in 1 .. 3 : Files[k] \in FileSet
  BY DEF Files, FileSet
<1>4. /\ handler \in [Runs -> Labels] /\ next \in [Runs -> 1 .. 4] /\ next[r] \in 1 .. 4
      /\ rows \in [Runs -> SUBSET AllRows] /\ rows[r] \subseteq AllRows
  BY Zenon DEF SourceInv, SourceTypes
<1>5. PublishesInOrder(r) /\ RecordsPublished(r) /\ RecordsInOrder(r) /\ OnlyDamageIsBad
  BY Zenon DEF SourceInv
<1>6. /\ rows' = [rows EXCEPT ![r] = rows'[r]] /\ UNCHANGED rows
      /\ handler[r] \in Publishing \cup {"manifest"}
  BY Zenon, <1>4 DEF Publish, publishCacheFile, removeCorrupt, writeFileAtomically, PublishAdmittedSource, storeVars,
     Publishing
<1>7. ASSUME handler'[r] \in Publishing \cup {"manifest", "repaired", "verify"} PROVE RecordsInOrder(r)'
  BY Zenon, <1>7 DEF RecordsInOrder, Publishing
<1>8. ASSUME handler' = [handler EXCEPT ![r] = handler'[r]], handler'[r] \in Publishing \cup {"manifest"},
             next' = [next EXCEPT ![r] = next'[r]], next'[r] \in 1 .. 4, PublishesInOrder(r)'
      PROVE  StepKeeps(r)
  <2>1. handler'[r] \notin Recording /\ handler'[r] \in Labels
    BY Zenon, <1>8 DEF Publishing, Recording, Labels
  <2>2. Published(r) => Published(r)'
    BY Zenon, <1>1, <1>2, DeclaredStays DEF Published
  <2>3. RecordsPublished(r)'
    BY Zenon, <1>5, <1>6, <2>1, <2>2 DEF RecordsPublished
  <2>4. RecordsInOrder(r)' /\ rows'[r] \subseteq AllRows
    BY Zenon, <1>4, <1>6, <1>7, <1>8
  <2> QED
    BY Zenon, <1>6, <1>8, <2>1, <2>3, <2>4 DEF StepKeeps
<1>9. CASE publishCacheFile(r)
  <2>1. UNCHANGED <<cache, damaged, source>> /\ handler[r] = "publish"
    BY Zenon, <1>9 DEF publishCacheFile, cacheVars, storeVars
  <2>2. \A k \in 1 .. 3 : k < next[r] => Held(d, Files[k])
    BY Zenon, <1>5, <2>1 DEF PublishesInOrder, Publishing
  <2>3. CASE next[r] > 3
    <3>1. Goto(r, "manifest") /\ UNCHANGED next
      BY Zenon, <1>9, <2>3 DEF publishCacheFile, Files
    <3>2. \A f \in FileSet : Held(d, f)
      <4>1. \A f \in FileSet : \E k \in 1 .. 3 : f = Files[k]
        BY ONLY DEF Files, FileSet
      <4>2. \A k \in 1 .. 3 : k < next[r]
        BY ONLY <1>4, <2>3
      <4> QED
        BY Zenon, <2>2, <4>1, <4>2
    <3>3. handler'[r] = "manifest" /\ handler' = [handler EXCEPT ![r] = handler'[r]]
      BY Zenon, <1>4, <3>1 DEF Goto
    <3>4. PublishesInOrder(r)'
      BY Zenon, <1>1, <1>2, <3>2, <3>3 DEF PublishesInOrder, Publishing
    <3>5. next' = [next EXCEPT ![r] = next'[r]] /\ next'[r] \in 1 .. 4
      BY Zenon, <1>4, <3>1
    <3> QED
      BY Zenon, <1>8, <2>1, <3>3, <3>4, <3>5
  <2>4. CASE next[r] \in 1 .. 3
    <3>1. PICK f \in FileSet : f = Files[next[r]]
      BY Zenon, <1>3, <2>4
    <3>3. ~(next[r] > Len(Files))
      BY ONLY <2>4 DEF Files
    <3>4. CASE cache[d][f] # "good"
      <4>1. PICK pc \in {"write", "remove"} : Goto(r, pc) /\ UNCHANGED next
        BY Zenon, <1>9, <3>1, <3>3, <3>4 DEF publishCacheFile, VerifyCachedFile
      <4>2. handler'[r] = pc /\ handler' = [handler EXCEPT ![r] = handler'[r]]
        BY Zenon, <1>4, <4>1 DEF Goto
      <4>4. ASSUME NEW k \in 1 .. 3, k < next'[r] PROVE Held(d, Files[k])'
        BY Zenon, <1>2, <1>3, <2>2, <4>1, <4>4
      <4>5. PublishesInOrder(r)'
        BY Zenon, <1>1, <2>4, <4>1, <4>2, <4>4 DEF PublishesInOrder
      <4>6. handler'[r] \in Publishing
        BY Zenon, <4>2 DEF Publishing
      <4>7. next' = [next EXCEPT ![r] = next'[r]] /\ next'[r] \in 1 .. 4
        BY Zenon, <1>4, <4>1
      <4> QED
        BY Zenon, <1>8, <2>1, <4>2, <4>5, <4>6, <4>7
    <3>5. CASE cache[d][f] = "good"
      <4>1. UNCHANGED handler /\ next' = [next EXCEPT ![r] = @ + 1]
        <5>1. cache[d][f] # None
          BY Zenon, <3>5 DEF NoneIsNoContent
        <5> QED
          BY Zenon, <1>9, <3>1, <3>3, <3>5, <5>1 DEF publishCacheFile, VerifyCachedFile
      <4>2. next'[r] = next[r] + 1 /\ next' = [next EXCEPT ![r] = next'[r]]
        BY Zenon, <1>4, <4>1
      <4>3. Held(d, f)'
        BY Zenon, <1>2, <3>5 DEF Held
      <4>4. ASSUME NEW k \in 1 .. 3, k < next'[r] PROVE Held(d, Files[k])'
        <5>1. k = next[r] \/ k < next[r]
          BY ONLY <2>4, <4>2, <4>4
        <5> QED
          BY Zenon, <1>2, <1>3, <2>2, <3>1, <4>3, <5>1
      <4>5. PublishesInOrder(r)'
        BY Zenon, <1>1, <2>1, <4>1, <4>4 DEF PublishesInOrder
      <4>6. next'[r] \in 1 .. 4
        BY ONLY <2>4, <4>2
      <4>7. handler'[r] \in Publishing /\ handler' = [handler EXCEPT ![r] = handler'[r]]
        BY Zenon, <1>4, <2>1, <4>1 DEF Publishing
      <4> QED
        BY Zenon, <1>8, <2>1, <4>2, <4>5, <4>6, <4>7
    <3> QED
      BY Zenon, <3>4, <3>5
  <2> QED
    BY ONLY <1>4, <2>3, <2>4
<1>10. CASE removeCorrupt(r)
  <2>1. Goto(r, "write") /\ handler[r] = "remove" /\ UNCHANGED next
    BY Zenon, <1>10 DEF removeCorrupt
  <2>2. handler'[r] = "write" /\ handler' = [handler EXCEPT ![r] = handler'[r]]
    BY Zenon, <1>4, <2>1 DEF Goto
  <2>3. PublishesInOrder(r)'
    BY Zenon, <1>1, <1>2, <1>3, <1>5, <2>1, <2>2 DEF PublishesInOrder, Publishing
  <2>4. next' = [next EXCEPT ![r] = next'[r]] /\ next'[r] \in 1 .. 4 /\ handler'[r] \in Publishing
    BY Zenon, <1>4, <2>1, <2>2 DEF Publishing
  <2> QED
    BY Zenon, <1>8, <2>1, <2>2, <2>3, <2>4
<1>11. CASE writeFileAtomically(r)
  <2>1. /\ Goto(r, "publish") /\ handler[r] = "write" /\ next' = [next EXCEPT ![r] = @ + 1]
        /\ SetFile(r, Files[next[r]], "good")
    BY Zenon, <1>11 DEF writeFileAtomically
  <2>2. /\ handler'[r] = "publish" /\ handler' = [handler EXCEPT ![r] = handler'[r]]
        /\ next'[r] = next[r] + 1 /\ next' = [next EXCEPT ![r] = next'[r]]
    BY Zenon, <1>4, <2>1 DEF Goto
  <2>3. next[r] \in 1 .. 3 /\ \A k \in 1 .. 3 : k < next[r] => Held(d, Files[k])
    BY Zenon, <1>5, <2>1 DEF PublishesInOrder, Publishing
  <2>4. PICK f \in FileSet : f = Files[next[r]]
    BY Zenon, <1>3, <2>3
  <2>5. Held(d, f)'
    <3>1. cache \in [Dirs -> [FileSet -> {None, "good", "bad"}]]
      BY Zenon DEF SourceInv, SourceTypes
    <3>2. cache' = [cache EXCEPT ![d][f] = "good"]
      BY Zenon, <2>1, <2>4 DEF SetFile
    <3>3. cache'[d][f] = "good"
      BY ONLY Zenon, <1>1, <3>1, <3>2, f \in FileSet
    <3> QED
      BY Zenon, <1>1, <3>3 DEF Held
  <2>6. ASSUME NEW k \in 1 .. 3, k < next'[r] PROVE Held(d, Files[k])'
    <3>1. k = next[r] \/ k < next[r]
      BY ONLY <2>2, <2>3, <2>6
    <3> QED
      BY Zenon, <1>2, <1>3, <2>3, <2>4, <2>5, <3>1
  <2>7. PublishesInOrder(r)'
    BY Zenon, <1>1, <2>2, <2>6 DEF PublishesInOrder
  <2>8. next'[r] \in 1 .. 4
    BY ONLY <2>2, <2>3
  <2>9. handler'[r] \in Publishing
    BY Zenon, <2>2 DEF Publishing
  <2> QED
    BY Zenon, <1>8, <2>1, <2>2, <2>7, <2>8, <2>9
<1>12. CASE PublishAdmittedSource(r)
  <2>1. PICK pc \in {"repaired", "verify"} : Goto(r, pc)
    BY Zenon, <1>12 DEF PublishAdmittedSource
  <2>2. handler[r] = "manifest" /\ manifest' = [manifest EXCEPT ![r] = FileSet] /\ UNCHANGED next
    BY Zenon, <1>12 DEF PublishAdmittedSource, publishManifest, declaredSourceFiles
  <2>3. /\ handler'[r] = pc /\ handler' = [handler EXCEPT ![r] = handler'[r]]
        /\ manifest'[r] = FileSet
    BY Zenon, <1>4, <2>1, <2>2 DEF Goto, SourceInv, SourceTypes
  <2>4. PublishesInOrder(r)'
    BY Zenon, <2>1, <2>3 DEF PublishesInOrder, Publishing
  <2>5. RecordsPublished(r)'
    BY Zenon, <1>1, <1>2, <1>5, <2>2, <2>3 DEF RecordsPublished, Published, Declared, PublishesInOrder
  <2>6. RecordsInOrder(r)' /\ handler'[r] \in Labels
    BY Zenon, <1>7, <2>1, <2>3 DEF Labels, Recording
  <2>7. next' = [next EXCEPT ![r] = next'[r]] /\ next'[r] \in 1 .. 4 /\ rows'[r] \subseteq AllRows
    BY Zenon, <1>4, <1>6, <2>2
  <2> QED
    BY Zenon, <1>6, <2>3, <2>4, <2>5, <2>6, <2>7 DEF StepKeeps
<1> QED
  BY Zenon, <1>9, <1>10, <1>11, <1>12 DEF Publish

(* A step that touches no file and leaves its run outside a publication,   *)
(* or at its start, has only the order of the rows to keep.                *)
LEMMA RowStepKeeps ==
    ASSUME NoneIsNoContent, SourceInv, [Next]_vars, NEW r \in Runs,
           handler' = [handler EXCEPT ![r] = handler'[r]],
           handler'[r] \in (Ended \ {"new"}) \cup Recording \cup {"publish"},
           next' = [next EXCEPT ![r] = next'[r]], next'[r] \in 1 .. 4,
           rows' = [rows EXCEPT ![r] = rows'[r]], rows'[r] \subseteq AllRows,
           handler'[r] = "publish" => next'[r] = 1,
           handler'[r] \in Recording \/ rows'[r] # {} => handler[r] \in Recording \/ rows[r] # {},
           RecordsInOrder(r)'
    PROVE  StepKeeps(r)
<1>1. PathsForManifest(r)' = PathsForManifest(r) /\ PathsForManifest(r) \in Dirs
  BY Zenon, WhoChangesFiles, PathIsDir DEF PathsForManifest
<1>2. \A f \in FileSet : Held(PathsForManifest(r), f) => Held(PathsForManifest(r), f)'
  BY Zenon, <1>1, HeldStays
<1>3. PublishesInOrder(r)'
  BY DEF PublishesInOrder, Publishing, Recording, Ended
<1>4. RecordsPublished(r)'
  BY Zenon, <1>1, <1>2, DeclaredStays DEF SourceInv, RecordsPublished, Published
<1>5. handler'[r] \in Labels
  BY Zenon DEF Publishing, Labels
<1> QED
  BY Zenon, <1>3, <1>4, <1>5 DEF StepKeeps, SourceInv, SourceTypes

(* The steps of a submission before and after its publication.             *)
LEMMA AdmitKeeps ==
    ASSUME NoneIsNoContent, SourceInv, [Next]_vars, NEW r \in Runs, Admit(r)
    PROVE  StepKeeps(r)
<1> USE DEF SourceInv, SourceTypes, Goto, cacheVars, storeVars
<1>1. CASE submitWorkflowRunToStore(r) \/ submitInlineWorkflowRunToStore(r)
  <2>1. handler[r] = "new" /\ handler' = [handler EXCEPT ![r] = "publish"] /\ UNCHANGED <<next, rows>>
    BY Zenon, <1>1 DEF submitWorkflowRunToStore, submitInlineWorkflowRunToStore, Submit
  <2>2. next[r] = 1
    BY Zenon, <2>1 DEF PublishesInOrder
  <2>3. RecordsInOrder(r)'
    BY Zenon, <2>1 DEF RecordsInOrder
  <2> QED
    BY Zenon, <2>1, <2>2, <2>3, RowStepKeeps DEF Recording
<1>2. CASE readBack(r) \/ UpsertProject(r) \/ UpsertWorkflow(r)
  <2>1. /\ handler' = [handler EXCEPT ![r] = handler'[r]] /\ UNCHANGED <<next, rows>>
        /\ handler[r] \in {"verify", "register"} /\ handler'[r] \in {"register", "run"}
    BY Zenon, <1>2 DEF readBack, UpsertProject, UpsertWorkflow
  <2>2. RecordsInOrder(r)'
    BY Zenon, <2>1 DEF RecordsInOrder
  <2> QED
    BY Zenon, <2>1, <2>2, RowStepKeeps DEF Recording
<1>3. ASSUME NEW pc \in Recording, NEW row \in AllRows, NEW then \in Recording \cup {"acknowledged"},
             Record(r, pc, row, then), RecordsInOrder(r)'
      PROVE  StepKeeps(r)
  <2>1. /\ handler[r] \in Recording /\ handler' = [handler EXCEPT ![r] = then]
        /\ rows' = [rows EXCEPT ![r] = @ \cup {row}] /\ UNCHANGED next
    BY Zenon, <1>3 DEF Record
  <2> QED
    BY Zenon, <1>3, <2>1, RowStepKeeps DEF Recording, Ended
<1>4. CASE CreateWorkflowRun(r)
  <2>1. Record(r, "run", "run", "stages")
    BY Zenon, <1>4 DEF CreateWorkflowRun
  <2>2. RecordsInOrder(r)'
    BY Zenon, <2>1 DEF Record, RecordsInOrder
  <2> QED
    BY Zenon, <1>3, <2>1, <2>2 DEF Recording, AllRows
<1>5. CASE InsertStagePlan(r)
  <2>1. Record(r, "stages", "stages", "plan")
    BY Zenon, <1>5 DEF InsertStagePlan
  <2>2. RecordsInOrder(r)'
    BY Zenon, <2>1 DEF Record, RecordsInOrder
  <2> QED
    BY Zenon, <1>3, <2>1, <2>2 DEF Recording, AllRows
<1>6. CASE CreateWorkflowDependencyPlan(r)
  <2>1. Record(r, "plan", "plan", "queue")
    BY Zenon, <1>6 DEF CreateWorkflowDependencyPlan
  <2>2. RecordsInOrder(r)'
    BY Zenon, <2>1 DEF Record, RecordsInOrder
  <2> QED
    BY Zenon, <1>3, <2>1, <2>2 DEF Recording, AllRows
<1>7. CASE QueueWorkItems(r)
  <2>1. Record(r, "queue", "queue", "members")
    BY Zenon, <1>7 DEF QueueWorkItems, afterQueue
  <2>2. RecordsInOrder(r)'
    BY Zenon, <2>1 DEF Record, RecordsInOrder
  <2> QED
    BY Zenon, <1>3, <2>1, <2>2 DEF Recording, AllRows
<1>8. CASE RecordCompiledWorkItemMembership(r)
  <2>1. ASSUME Record(r, "members", "first", "second") PROVE RecordsInOrder(r)'
    BY Zenon, <2>1 DEF Record, RecordsInOrder
  <2>2. ASSUME Record(r, "second", "second", "steps") PROVE RecordsInOrder(r)'
    BY Zenon, <2>2 DEF Record, RecordsInOrder
  <2> QED
    BY Zenon, <1>3, <1>8, <2>1, <2>2 DEF RecordCompiledWorkItemMembership, Recording, AllRows
<1>9. CASE markCompiledStageEmptyStepsCompleted(r)
  <2>1. Record(r, "steps", "steps", "acknowledged")
    BY Zenon, <1>9 DEF markCompiledStageEmptyStepsCompleted
  <2>2. RecordsInOrder(r)'
    BY <2>1 DEF Record, RecordsInOrder, AllRows
  <2> QED
    BY Zenon, <1>3, <2>1, <2>2 DEF Recording, AllRows
<1> QED
  BY Zenon, <1>1, <1>2, <1>4, <1>5, <1>6, <1>7, <1>8, <1>9 DEF Admit

(* A repair starts, ends or fails, or a submission fails.                  *)
LEMMA EndKeeps ==
    ASSUME NoneIsNoContent, SourceInv, [Next]_vars, NEW r \in Runs, ~UNCHANGED <<handler, next>>,
           Fail(r) \/ verifyWorkflowRunSource(r) \/ verifyRepaired(r)
    PROVE  StepKeeps(r)
<1> USE DEF SourceInv, SourceTypes, Goto, cacheVars, storeVars
<1>1. CASE Fail(r) \/ verifyRepaired(r)
  <2>1. /\ handler' = [handler EXCEPT ![r] = handler'[r]] /\ UNCHANGED <<next, rows>>
        /\ handler'[r] \in {"failed", Left(r)}
    BY Zenon, <1>1 DEF Fail, verifyRepaired
  <2>2. handler'[r] \in {"failed", "lost"} \/ (handler'[r] = "acknowledged" /\ rows[r] = AllRows)
    BY Zenon, <2>1 DEF Left
  <2>3. RecordsInOrder(r)'
    BY Zenon, <2>1, <2>2 DEF RecordsInOrder
  <2> QED
    BY Zenon, <2>1, <2>2, <2>3, RowStepKeeps DEF Recording, Ended
<1>2. CASE verifyWorkflowRunSource(r)
  <2>1. /\ handler' = [handler EXCEPT ![r] = "publish"] /\ next' = [next EXCEPT ![r] = 1]
        /\ UNCHANGED rows
    BY Zenon, <1>2 DEF verifyWorkflowRunSource
  <2>2. RecordsInOrder(r)'
    BY Zenon, <2>1 DEF RecordsInOrder
  <2>3. /\ handler' = [handler EXCEPT ![r] = handler'[r]] /\ next' = [next EXCEPT ![r] = next'[r]]
        /\ handler'[r] = "publish" /\ handler'[r] \notin Recording /\ next'[r] = 1
        /\ rows' = [rows EXCEPT ![r] = rows'[r]] /\ rows'[r] = rows[r] /\ rows[r] \subseteq AllRows
    BY Zenon, <2>1 DEF Recording
  <2> HIDE DEF SourceInv, SourceTypes
  <2>4. handler'[r] \in (Ended \ {"new"}) \cup Recording \cup {"publish"} /\ next'[r] \in 1 .. 4
    BY <2>3
  <2> QED
    BY Zenon, <2>2, <2>3, <2>4, RowStepKeeps
<1> QED
  BY Zenon, <1>1, <1>2

(* Every step keeps the invariant.                                         *)
LEMMA NextSource ==
    ASSUME NoneIsNoContent, SourceInv, [Next]_vars
    PROVE  SourceInv'
<1>1. CASE UNCHANGED <<handler, next, rows>>
  <2>1. SourceTypes'
    BY Zenon, <1>1, TypesStay, DeclaredStays DEF SourceInv, SourceTypes
  <2>2. \A r \in Runs : (PublishesInOrder(r) /\ RecordsPublished(r) /\ RecordsInOrder(r))'
    BY Zenon, <1>1, Bystander
  <2> QED
    BY Zenon, <2>1, <2>2, OnlyDamageStays, QuietStays DEF SourceInv
<1>2. ASSUME NEW r \in Runs, Publish(r) \/ Admit(r) PROVE SourceInv'
  BY Zenon, <1>2, PublishKeeps, AdmitKeeps, StepOfOneRun
<1>3. ASSUME NEW r \in Runs, Fail(r) \/ verifyWorkflowRunSource(r) \/ verifyRepaired(r) PROVE SourceInv'
  <2>1. UNCHANGED rows
    BY Zenon, <1>3 DEF Fail, verifyWorkflowRunSource, verifyRepaired, storeVars
  <2> QED
    BY Zenon, <1>1, <1>3, <2>1, EndKeeps, StepOfOneRun
<1>4. CASE Crash
  <2>1. /\ handler' = [r \in Runs |-> IF handler[r] \in Ended THEN handler[r] ELSE Left(r)]
        /\ UNCHANGED <<next, rows, manifest, cache, source>>
    BY Zenon, <1>4 DEF Crash, storeVars, cacheVars
  <2>2. \A r \in Runs : /\ handler'[r] \in Ended /\ (handler'[r] = "new" => handler[r] = "new")
                        /\ handler'[r] = "acknowledged" => handler[r] = "acknowledged" \/ rows[r] = AllRows
    BY Zenon, <2>1 DEF Ended, Left
  <2>3. SourceTypes'
    BY Zenon, <2>1, <2>2 DEF SourceInv, SourceTypes, Labels
  <2>4. ASSUME NEW r \in Runs PROVE (PublishesInOrder(r) /\ RecordsPublished(r) /\ RecordsInOrder(r))'
    <3>1. PathsForManifest(r)' = PathsForManifest(r) /\ PathsForManifest(r) \in Dirs
      BY Zenon, <2>1, PathIsDir DEF PathsForManifest
    <3>2. PublishesInOrder(r)'
      BY Zenon, <2>1, <2>2 DEF SourceInv, PublishesInOrder, Publishing, Ended
    <3>3. RecordsPublished(r)'
      <4>1. handler'[r] \notin Recording
        BY Zenon, <2>2 DEF Recording, Ended
      <4>2. Published(r) => Published(r)'
        BY Zenon, <3>1, HeldStays, DeclaredStays DEF Published
      <4>3. RecordsPublished(r) /\ rows'[r] = rows[r]
        BY Zenon, <2>1 DEF SourceInv
      <4> QED
        BY Zenon, <4>1, <4>2, <4>3 DEF RecordsPublished
    <3>4. RecordsInOrder(r)'
      BY Zenon, <2>1, <2>2 DEF SourceInv, RecordsInOrder, Ended
    <3> QED
      BY Zenon, <3>2, <3>3, <3>4
  <2> QED
    BY Zenon, <2>3, <2>4, OnlyDamageStays, QuietStays DEF SourceInv
<1>5. ASSUME \/ UNCHANGED vars \/ enterRecoveryMode \/ allowNormalAdmission
             \/ \E r \in Runs : DamageManifest(r)
             \/ \E d \in Dirs, f \in FileSet : Damage(d, f)
      PROVE  SourceInv'
  BY Zenon, <1>1, <1>5 DEF vars, enterRecoveryMode, allowNormalAdmission, DamageManifest, Damage, Spoil, storeVars
<1> QED
  BY Zenon, <1>2, <1>3, <1>4, <1>5 DEF Next, Recover

(* The invariant holds throughout.                                         *)
LEMMA SourceInvariant == ASSUME NoneIsNoContent PROVE Spec => []SourceInv
<1>1. Init => SourceInv
  BY Zenon, InitSource
<1>2. SourceInv /\ [Next]_vars => SourceInv'
  BY Zenon, NextSource
<1> QED
  BY <1>1, <1>2, PTL DEF Spec

(* The source of a recorded run can be read unless something else spoiled  *)
(* it or a publication has removed a file and not written it yet: no other *)
(* step of a submission, repair, failure or crash takes it away.           *)
THEOREM SourcesStayReadable == ASSUME NoneIsNoContent PROVE Spec => []SourceStaysReadable
<1>1. SourceInv => SourceStaysReadable
  BY Zenon, SourceReadable
<1> QED
  BY <1>1, SourceInvariant, PTL

(* A submission that was acknowledged has all its rows, before and after   *)
(* every crash and repair.                                                 *)
THEOREM SourceAcknowledgedWhole == ASSUME NoneIsNoContent PROVE Spec => []AcknowledgedWhole
<1>1. SourceInv => AcknowledgedWhole
  BY Zenon DEF SourceInv, RecordsInOrder, AcknowledgedWhole
<1> QED
  BY <1>1, SourceInvariant, PTL
-----------------------------------------------------------------------------
(* What recovery has verified, as each part of it is found later.          *)
Good(r, f) == cache[PathsForManifest(r)][f] = "good" \/ <<PathsForManifest(r), f>> \in fresh
Kept(r) ==
    /\ manifest[r] = FileSet \/ <<r, "manifest">> \in fresh
    /\ \A f \in {"project", "workflow"} : Good(r, f)

Verified == {r \in Runs : "run" \in rows[r]} \ (unverified \cup {repairing})

RecoveryInv ==
    mode = "recovery" =>
        /\ \A r \in Verified : Kept(r)
        /\ \A q \in Runs : handler[q] = "remove" => cache[PathsForManifest(q)][Files[next[q]]] # "good"

(* A run that was verified stays so: the repair of another writes a file   *)
(* it shares, but removes none that is good.                               *)
LEMMA KeptStays ==
    ASSUME NoneIsNoContent, SourceInv, RecoveryInv, [Next]_vars, mode = "recovery", mode' = "recovery",
           NEW r \in Runs, Kept(r)
    PROVE  Kept(r)'
<1> USE PathIsDir DEF SourceInv, SourceTypes
<1>1. PathsForManifest(r)' = PathsForManifest(r) /\ {"project", "workflow"} \subseteq FileSet
  BY Zenon, WhoChangesFiles DEF PathsForManifest, FileSet
<1>2. ASSUME UNCHANGED <<cache, manifest>>, fresh \subseteq fresh' PROVE Kept(r)'
  BY Zenon, <1>1, <1>2 DEF Kept, Good
<1>3. ASSUME NEW q \in Runs, removeCorrupt(q) PROVE Kept(r)'
  <2>1. /\ cache' = [cache EXCEPT ![PathsForManifest(q)][Files[next[q]]] = None]
        /\ UNCHANGED <<manifest, fresh>> /\ cache[PathsForManifest(q)][Files[next[q]]] # "good"
    BY Zenon, <1>3 DEF removeCorrupt, SetFile, RecoveryInv
  <2>2. ASSUME NEW f \in FileSet, Good(r, f) PROVE Good(r, f)'
    BY Zenon, <1>1, <2>1, <2>2 DEF Good
  <2> QED
    BY Zenon, <1>1, <2>1, <2>2 DEF Kept
<1>4. ASSUME NEW q \in Runs, writeFileAtomically(q) PROVE Kept(r)'
  <2>1. /\ cache' = [cache EXCEPT ![PathsForManifest(q)][Files[next[q]]] = "good"] /\ UNCHANGED manifest
        /\ fresh' = fresh \ {<<PathsForManifest(q), Files[next[q]]>>} /\ handler[q] = "write"
    BY Zenon, <1>4 DEF writeFileAtomically, SetFile, Written
  <2>2. Files[next[q]] # "manifest"
    <3>1. next[q] \in 1 .. 3
      BY Zenon, <2>1 DEF PublishesInOrder
    <3> QED
      BY ONLY <3>1 DEF Files
  <2>3. ASSUME NEW f \in FileSet, Good(r, f) PROVE Good(r, f)'
    BY Zenon, <1>1, <2>1, <2>3 DEF Good
  <2> QED
    BY Zenon, <1>1, <2>1, <2>2, <2>3 DEF Kept
<1>5. ASSUME NEW q \in Runs, PublishAdmittedSource(q) PROVE Kept(r)'
  <2>1. /\ manifest' = [manifest EXCEPT ![q] = FileSet] /\ UNCHANGED cache
        /\ fresh' = fresh \ {<<q, "manifest">>} /\ "manifest" \notin FileSet
    BY Zenon, <1>5 DEF PublishAdmittedSource, publishManifest, declaredSourceFiles, Written, FileSet
  <2> QED
    BY Zenon, <1>1, <2>1 DEF Kept, Good
<1>6. ASSUME NEW q \in Runs, DamageManifest(q) PROVE Kept(r)'
  <2>1. manifest' = [manifest EXCEPT ![q] = None] /\ UNCHANGED cache /\ fresh' = fresh \cup {<<q, "manifest">>}
    BY Zenon, <1>6 DEF DamageManifest, Spoil
  <2> QED
    BY Zenon, <1>1, <2>1 DEF Kept, Good
<1>7. ASSUME NEW e \in Dirs, NEW g \in FileSet, Damage(e, g) PROVE Kept(r)'
  <2>1. PICK value : /\ cache' = [cache EXCEPT ![e][g] = value]
                     /\ fresh' = fresh \cup {<<e, g>>} /\ UNCHANGED manifest
    BY Zenon, <1>7 DEF Damage, Spoil
  <2>2. ASSUME NEW f \in FileSet, Good(r, f) PROVE Good(r, f)'
    BY Zenon, <1>1, <2>1, <2>2 DEF Good
  <2> QED
    BY Zenon, <1>1, <2>1, <2>2 DEF Kept
<1>8. ~Crash /\ ~enterRecoveryMode
  BY Zenon DEF Crash, enterRecoveryMode
<1>9. ASSUME NEW q \in Runs, Fail(q) PROVE Kept(r)'
  BY Zenon, <1>2, <1>9 DEF Fail
<1> QED
  BY Zenon, <1>2, <1>3, <1>4, <1>5, <1>6, <1>7, <1>8, <1>9, WhoChangesFiles

(* A file is removed by who has just found that it is bad.                 *)
LEMMA WhoRemoves ==
    ASSUME SourceInv, [Next]_vars, NEW q \in Runs, handler'[q] = "remove"
    PROVE  publishCacheFile(q) \/ (handler[q] = "remove" /\ next'[q] = next[q])
<1> USE DEF SourceInv, SourceTypes, Goto
<1>1. ASSUME NEW r \in Runs, Publish(r), ~publishCacheFile(q) PROVE handler[q] = "remove" /\ next'[q] = next[q]
  <2>1. r # q
    BY Zenon, <1>1 DEF Publish, removeCorrupt, writeFileAtomically, PublishAdmittedSource
  <2>2. publishCacheFile(r) => handler'[q] = handler[q] /\ next'[q] = next[q]
    <3> SUFFICES ASSUME publishCacheFile(r) PROVE handler'[q] = handler[q] /\ next'[q] = next[q]
      OBVIOUS
    <3>1. UNCHANGED handler \/ \E pc : handler' = [handler EXCEPT ![r] = pc]
      BY Zenon DEF publishCacheFile
    <3>2. UNCHANGED next \/ next' = [next EXCEPT ![r] = @ + 1]
      BY Zenon DEF publishCacheFile
    <3> QED
      BY Zenon, <2>1, <3>1, <3>2
  <2> QED
    BY Zenon, <1>1, <2>1, <2>2 DEF Publish, removeCorrupt, writeFileAtomically, PublishAdmittedSource
<1>2. ASSUME NEW r \in Runs, Admit(r) PROVE handler[q] = "remove" /\ next'[q] = next[q]
  <2>1. ASSUME NEW pc, NEW row, NEW then, then # "remove", Record(r, pc, row, then)
        PROVE  UNCHANGED next /\ handler[q] = "remove"
    BY Zenon, <2>1 DEF Record
  <2>2. CASE \/ submitWorkflowRunToStore(r) \/ submitInlineWorkflowRunToStore(r) \/ readBack(r)
             \/ UpsertProject(r) \/ UpsertWorkflow(r)
    BY Zenon, <2>2 DEF submitWorkflowRunToStore, submitInlineWorkflowRunToStore, Submit, readBack, UpsertProject,
       UpsertWorkflow
  <2> QED
    BY Zenon, <1>2, <2>1, <2>2 DEF Admit, CreateWorkflowRun, InsertStagePlan, CreateWorkflowDependencyPlan,
       QueueWorkItems, afterQueue, RecordCompiledWorkItemMembership, markCompiledStageEmptyStepsCompleted
<1>3. ASSUME NEW r \in Runs, Fail(r) \/ verifyRepaired(r) \/ verifyWorkflowRunSource(r)
      PROVE  handler[q] = "remove" /\ next'[q] = next[q]
  <2>1. Left(r) # "remove"
    BY Zenon DEF Left
  <2>2. UNCHANGED <<handler, next>> \/ (handler'[r] # "remove" /\ \A p \in Runs : p # r => handler'[p] = handler[p]
                                                                 /\ next'[p] = next[p])
    BY Zenon, <1>3, <2>1 DEF Fail, verifyRepaired, verifyWorkflowRunSource
  <2> QED
    BY Zenon, <2>2
<1>4. ~Crash
  <2> SUFFICES ASSUME Crash PROVE FALSE
    OBVIOUS
  <2>1. handler'[q] = IF handler[q] \in Ended THEN handler[q] ELSE Left(q)
    BY Zenon DEF Crash
  <2> QED
    BY Zenon, <2>1 DEF Ended, Left
<1>5. ASSUME \/ UNCHANGED vars \/ enterRecoveryMode \/ allowNormalAdmission
             \/ \E r \in Runs : DamageManifest(r)
             \/ \E d \in Dirs, f \in FileSet : Damage(d, f)
      PROVE  handler[q] = "remove" /\ next'[q] = next[q]
  BY Zenon, <1>5 DEF vars, enterRecoveryMode, allowNormalAdmission, DamageManifest, Damage, Spoil
<1> QED
  BY Zenon, <1>1, <1>2, <1>3, <1>4, <1>5 DEF Next, Recover

(* During recovery nothing writes between the two.                         *)
LEMMA RemovesBad ==
    ASSUME NoneIsNoContent, SourceInv, RecoveryInv, [Next]_vars, mode = "recovery", mode' = "recovery",
           NEW q \in Runs, handler'[q] = "remove"
    PROVE  (cache[PathsForManifest(q)][Files[next[q]]] # "good")'
<1> USE PathIsDir DEF SourceInv, SourceTypes, Goto
<1>1. PathsForManifest(q)' = PathsForManifest(q)
  BY Zenon, WhoChangesFiles DEF PathsForManifest
<1>2. CASE publishCacheFile(q)
  <2>1. handler' = [handler EXCEPT ![q] = "remove"]
    BY Zenon, <1>2 DEF publishCacheFile
  <2>2. ~VerifyCachedFile(q, Files[next[q]]) /\ UNCHANGED <<cache, next>>
    BY Zenon, <1>2 DEF publishCacheFile, cacheVars
  <2> QED
    BY Zenon, <1>1, <2>2 DEF VerifyCachedFile
<1>3. CASE handler[q] = "remove" /\ next'[q] = next[q]
  <2> DEFINE d == PathsForManifest(q)
             f == Files[next[q]]
  <2>1. cache[d][f] # "good" /\ q = repairing
    BY Zenon, <1>3 DEF RecoveryInv, Quiet, Ended
  <2>2. ASSUME NEW r \in Runs, removeCorrupt(r) \/ writeFileAtomically(r) PROVE FALSE
    <3>1. handler[r] \notin Ended /\ handler'[r] # "remove"
      BY Zenon, <2>2 DEF removeCorrupt, writeFileAtomically, Ended
    <3> QED
      BY Zenon, <2>1, <3>1 DEF Quiet
  <2>3. ASSUME NEW e \in Dirs, NEW g \in FileSet, Damage(e, g) PROVE cache'[d][f] # "good"
    <3>1. PICK value \in {None, "bad"} : cache' = [cache EXCEPT ![e][g] = value]
      BY Zenon, <2>3 DEF Damage
    <3>2. f \in FileSet
      <4>1. next[q] \in 1 .. 3
        BY Zenon, <1>3 DEF PublishesInOrder
      <4> QED
        BY ONLY <4>1 DEF Files, FileSet
    <3> HIDE DEF f, d
    <3>3. d \in Dirs
      BY Zenon DEF d
    <3> QED
      BY Zenon, <2>1, <3>1, <3>2, <3>3 DEF NoneIsNoContent
  <2>4. ASSUME \/ UNCHANGED <<cache, manifest, damaged, fresh>> \/ Crash \/ enterRecoveryMode
               \/ \E r \in Runs : PublishAdmittedSource(r) \/ Fail(r) \/ DamageManifest(r)
        PROVE  UNCHANGED cache
    BY Zenon, <2>4 DEF Crash, enterRecoveryMode, PublishAdmittedSource, Fail, DamageManifest
  <2>5. cache'[d][f] # "good"
    BY Zenon, <2>1, <2>2, <2>3, <2>4, WhoChangesFiles
  <2> QED
    BY Zenon, <1>1, <1>3, <2>5
<1> QED
  BY Zenon, <1>2, <1>3, WhoRemoves

(* A run that was verified before still is, or is verified by this step.   *)
LEMMA WhoVerifies ==
    ASSUME NoneIsNoContent, SourceInv, [Next]_vars, mode' = "recovery", NEW r \in Verified'
    PROVE  mode = "recovery" /\ (r \in Verified \/ (Kept(r) /\ UNCHANGED <<cache, manifest, fresh>>))
<1> USE DEF SourceInv, SourceTypes, recoveryVars, storeVars, cacheVars, Verified
<1>1. r \in Runs /\ {"project", "workflow"} \subseteq FileSet
  BY Zenon DEF FileSet
<1>2. verifyCachedRunSource(r) => Kept(r)
  BY Zenon, <1>1 DEF verifyCachedRunSource, ReadFile, VerifyCachedFile, Kept, Good
<1>3. ASSUME NEW q \in Runs, Admit(q) PROVE mode = "normal"
  <2>1. mode = "normal" \/ handler[q] \in Recording
    BY Zenon, <1>3 DEF Admit, submitWorkflowRunToStore, submitInlineWorkflowRunToStore, Submit, requireNormalAdmission,
       readBack, UpsertProject, UpsertWorkflow, CreateWorkflowRun, InsertStagePlan, CreateWorkflowDependencyPlan,
       QueueWorkItems, RecordCompiledWorkItemMembership, markCompiledStageEmptyStepsCompleted, Record, Recording
  <2>2. handler[q] \in Recording => handler[q] \notin Ended \cup Publishing \cup {"manifest", "repaired"}
    BY Zenon DEF Recording, Ended, Publishing
  <2> QED
    BY Zenon, <2>1, <2>2 DEF Quiet
<1>4. ASSUME NEW q \in Runs, Admit(q) PROVE UNCHANGED mode
  BY Zenon, <1>4 DEF Admit, submitWorkflowRunToStore, submitInlineWorkflowRunToStore, Submit, readBack, UpsertProject,
     UpsertWorkflow, CreateWorkflowRun, InsertStagePlan, CreateWorkflowDependencyPlan, QueueWorkItems,
     RecordCompiledWorkItemMembership, markCompiledStageEmptyStepsCompleted, Record
<1>5. ASSUME NEW q \in Runs, Publish(q) \/ DamageManifest(q) PROVE UNCHANGED <<rows, mode, unverified, repairing>>
  BY Zenon, <1>5 DEF Publish, publishCacheFile, removeCorrupt, writeFileAtomically, PublishAdmittedSource,
     DamageManifest, Spoil
<1>6. ASSUME NEW q \in Runs, Fail(q) PROVE UNCHANGED <<rows, mode, unverified, repairing>>
  BY Zenon, <1>6 DEF Fail
<1>7. ASSUME NEW q \in Runs, verifyWorkflowRunSource(q) \/ verifyRepaired(q)
      PROVE  mode = "recovery" /\ (r \in Verified \/ (Kept(r) /\ UNCHANGED <<cache, manifest, fresh>>))
  <2>1. UNCHANGED <<rows, cache, manifest, fresh>>
    BY Zenon, <1>7 DEF verifyWorkflowRunSource, verifyRepaired
  <2>2. mode = "recovery"
    BY Zenon, <1>7 DEF verifyWorkflowRunSource, verifyRepaired
  <2>3. CASE verifyCachedRunSource(q) /\ unverified' = unverified \ {q} /\ repairing \in {None, q}
    <3>1. r = q \/ r \in Verified
      BY Zenon, <1>1, <2>1, <2>3 DEF NoneIsNoContent
    <3> QED
      BY Zenon, <1>2, <2>1, <2>2, <2>3, <3>1
  <2>4. CASE verifyWorkflowRunSource(q) /\ ~verifyCachedRunSource(q)
    <3>1. UNCHANGED unverified /\ repairing = None
      BY Zenon, <2>4 DEF verifyWorkflowRunSource
    <3> QED
      BY Zenon, <1>1, <2>1, <2>2, <3>1 DEF NoneIsNoContent
  <2>5. verifyRepaired(q) => q = repairing
    BY Zenon, <2>2 DEF verifyRepaired, Quiet, Ended
  <2> QED
    BY Zenon, <1>7, <2>3, <2>4, <2>5 DEF verifyWorkflowRunSource, verifyRepaired
<1>8. ASSUME NEW d \in Dirs, NEW f \in FileSet, Damage(d, f) PROVE UNCHANGED <<rows, mode, unverified, repairing>>
  BY Zenon, <1>8 DEF Damage, Spoil
<1>9. ~enterRecoveryMode
  BY Zenon DEF enterRecoveryMode, ListActiveWorkflowRuns
<1>10. ~allowNormalAdmission /\ ~Crash
  BY Zenon DEF allowNormalAdmission, Crash
<1>11. UNCHANGED vars => UNCHANGED <<rows, mode, unverified, repairing>>
  BY Zenon DEF vars
<1>12. UNCHANGED <<rows, mode, unverified, repairing>> => mode = "recovery" /\ r \in Verified
  BY Zenon
<1> QED
  BY Zenon, <1>3, <1>4, <1>5, <1>6, <1>7, <1>8, <1>9, <1>10, <1>11, <1>12 DEF Next, Recover

(* What recovery has verified stays readable until requests are admitted,  *)
(* although the repair of a run rewrites files it shares with others, and  *)
(* only what something else spoils meanwhile does not.                     *)
THEOREM SourceRecoveredReadable == ASSUME NoneIsNoContent PROVE Spec => []RecoveredReadable
<1>1. Init => RecoveryInv
  BY Zenon DEF Init, RecoveryInv
<1>2. SourceInv /\ RecoveryInv /\ [Next]_vars => RecoveryInv'
  <2> SUFFICES ASSUME SourceInv, RecoveryInv, [Next]_vars, mode' = "recovery" PROVE RecoveryInv'
    BY Zenon DEF RecoveryInv
  <2>1. ASSUME NEW r \in Verified' PROVE Kept(r)'
    <3>1. PathsForManifest(r)' = PathsForManifest(r) /\ r \in Runs
      BY Zenon, WhoChangesFiles DEF PathsForManifest, Verified
    <3>2. CASE r \in Verified
      BY Zenon, <3>1, <3>2, WhoVerifies, KeptStays DEF RecoveryInv
    <3>3. CASE Kept(r) /\ UNCHANGED <<cache, manifest, fresh>>
      BY Zenon, <3>1, <3>3 DEF Kept, Good
    <3> QED
      BY Zenon, <3>2, <3>3, WhoVerifies
  <2>2. ASSUME NEW q \in Runs, handler'[q] = "remove" PROVE (cache[PathsForManifest(q)][Files[next[q]]] # "good")'
    <3>1. CASE mode = "recovery"
      BY Zenon, <2>2, <3>1, RemovesBad
    <3>2. CASE mode # "recovery"
      <4>1. enterRecoveryMode
        <5>1. ASSUME NEW r \in Runs, Publish(r) \/ Admit(r) PROVE UNCHANGED mode
          BY Zenon, <5>1 DEF Publish, publishCacheFile, removeCorrupt, writeFileAtomically, PublishAdmittedSource, Admit,
             submitWorkflowRunToStore, submitInlineWorkflowRunToStore, Submit, readBack, UpsertProject, UpsertWorkflow,
             CreateWorkflowRun, InsertStagePlan, CreateWorkflowDependencyPlan, QueueWorkItems,
             RecordCompiledWorkItemMembership, markCompiledStageEmptyStepsCompleted, Record, recoveryVars
        <5> QED
          BY Zenon, <3>2, <5>1 DEF Next, vars, Recover, Fail, verifyWorkflowRunSource, verifyRepaired, DamageManifest,
             Damage, Spoil, allowNormalAdmission, Crash, recoveryVars
      <4>2. mode = "down" /\ UNCHANGED handler
        BY Zenon, <4>1 DEF enterRecoveryMode
      <4> QED
        BY Zenon, <2>2, <3>2, <4>2 DEF SourceInv, Quiet, NoneIsNoContent, Ended
    <3> QED
      BY Zenon, <3>1, <3>2
  <2> QED
    BY Zenon, <2>1, <2>2 DEF RecoveryInv
<1>3. SourceInv /\ RecoveryInv => RecoveredReadable
  <2> SUFFICES ASSUME SourceInv, RecoveryInv, mode = "recovery", NEW r \in Verified, NEW f \in {"project", "workflow"}
               PROVE  ReadFile(r, f) \/ {<<r, "manifest">>, <<PathsForManifest(r), f>>} \cap fresh # {}
    BY Zenon DEF RecoveredReadable, Verified, ListActiveWorkflowRuns
  <2>1. Kept(r) /\ f \in FileSet
    BY Zenon DEF RecoveryInv, FileSet
  <2>2. <<r, "manifest">> \in fresh \/ <<PathsForManifest(r), f>> \in fresh =>
            {<<r, "manifest">>, <<PathsForManifest(r), f>>} \cap fresh # {}
    BY Zenon
  <2>3. manifest[r] = FileSet /\ cache[PathsForManifest(r)][f] = "good" => ReadFile(r, f)
    BY Zenon, <2>1 DEF NoneIsNoContent, ReadFile, VerifyCachedFile
  <2> QED
    BY Zenon, <2>1, <2>2, <2>3 DEF Kept, Good
<1> QED
  BY <1>1, <1>2, <1>3, SourceInvariant, PTL DEF Spec
============================================================================
