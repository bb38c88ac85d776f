# A TLA+ model of GOET

GOET runs workflows: a client submits a workflow to the *controller*, which
compiles one stage at a time into work items, keeps all state in SQLite, and
hands items to *workers* that poll it over HTTP. This directory models the
parts of controller, workers and client that must stay correct when processes
vanish, reports arrive late or twice, files are shared and requests overlap,
and the algorithms that turn a document into work.

## The system

| Part | State | Operations | Interacts with |
|---|---|---|---|
| Work store (`internal/persistence/store.go`) | worker_sessions, work_items, queued_work, running_work, attempts, completed/failed/abandoned_work, resource constraints | register, heartbeat, stop, end and expire sessions; store, enqueue and claim work; complete and fail attempts | everything in the controller |
| Resource admission (`internal/model/resource_constraint.go`) | none | the admission test | the claim of the work store |
| Dependency plan (`cmd/controller/workflow_dependency_store.go`) | membership rows, step output facts, failed plan of a run | create, derive, record memberships, outputs and failures | store, stage activation |
| Stage activation and completion (`main.go`, `workflow_stage_activation.go`, `workflow_stage_queue.go`, `asset_materialize_dependencies.go`) | none of its own | submit, complete, fail, release dependents, activate the next stage | plan, store |
| Documents and compilation (`internal/document`, `internal/workflow`) | none | accept a document, form stages, fan out, plan collections | activation |
| Variable resolver (`internal/variable`) | none | resolve | compilation, configuration |
| Step outputs and hydration (`workflow_outputs.go`, `asset_materialize_hydration.go`) | none | aggregate outputs; give dependents their assets | activation, claim |
| Caretaker (`caretaker.go`) | signal slot, timer, retry delay | reconcile: expire sessions, then ask for capacity | store, capacity manager |
| Worker capacity manager (`worker_execution.go`) | reservations of worker starts | plan, reserve, confirm, prune | caretaker, registration |
| Worker launch (`execution_environment.go`, transports, tunnel, schedulers) | connections, listener, relay, remote files | prepare, copy, submit, close | capacity manager |
| Worker process (`cmd/worker`) | current item, last accepted heartbeat | heartbeat goroutine; poll, run, report | HTTP endpoints |
| Item attempts, publication, asset materialization (`cmd/worker`) | shared files | run a script, promote, publish, materialize | other attempts |
| Database ownership (`main.go`, `database_lock_unix.go`) | lock file | create, test for staleness, remove | controller start |
| Source admission, recovery (`main.go`, `source_reload.go`, `internal/reposource`) | cache directory, mode | publish, verify, repair, bundle | submission, workers |
| Clients (`internal/client`) | none | submit, wait, shut down when idle | status endpoints |

What makes it hard:

- A worker is known only by its heartbeats. Expiry, a late heartbeat, a stop
  and a report race for one running attempt.
- Times are stored as text and compared as text. RFC3339Nano drops trailing
  zeros, so a whole second sorts after every fraction of itself.
- Request handlers consist of several transactions, and no lock is held
  around them; only claims are serialised (`claimMu`). The controller can be
  killed between any two.
- The dependency plan is derived again on every read, from rows that other
  handlers are writing.
- Work can be claimed before the row that makes it count for its step exists.
- Files are named after items, keys and revisions, not after attempts, so an
  attempt that was given up for lost and its successor write the same paths.
- Checks of files (does it exist, is its owner alive) and the operations that
  rely on them are separate system calls.

`PROJECT.json` lists each of these at the line where it bites, under "hazards".

## Modules

| Module | Models |
|---|---|
| `Timestamps` | RFC3339 and RFC3339Nano texts and their order |
| `ResourceAdmission` | the admission test, with its int64 overflow error |
| `WorkStore` | the work store; one action per transaction |
| `WorkLeases` | abstract: what the store promises about who works on what |
| `WorkerFleet` | worker processes, lifecycle endpoints, caretaker and capacity manager together |
| `WorkerHeartbeat` | the two clocks of one worker session, request by request |
| `DependencyPlan` | derivation of the plan from its evidence |
| `WorkflowRun` | one run: submission, workers, completion handlers, activation, crashes |
| `SubmissionWatch` | a client beside `WorkflowRun` and what it is told |
| `ControllerOwnership` | controllers starting on, serving from and leaving one database |
| `SourceAdmission` | submissions and the source cache, bundles, damage, recovery |
| `WorkerLaunch` | connection, tunnel, file copies and job submission on another host |
| `ItemAttempt` | attempts of an item that promote and publish files |
| `AssetMaterialization` | attempts that materialize an asset in shared directories |
| `WorkflowDocument`, `DataAssets`, `StageCompilation` | accepted documents, assets and collections, stages and items |
| `VariableResolver` | resolution of variables, with a reference definition |
| `StepOutputs` | logical outputs of steps, hydration of dependents |
| `RasterPairCounts` | the pair-count operation of the geospatial plugin |
| `ResolverInputs`, `DocumentInputs`, `OutputInputs`, `RasterInputs` | bounded inputs of the pure algorithms |
| `MCWorkStore`, `MCWorkflowRun`, `MCWorkerFleet`, `MCParts` | instances for TLC |
| `WorkStoreProofs` | safety of `WorkStore`, and that it implements `WorkLeases` |
| `WorkerFleetProofs`, `WorkflowRunProofs`, `OwnershipProofs`, `SourceProofs`, `LaunchProofs`, `ItemProofs`, `AssetProofs` | safety of `WorkerFleet` and of `WorkerHeartbeat`, of `WorkflowRun` with `SubmissionWatch`, of `ControllerOwnership`, `SourceAdmission`, `WorkerLaunch`, `ItemAttempt` and `AssetMaterialization` |

**WorkStore.** Each variable is a table or column: `status` and `heartbeat`
are worker_sessions; `createdAt` is work_items; `queuedAt` is queued_work
(`NoRow` when absent); `itemOf` and `sessionOf` are the attempts; `running`,
`completed`, `failed` and `abandoned` are the tables of those names. Actions
carry the Go methods' names. The units in use of a resource, which the code
sums, are counted as a set with one element per unit. A transaction that returns an error or finds
nothing to do commits nothing and is therefore a stuttering step. `at` is the
clock reading a handler brings along, up to `MaxLag` old at commit. The tables
are durable, so a crash between transactions adds no behaviour here.

**WorkerFleet.** A slot is one worker process with its session. Time is kept
as ages in heartbeat intervals, capped, so that states are finite and
behaviours are not; a slot is used again once its process has exited and its
session ended. The caretaker's pass takes one step per read of the store
(expiry, queued, running, live sessions), so its demand is made of reads of
different moments. `inflight` holds the ages of reserved starts. A worker's
`worker` and `beat` are where its main loop and its heartbeat goroutine are.
`MaxFaults` bounds crashes, lost messages, suspensions and errors together.

**WorkerHeartbeat.** `age` is the time since the controller took
last_heartbeat_at, `since` the time since the goroutine took lastAccepted, and
`loop` is where the goroutine is between a tick, the request of a beat, the
handling of it and the answer. Time passes between any two of these, in units
of its own; a request is given up after `Timeout`, and one that was given up
may still be handled (`stray`).

**WorkflowRun.** `handler[h].pc` is the next transaction of request handler
`h`; a completion goes through capture, fact, save, dependents, enqueue,
members, activate, empty and queue as the code does. `saved` is the failed plan
kept in the run's submission context; other plans are not stored. `unsaved` is
a failed plan a handler has read, before it writes the fact, and will save as
it was read. `reported` are the attempts workers have reported, with their
outcome and second: a repeated report is of one of these, completed or failed,
and runs the rest of its handler again. `Crash` ends all handlers where they
are; the tables stay. Simplifications:

- the several reads that make up one plan are one step;
- the claim takes any queued item, as its order is `WorkStore`'s subject;
- `terminal` keeps the latest outcome of an item;
- skipped work is not told apart from completed work;
- work item outputs are not data (`StepOutputs` has those); capturing one
  succeeds or fails;
- an activation is stamped with the second in which its report was handled.

**SubmissionWatch** adds `client`, which reads the four counts of a run, or
the two of the controller, one query at a time, while `WorkflowRun` goes on.

**ControllerOwnership.** `pc` follows a controller from start to exit, with a
step per file operation on the lock; `lock` says who made the file and whether
the pid is written yet. A process is its pid and runs once.

**SourceAdmission.** A cached file is missing, as admitted, or something else.
`handler` is the step of a run's submission: publish each file, publish the
manifest, read back, then one transaction per table. `Damage` and
`DamageManifest` stand for files lost or overwritten by others; `damaged`
remembers which, and `fresh` which since recovery began. Recovery verifies and
repairs run by run.

**WorkerLaunch.** `pc` is the step of a launch and what it is about; `client`
and `hop` are the SSH connections, `listener`, `relayPID` and `relays` the
callback tunnel, `file`, `mode` and `temp` what is on the target. `orphans` are
the relays of which a command has failed, and `by` is the launch that submitted
a job, which starts at any later moment and finds what is there then. A
configuration has what a launch depends on; settings that make every launch
fail in the same way are left out.

**ItemAttempt, AssetMaterialization.** Contents of files are who produced
them, or which version of the source they hold; a hash is the content it was
taken of. Every file operation is a step, and an attempt may be killed at each.

**The pure algorithms** are operators. Their modules are instantiated with the
input, and each input is an initial state together with what the algorithm
makes of it. Texts whose characters matter (identifiers that are joined,
destinations that are searched) are sequences of characters or words, and
others are single values.

Operators whose comment begins with "Faulty:" are deliberate defects. They
are used by no specification; each shows that some property notices it.

## Runs

| Run | Result | What it asks |
|---|---|---|
| `store_sessions` | passes | Two sessions, one item, three attempts, half-second clock: fencing of late reports, whole and bounded recovery, expiry only of silent sessions, implementation of `WorkLeases`. |
| `store_claims` | passes | Two sessions, three items of which two share a resource and one is held back: assignments, outcomes, resource limit. |
| `store_deadline` | violated | Is a session with a recent enough heartbeat always live? |
| `fleet` | passes | Two workers, one item, one fault: is no signal lost, does only the holder decide an item, and is all work settled in the end? |
| `workflow_serial` | passes | Six small workflows, requests one after the other: stage order, single queueing, completion, failure, termination. |
| `workflow_racing` | passes | Two handlers overlap, with a repeated report and a crash: dependents wait for everything they depend on, and no stage is stored before the outputs it needs. |
| `workflow_overlap` | violated | Stage order when a completion overlaps the submission. |
| `workflow_twice` | violated | Single queueing when two completions overlap. |
| `workflow_commits` | violated | Stage order for a fan-out of same-stage commit_data items, without overlap. |
| `workflow_assets` | violated | Does the stage after a stage of assets start? |
| `parts` | passes | Eleven components that share no state, each with its own questions, below. |
| `database_owner` | violated | One owner when controllers start at the same time. |

`parts` chooses a component in its initial state and runs that one; the
variables of the others are unused.

| Component | Instance | Properties |
|---|---|---|
| `ControllerOwnership` | three controllers that start one at a time, killed anywhere | `OneController` |
| `SourceAdmission` | two submissions, one damaged file or manifest, one crash | `SourceStaysReadable`, `RecoveredReadable`, `AcknowledgedWhole` |
| `WorkerLaunch` | every configuration, two launches, one lost connection | `FailsOnlyOvertaken`, `RelaysAccounted` |
| `AssetMaterialization` | two attempts with any two of five assets, a source that changes, one killed worker | `PinnedDestination`, `ReportedDestination` |
| `ItemAttempt` | two attempts, two registered targets and a drive, one killed worker | `PublishedAsDescribed`, `PublishAllOrNothing` |
| `WorkerHeartbeat` | one session, an interval of two units, dead after five, requests of up to one | `FencedInTime` |
| `SubmissionWatch` | three workflows, one handler, one replay, one lost worker, one error | `ToldTruth` |
| `VariableResolver` | 7600 sets of variables | `ResolvesToMeaning`: the result against a bottom-up definition of what a variable means |
| `StageCompilation` | 5441 documents | `StagesCompileAsWritten` |
| `StepOutputs` | 18061 collections, steps, texts and hydrations | `OutputsAsReported`, `HydratesItsOwn` |
| `RasterPairCounts` | 2761 requests with values of two bits | `CountsExact`: the chunked count against counting pixels |

Bounds. Two sessions are enough for an item to pass from one owner to the
next while the first still reports, and three attempts for two requeues, past
the limit of one used in place of the code's three. Two units per second give
each second one whole and one fractional instant, which is all the text order
distinguishes; `DeadAfter` is one second there. `MaxUnits` stands for the
largest int64. In `fleet`, `DeadAfter` is two heartbeats, so that one may be
missed, a reserved start expires within two ticks, and a tick may fall into a
pass of the caretaker; one fault at any point is what each recovery path is
for. The heartbeat interval is two units in `WorkerHeartbeat`, so that a beat
can be sent, handled and answered at different times between two ticks, and
`DeadAfter` is no multiple of it. The workflows have at most three stages and five items, and
contain each feature the handlers branch on: fan-out, parallel steps, empty
fan-out first, in the middle and beside a full step, a dependent of one and
of two items, an asset with a dependent. `MaxSecond = 1` lets two activations
carry the same or different stamps; one replay, one lost worker, one error and
one crash each meet every other step. Two attempts, or two submissions, are
what file races need. A third controller is needed beside a stale lock: one
left it, two compete for it. Collections have up to two dimensions whose
values occur in each other's texts; the size limits and the widths of raster
values are scaled down to two or three units so that both sides of each are
met, and the depth limit of the resolver is three in place of ten.

Symmetry is used for sessions and attempts of the store (except where one
session is enough), for the handlers of `workflow_racing` and for the two
submissions of `parts`, which nothing tells apart; no liveness property is
checked in those runs. Deadlock is checked in `fleet`, whose clock never
stops. It is not checked elsewhere: attempts, clocks and files run out at the
bounds, and a finished run has nothing left to do.

Fairness. `FairSpec` of `WorkflowRun` assumes that something the controller or
a worker can do without anything going wrong is eventually done: handlers run
on, live workers poll and report. Clock ticks, lost workers, replays and
errors are not assumed to happen. Every behaviour takes finitely many steps,
so fairness of the whole is as strong as fairness of each part. `WorkerFleet`
assumes weak fairness of the caretaker goroutine, of each worker's main loop
and of each heartbeat goroutine, which the Go scheduler and the operating
system provide, and strong fairness of time: a tick waits while a request is
under way and is possible again after each. Nothing is assumed of
submissions, crashes, losses or errors.

### Where the code and its documents disagree

Shown by a run:

- `store_deadline`: a heartbeat at x.5 s counts as older than a cutoff at
  exactly x s, so expiry can take work up to a second early. The bound that
  does hold is `ExpiredOnlyWhenSilent`.
- `workflow_overlap`: items are queued before their memberships are written,
  so a step can look complete while some of its items are not members yet.
- `workflow_twice`: two handlers find the next stage blocked; the second
  queues an item that has been claimed meanwhile.
- `workflow_commits`: dependents join their step as their producers complete,
  so the step is taken as complete when its first one is.
- `workflow_assets`: asset.materialize items have no membership and their
  completion does not activate anything.
- `database_owner`: of two controllers that find a stale lock file, the second
  removes it by name after the first has replaced it, and both go on. It takes
  two starts at once; `OneController` and the theorem show that starts one
  after another are safe.

The results of `workflow_serial` hold only when requests do not overlap.
`workflow_racing` shows what remains when they do.

Met while modelling, and allowed for by the properties as their comments say:

- After a crash between `CompleteAttempt` and the activation nothing resumes
  a run but a repeated report, which may then queue a stage's items twice; a
  crash between membership rows lets a run read as completed while an
  unrecorded item is still to run.
- A client can be told "completed" before the last output has been captured;
  if that capture fails, the run is failed afterwards.
- `goet demo` waits for no queued and no running work
  (`internal/client/controller_client.go:283`). That also holds between two
  stages, so it can shut the controller down in the middle of a run.
- `workflow_stages` rows are updated only by `CompleteStageIfReady`, which
  nothing calls, so `ListActiveWorkflowRuns` never drops a run, although
  `docs/concepts/workflow-execution-persistence` says "Active runs exclude
  runs whose stages are all terminal."
- Recovery verifies and repairs project and workflow documents, not scripts
  (`source_reload.go:96`), although
  `docs/concepts/python-workitem/002-controller-source-bundle-api.md:17` says
  cache misses and corruptions are repaired from the "admitted source paths".
  The bundle endpoint refuses such a run. `RecoveredReadable` therefore speaks
  of the documents.
- A publication that has found a bad file removes whatever is there by then.
  When another has repaired it meanwhile, the good file is missing until the
  first has written its own, and for good if it stops there
  (`cache_publish.go:50`). `SourceStaysReadable` excuses exactly that file.
- A worker can outlive its session: its clock starts when an answer arrives and
  is looked at only when a beat fails (`lifecycle.go:83`), so a worker that is
  cut off works on for up to an interval and two request timeouts after the
  controller may have given its item to another. `FencedInTime` is the bound
  that holds; its late report is refused (`HolderDecides`, `OutcomesFenced`).
- A controller killed between creating its lock file and writing its pid
  locks the database until the file is removed by hand. A worker killed while
  it promotes leaves its locks, and one killed between the cached source and
  its manifest a cache entry, that fail every later attempt.
- The test for a free publish destination and the rename are two calls, so
  `fail_if_exists` does not hold between attempts that overlap; a rollback
  removes by path what another attempt may have placed; uploads to a drive are
  not rolled back.
- `SSHReverseCallbackTunnel.Start` returns early when it has a listener, also
  one that died with a replaced connection, so that later workers cannot call
  back. A launch replaces the worker artifact and then makes it executable, so
  a queued job of an earlier launch may start in between and fail; where
  scripts are overwritten in place, the next job of the same launch does the
  same to the last. A relay whose start or end was not confirmed stays on the
  target. `FailsOnlyOvertaken` and `RelaysAccounted` say that this is all.
- Integrity is checked on the source of an asset. What is promoted is copied
  from the cache later, and a reused destination is compared with its manifest
  only (`asset_destination.go:84`, `:300`), so of attempts that share a cache
  key and name different hashes one can report the other's content. An artifact
  for a drive is hashed before it is uploaded (`published_asset.go:356`).
- Materializations of a stage are compared by keys of two kinds, one of steps
  that fan out (`asset_materialize_plan.go:56`) and one of the others
  (`explicit_asset_materialize.go:172`), so one of each may make the same
  asset, although
  `docs/concepts/canonical-workflow-data-document-model/009-explicit-cache-data-step.md:55`
  says "Reject duplicate explicit materializers for the same instance/domain
  within an unambiguous workflow plan, or document a deterministic conflict
  rule." `StagesCompileAsWritten` speaks of steps of one kind.
- A collection's template is recovered by replacing texts. Where that fails,
  the step fails after all of its members completed.
- Hydration computes the key of an asset without its file roles and with its
  destination, the producer with roles and without
  (`asset_materialize_hydration.go:222`), so collection members and shared
  assets with roles or a destination are never found, although
  `docs/concepts/data-asset-collections-and-materialization/008-downstream-member-hydration-and-data-projection.md:166`
  says "The hydrated assignment contains one concrete materialized asset
  manifest for the requested year." `HydratesItsOwn` states what does hold.

## Proofs

Every theorem holds for any number of the sessions, items, attempts, workers,
controllers, runs, handlers or jobs it speaks of, and for any number of
crashes, losses and replays, unless its hypotheses say otherwise. Each rests on
an inductive invariant, which says what the steps in the middle of an operation
rely on; TLC checked it first. The properties of the last five components, of
`WorkerHeartbeat` and of `SubmissionWatch` are those that `parts` checks, under
the same names, on its instances of them.

| Component | Theorems | Invariant |
|---|---|---|
| `WorkStore` | `TypeOK`, `RunningOwned`, `OneAssignment`, `OneOutcome`, `NoWorkLost`, `RetryCeiling`, `ResourceLimitHeld`; `DeadSessionsStayDead`, `RecoveryAtomic`, `ExpiredOnlyWhenSilent`, `OutcomesFenced`; `ImplementsLeases` | `Safety`, `RetryInv`, `ResourceInv` |
| `WorkerFleet` | `SignalNotLost`, `HolderDecides` | `FleetTypes` |
| `WorkerHeartbeat` | `FencedInTime` | `SessionInv` |
| `WorkflowRun` | `OutputsPrecede`, `DependentsWait` | `OutputsInv`, `DependentsInv` |
| `WorkflowRun`, one request at a time | `StageOrder`, `QueuedOnce`, `CompletedMeansDone`, `FailuresHaveCauses`; `FailureIsFinal` | `SerialInv`, `HeldInv` |
| `SubmissionWatch`, one request at a time | `ToldTruth` | `WatchInv` (`RunInv`, `ClientInv`) |
| `ControllerOwnership` | `OneController` | `Inv` |
| `SourceAdmission` | `SourceStaysReadable`, `AcknowledgedWhole`, `RecoveredReadable` | `SourceInv`, `RecoveryInv` |
| `WorkerLaunch` | `FailsOnlyOvertaken`, `RelaysAccounted` | `JobInv`, `RelayInv` |
| `ItemAttempt` | `PublishedAsDescribed`, `PublishAllOrNothing` | `ItemInv` |
| `AssetMaterialization` | `PinnedDestination`, `ReportedDestination` | `DestinationInv`, `StageInv`, `ReportInv` |

**WorkStore** (assumptions `StoreAssumption`, `OneConstraintPerKey`,
`UnitsAssumption`, `MaxUnitsAssumption`). `Safety` is the conjunction of
`TypeOK`, `RunningOwned`, `OneAssignment`, `OneOutcome` and `NoWorkLost`. None
of them stands alone: that a recovered attempt has no other outcome needs
`OneOutcome`; that requeueing the items of the lost attempts covers every
item needs `TypeOK`; that a claim creates no second assignment needs that an
unused attempt is in no table. `RetryCeiling` adds that the abandoned
attempts of an item are finitely many, since it counts them, and
`ResourceLimitHeld` that the units in use are: a claim adds at most the units
of the item's one constraint on a resource, which the admission test has
added, and everything else only gives units back. `OutcomesFenced` assumes
that reports name a session, as those of workers do: the code accepts a
report without a session id and does not fence it.

The refinement maps queued work to offers, running attempts to leases,
outcome rows to outcomes, and ended sessions to retired holders. Each
transaction becomes one `WorkLeases` step or none; `OneAssignment` is what
makes ending one attempt end exactly one lease.

**WorkerFleet** (`FleetAssumption`). `SignalNotLost` is inductive as it stands;
`HolderDecides` needs the types only.

**WorkerHeartbeat** (hypothesis `PolicyAssumption`, which is what
`validateWorkerHeartbeatPolicy` asks for). `FencedInTime` compares two clocks
that are set by different events. The invariant is how far they can be apart
at each place of the goroutine (`ClocksClose`), and how old the worker's clock
can be when the next beat is sent and fails (`BeatsInTime`).

**WorkflowRun** (`WorkflowRunAssumption`: stages are numbers and every item is
of a step). For `OutputsPrecede`, a handler about to store a stage has seen
the outputs of all stages before it, and facts are never deleted.
`DependentsWait` is proved for workflows whose dependencies are inside the
first stage and one deep (`FlatFirstStage`), which is what the document
compiler makes of an `asset.materialize` or producing step and its dependents
in a first stage: a producer is queued once, by the submission, so that once
completed it stays so. In a later stage an item can be queued twice
(`workflow_twice`), and a producer that runs again may fail after its
dependents were offered. The instance of `workflow_racing` is of the proved
kind.

The properties of `workflow_serial` but `RunFinishes` are proved for any number
of lost workers, repeated reports and errors, under these hypotheses, which all
its workflows meet:

- `OneAtATime`: one handler and no crash. With two handlers `StageOrder` and
  `QueuedOnce` fail (`workflow_overlap`, `workflow_twice`). A crash can leave
  queued work without its membership, which the invariant excludes; no run asks
  which of the properties outlive it.
- `StepsTogether`: the items of a step depend on the same items, so that they
  are released and recorded together; without this `StageOrder` fails
  (`workflow_commits`). No item is an `asset.materialize` item: those have no
  memberships, which the invariant counts on (`workflow_assets` shows what
  becomes of such a run). A stage that has items has one that waits for no
  other item of the stage, as otherwise none would ever be queued. Items are
  numbers, since they are recorded in order.
- `NoPlanIsNone`: the absence of a saved plan is not a plan.

`SerialInv` (theorem `RunSerial`) has these parts:

- `RowsInv`: work in hand is stored, stages are stored whole, an item is
  queued, running or done and only one of these, and nothing is there before
  the plan.
- `MembershipsInv`: an item in hand has its membership or is in the list of the
  request that writes it, the items of a step all together, and a stored stage
  has one. Without this a step reads as completed while an item of it is
  missing from the plan.
- `FactsInv`: a step with an output is done; a step that is done has its
  output, or the run has failed, or a request is about to see to it. So a
  stage that reads as blocked has no stored item, and is stored once.
- A saved plan has a cause, and `Stands`: what the request in hand has seen to
  at each of its labels.

`HeldInv` adds that a request holds a failed plan only in a run that has
failed already, so that saving what was read some steps ago does no harm.

The state the code derives from these rows is computed once, in `MembershipState`,
`StepState`, `StageStates` and `RunStates`. `FailureIsFinal` follows because a
run reads as failed exactly when a failed plan is saved or a member has failed
(`FailedState`), and no step takes either back.

**SubmissionWatch.** `ToldTruth` is proved under the same hypotheses, with
steps numbered from 1, as 0 stands for no step. `NamedInv` adds that a saved
plan has a failed membership, or a step of a stage that was given up before
anything of it was stored; each later save keeps it (`PlanSaved`), also one of a
plan that was read earlier (`CarryInv`), so the first failed stage and step
exist. `ClientInv` relates what the client has read and
been told to the run: an answer read from several counts and the plan is true
when it is given, and what it rests on is never taken back. A run told
completed can be failed afterwards by an error only. After a shutdown no
answer is given any more.

**ControllerOwnership.** Proved for controllers that start one after another
(`~Overlap`; `database_owner` shows that this is needed). The invariant adds
`Knows`: an owner's pid is in the lock file; a starting controller that wrote
the file finds it as it left it; one that is about to remove it has read the
pid of a process that is gone, which therefore cannot be an owner; and when it
creates the file again there is none. Each of these survives the steps of the
others because no second controller is starting and an owner touches the file
only to give it up.

**SourceAdmission.** What a publication has passed is as admitted, was damaged
from outside, or is being replaced by a publication that will write it again;
nothing is recorded before everything is published; rows are written in order.
For `RecoveredReadable`, nothing runs during recovery but the repair of one
run (`Quiet`), and a repair removes only what it has found bad.

**WorkerLaunch.** `PutInPlace` says what a launch has put in place at each of
its steps, starting from whatever earlier launches left, and `JobsServed` that
a job of the latest launch finds it. For the relays, a tunnel without a
listener knows of no relay, so that starting one forgets none.

**ItemAttempt.** An accepted temporary has the hash the attempt reports, and
what an attempt holds is among the targets it remembers to have placed, so
that its rollback finds all of them.

**AssetMaterialization.** A single attempt is between the creation of the lock
files and their removal, and found neither destination nor manifest; a worker
killed there leaves its locks, so nobody follows. An attempt that has placed or
reused a destination rests on a manifest, and while there is one nobody gets
as far as the rename.

Hypotheses of theorems that are not about the code's behaviour say that the
model value `None` differs from what it is the absence of (`NoneIsNoLock`,
`NoneIsNoContent`, `NoneIsNoValue`, `NoneIsNoEvidence`), and that a publish target is either in a
registered location or on a drive (`TargetsDiffer`), as its scheme decides.

Only model-checked:

- `RunFinishes` and `FleetComesToRest`: liveness under fairness is out of the
  prover's reach.
- `ResolvesToMeaning`, `StagesCompileAsWritten`, `OutputsAsReported`,
  `HydratesItsOwn` and `CountsExact`: what recursive algorithms compute, which
  would need induction over data.

## Not modelled

- The other geospatial operations: calls into GDAL through cgo on
  floating-point geometry, whose results are passed on.
- Decoding of YAML and JSON, overlays and the legacy document form;
  fingerprints. The models start from decoded documents and use what is hashed
  in place of its hash.
- Logs, ledger and sensitivity labels: nothing that is modelled reads them.
- Authentication, HTTP set-up, credentials and client set-up: request
  filtering and configuration without state of their own.
- Text of shell commands and job scripts. The Git and file providers and the
  job scheduler are external; a submission may fail where they are called.
- Cache pins (`cache_pin*.go`), `Preflight` and `CompleteStageIfReady`, which
  only tests call.
