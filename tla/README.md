# burn_dragon in TLA+

Specifications of the concurrent and restartable parts of burn_dragon, checked
with TLC on small instances and proved, where that is possible, with TLAPS for
every value of the constants. Paths are relative to `src/crates/` unless they say
otherwise; `PROJECT.json` names, for every definition that models code, the lines
it stands for, and for every hazard the line where it bites.

## The system

burn_dragon trains byte-level language models (a recurrent "dragon" network) on
ordinary corpora and on generated ("ruliad") documents, on one machine or as a
peer of a burn_p2p network. Most of the code is tensor arithmetic or data
generation on one thread, where a model checker has nothing to say. What remains
is small and delicate:

| Component | State | Operations | What must be right |
|---|---|---|---|
| Random batch prefetch (`burn_dragon_language/src/dataset/scheduler.rs`) | shared task counter, bounded channel, `pending` map, `consumed_steps` | worker loop, `iter`, `next`, seek, drop | training sees the steps in order, once each; an epoch is short only if a worker died; no call blocks for ever |
| Streaming loader (same file) | `consumed_steps`, chunk and group of the documents in hand | `iter`, `next`, start at a step | a reset exactly where documents begin; a loader started at a step reads what one that walked there would |
| Live source selection (`dataset/universality.rs`, `burn_dragon_universality/.../source_selection.rs`) | bucket weights, offset, losses that wait for credit | sample, record loss, export, import | a document keeps its bucket; a loss finds the entry of its own step, once; a resumed run continues the same stream |
| Context routing (`train/context_routing.rs`) | slots with generation, optimizer and recurrent state | probe, switch, create, replace, checkpoint, restore | moments and recurrent states belong to the context in the slot |
| Document caches (`dataset/universality.rs`) | LRU entries, size, `building` set, Condvar waiters, prefetch threads | lookup, build, insert, evict, prefetch, panic handling | one builder per key, no lost wakeup, limits kept, nothing cached twice |
| Capability monitor (`burn_dragon_p2p/src/native_runtime.rs`, `capability_reprobe.rs`, `capability_state/native.rs`) | live roles, downgrade file, reprobe streak and backoff | poll, downgrade, persist, probe, recover, restart, operator commands | a peer out of memory stops training, now and after a restart; it trains again only after a cooldown and a streak of good probes, and then surely |
| Training driver and checkpoints (`train/schedule.rs`, `train/backend.rs`, `burn_dragon_checkpoint/src/run.rs`) | epoch, iteration, accumulation, recurrent state; a bundle of files per epoch, best epochs, the pending dynamics control | train a step, validate, save, prune, roll back, resume | the step budget is used exactly; there is always something to resume from; an exact resume is whole; a rollback finds its target |
| Stream batch plan (`burn_dragon_p2p/src/stream_batch.rs`, `experiments/common.rs`) | recurrent state across windows | export, segment, plan, window | the windows cover the shard; a batch continues its own stream only |
| Native peers and the edge (`burn_dragon_p2p/src/bin/burn_dragon_p2p_native.rs`, `admin.rs`) | stored and held heads, `edge_registered_head_id`, `pending_artifact_base_head`; the edge's artifacts, heads and directory | mirror pass, daemon loop, train-window-once, registration of a head, roll-out of a directory | what is advertised is served; a daemon trains one window a head and does not wait for ever; the mirror catches up |
| Run directories (`burn_dragon_train/.../run_dirs.rs`) | names, `latest` link | create, resolve | two runs do not share a directory |
| Checkpoint parts (`burn_dragon_checkpoint/src/parts.rs`) | parts and their checksums | write, read | a record is assembled from the parts of one write |
| Browser peer (`burn_dragon_p2p/src/wasm`) | page-side session state | callbacks | a stale callback changes nothing |
| Numerics, configuration, corpora, tokenizers, generation, kernels, evaluation, tooling | no shared or persistent protocol state | | not a subject for TLC |

How they interact. The training driver opens one iterator per epoch on a loader. The
random loader's workers call into the dataset, which for ruliad corpora asks the
document caches. The streaming loader asks the live sampler for the bucket of a
document; the driver and, from the metric samples, the event thread credit losses to
that sampler. After each epoch the driver validates, saves a bundle, lets the
policies decide, prunes, and applies a rollback; at start it resumes from a bundle
and tells the loader how many steps are consumed (`Start` in `RandomPrefetch`,
`InitialSteps` in `StreamingFeed`). The capability monitor is a thread beside the
burn_p2p node, talks to it through control calls that may time out, and to its own
next incarnation through a file. Peers meet in the swarm, which promotes heads, and
at an edge, whose directory names the head that browsers and new peers start from;
the mirror and train-window-once register heads there, and an administrator rolls
out whole directories.

What is hard in it: worker threads that finish out of order, die, or block in a full
channel; waiters on a condition variable whose builder panics; control calls with
unknown outcome; files rewritten in place; a process that dies between any two files
of a bundle and a later one that resumes, exactly or not, from what is left; weights
that move while a document is being read; two threads that credit the same loss; a
directory that three programs fetch, change and write back without a lock; heads that
advance while a peer waits for one. `PROJECT.json` lists these hazards one by one
with the properties that watch them.

## Modules

| Module | Models | Kind |
|---|---|---|
| `OrderedFeed` | the promise of a training loader: steps in order, epochs, short epochs only after a failure | abstract specification |
| `RandomPrefetch` | `RandomDataLoader`, `RandomIterator`, `RandomPrefetch` | component |
| `SingleFlightCache` | the epoch document cache and the live document batch cache | component |
| `CapabilityMonitor` | the monitor thread, the reprobe tracker, the downgrade file, restarts and the operator | component |
| `CheckpointBundle` | the dynamic trainer's epochs, bundles, prune, rollback and resume | component |
| `StreamingFeed` | `StreamingDataLoader`, its iterator, and the live sampler behind it | part |
| `ContextRouting` | `PredictiveContextRoutingRuntime` | part |
| `StreamTraining` | the three training loops over `StreamingFeed`, with `ContextRouting` and the event thread | composition |
| `StreamBatchPlan` | export, segments, plan and windows of a shard, and the peer that trains them | component |
| `PeerHeads` | the heads of an experiment and what a sync may return | part |
| `EdgeDirectory` | the registration of a head with the edge, call by call, and the administrator | part |
| `HeadMirror` | the bootstrap host's head mirror | part |
| `WindowTrainers` | the trainer daemon and train-window-once | part |
| `PeerNetwork` | mirror, trainers, administrator and swarm together | composition |
| `...Proofs` | theorems about the pool (with the refinement of `OrderedFeed`), the caches, the monitor, the bundles, stream training, the stream batch plan and the peer network | proofs |
| `MC...` | instances for TLC | model checking |

Definitions that begin with the comment `Mutant:` are plausible bugs. No
specification uses them; substituting one for the definition that follows it must
make TLC find the property it is paired with in `PROJECT.json` violated.

### RandomPrefetch

A batch is the absolute step it was built for. `next_task` is the `AtomicUsize`
the workers claim from, `channel` the `sync_channel` (capacity: the larger of the
depth and the number of workers), `pending` and `next_index` the reordering in
`RandomPrefetch::recv`, `cpc` the place of the training thread, `wpc`/`task` those
of the workers. `Claim`, `Build`, `Send`, `SendFails`, `BuildPanics` are the worker
loop; `IterDirect`, `IterSpawn` and `IterSeek` the three paths of
`RandomDataLoader::iter`; `PrimeRecv`/`PrimeDone` the priming in `spawn`; `CallNext`
and the disjuncts of `Recv` are `next()`; `DropLoader`/`Joined` the `Drop`.
`delivered` is a history of what training got. `Faulty` workers may panic.

The refinement maps `delivered` to the feed, the epoch's remaining steps to
`left`, and a dead worker to `failed`: `OrderedFeed` knows no threads. `FeedSpec`
checks it with fairness, the theorem `PoolImplementsFeed` proves the safety part.

### SingleFlightCache

One module for both caches: `source_selection` chooses at the start which one is
in use and so which limits hold. A value is represented by its key, because the
generator is deterministic in it. `entries` is the recency order, `building` the
set under the same mutex, `pc = "wait"` a thread in `Condvar::wait` (with
`SpuriousWakeup`). The code keeps the entries in a map, with the tick of their last
use: `Touch` takes a key out of its place and puts it last. One action is one critical section or one unlocked stretch.
`Insert` contains the whole section: replace, count, evict, unmark; and the
actions that use it notify. Prefetch claims the key before it spawns (`spawn`), and
the spawned thread is `prefetcher`.

### CapabilityMonitor

One pass of the loop in `run_native_capability_monitor` is `Snapshot`, then one of
the downgrade, probe or idle branches, then its calls one by one; `Crash` may come
between any two of them. `persist_native_downgrade` and `clear_native_downgrade`
are two actions each, because `fs::write` truncates first; `torn` is a file cut
off in between. A control call may fail, or time out (`ControlFails`); a write may
fail (`DiskFails`). A call that timed out stays in `late`, and the node may execute it
(`LateViewer`, `LateTrainer`, `LateAcknowledge`) at any later time, after any number
of polls and probes. It does so before it answers a newer call: the node takes its
commands from one channel, in order, which is the assumption made about it. Its
`last_error` is a fit failure, another error that replaced it (`OtherError`), or none.
Time is a counter `timer` to the next probe. `quiet`, `successes`, `unhandled` and
`entitled` are histories that no guard reads. `last_handled_fit_error` is not a
variable: it is `None` whenever `trainer_active` holds, and the downgrade branch is the only one that reads it.

### CheckpointBundle

`disk[e][k]` is the start of the process that last wrote file `k` of epoch `e`, or
`Missing`, or `Torn`. A *kind* groups files that are written together and treated
alike on load: `runtime-state` (and the teacher), `optimizer` (and scheduler,
dynamics, model-config), `source-selection-state` (and context routing). A crash
between two files of a group leaves one that a load refuses (`Torn`: a runtime-state
whose teacher is missing is an error in any mode) or one whose missing files it skips,
which only differs from the crash after the group in the control that a resume from the
latest bundle starts with. `PruneFile` removes a group at once, or first the `teacher` of
a model that has one. The order
of `Artifacts` is the order of the code; `stability` and `training-ecs-state` are
renamed into place and never torn. `trainer` is where model and optimizer come
from, as a pair of start and epoch, and the active dynamics mode.

`TrainEpoch`, `Validate`, `SaveArtifact` (once per kind), `Policies`, `PruneFile`
(once per file, then `PruneDone`), `HandleControl`/`HandleRollback`/`RollbackFails`
are the body of the loop in `train_with_dynamic_neuron_scaling_scheduler`;
`Deferred` is the branch for external validation, which protects no epoch from
pruning. What the policies decide depends on floating-point metrics and is a
choice among the targets the code can name. `Crash` stands for a kill, a failed
write and an interruption. `ResumeLatest` is `resume_latest_checkpoint_if_present`,
which takes no epoch; `ResumeExact` is `resume_exact_run`, whose epoch is the
latest or one the operator names. `rewinds`, chosen at the start and never changed,
says whether the operator may go behind the latest bundle that an exact resume would
accept. Stepping behind a torn one is always possible, and necessary, because a
cut-off model file still counts as latest.
The model takes live source selection to be in use, without which its file is not
required. `exact_only`, `course`, `resumed` and `handled` are histories. `course` says
whether the run still goes on from its latest bundle: it is `behind` once an exact
resume went behind the latest bundle, until the next epoch is saved, and `stray` for
good when another resume took up such a bundle before that.

### StreamingFeed, ContextRouting and StreamTraining

`StreamingFeed` has the variables and operations of the streaming loader and the live
sampler, `ContextRouting` those of the contexts, and `StreamTraining` calls both from
the loops of `train/schedule.rs`: `plain` (one recurrent state kept across steps, with
gradient accumulation and dynamics controls), `routed` (context routing) and
`population` (EGGROLL, which takes a batch for its autotune probe when it starts).
`OpenEpoch`, `Fetch`, `TrainPlain`/`TrainRouted`/`TrainPopulation`, `Update`,
`EpochEnd`, `Checkpoint` and `Finish` are the loop; `EventThread` is the second
thread, which reads the steps of the metric samples in `posted`; `Resume` ends a
process at any point and starts the next one from the last checkpoint.

A static document is its epoch and rank, a live one its epoch, first step and bucket.
The probabilities of the sampler are reduced to `drawn`: what the weights in force
would draw once more, or `Nothing` after they moved. A recurrent state is the document
it has read and the chunk it expects. Optimizer moments are the generation they belong
to. What the bank of contexts decides (burn_pc, a dependency) and whether losses
arrive is a choice. `disturbed` and `resumes` are histories.

Simplifications. Two iterators are never open at once in these loops, so the branch of
`next` for a counter that has passed the limit is not reached and not modelled. A
batch and the policy batch beside it are two draws (`Fetch`, `FetchPolicy`), with the
event thread in between; within one draw, and within one credit, the lock of the
weights and the lock of the entries are taken in one step. The parameters of the
model, their rollback, and the rescaling of the batch after a change of the network
are left out here; bundles and rollbacks are in `CheckpointBundle`. The event bus
between trainer and event thread delivers in order and late.

### StreamBatchPlan

`RecordsOf`, `ExportedKeys` and `Segment` are the exporter, with its `BatchSize` and a
limit of its own; `Refused` and `Plan` are the planner with its errors, with the batch
size and the limit of the peer (`batch_size`, `limit`), which nothing ties to the
exporter's. `Window` is the share of one window, `Start` its rotation. A peer with a
lease has any set of segments, since how burn_p2p packs them is not ours to know
(`Leased`). A browser without one reads no more records than it may train, and stops in
the middle of a segment or a chunk (`Truncated`). Or a shard is a
sequence from elsewhere (`Foreign`), whose entries are records or nameless, which is
all that `RecordAssumption` says of it. The actions are the peer: take the next window or
a later one, train its batches one by one, leave the rest when the time is up. The
recurrent state is not cleared between windows, as in the code.

### PeerHeads, EdgeDirectory, HeadMirror, WindowTrainers and PeerNetwork

A head is a number, in the order of `created_at`, with its `global_step`, parent and
announcer. `Promote` is the swarm's: it merges the windows of the canonical head into
the next. `Synced` is what `sync_latest_promoted_experiment_head` may answer: nothing,
or a promoted head, though none before a promoted head that the node holds. That last
is an assumption about burn_p2p; a node that holds a head nobody promoted may be
answered with an older one.

`EdgeDirectory` is `register_live_head_with_edge_options` one call at a time: mirror
the artifact, register the live head, fetch the directory, roll it out, skipping the
roll-out where the entry is right. `CallFails` is any of them failing before or after
its effect. `AdminFetch`/`AdminRollout` is the administrator, between whose two calls
anything may happen; other experiments' registrations write this one's entry back in
just the same way and are the same two actions. `writer` is a history of who knows that
the entry is its own.

`HeadMirror` is `run_prepared_head_mirror`: `MirrorSync` (restore, sync, select, else
initialise), `MirrorChoose` (the newest announced head or its own), `MirrorRegistered`,
`MirrorFallsBack`. `stored` survives the process, `view` and `registered` do not. The
model takes the flags and the service manager of the deployment in the repository.
`WindowTrainers` is the daemon's loop in `run_prepared_peer` (`DaemonSync` to
`DaemonSettles`, with the limit of steps and of consecutive failures) and
train-window-once. Both start from a promoted head, from one the directory names or
named, promoted or not, or from a window of their own that they find in their storage
and announce again (`StartHeads`, `Serves`). Processes end anywhere (`MirrorEnds`, `DaemonEnds`, `OnceEnds`) and
heads announced by a trainer are unreachable once it is gone.

Simplifications. The swarm and the edge are burn_p2p, outside of the repository: a
published head is announced at once, an edge never drops a head or an artifact, a call
that returned an error took effect before or never. All peers initialise the same
genesis head. Roles, connectivity and login are what the environment allows. A step
limit of `None` is not modelled; a large one behaves the same.

## Runs

| Run | Question | Instance | Distinct states |
|---|---|---|---|
| `prefetch` | order, accounting, refinement of `OrderedFeed`, calls return, short epochs have a cause (fair) | 3 workers, one may die, depth 1, epochs of 3, steps 2..5 | 143 224 |
| `documents` | single flight, waits, limits, totals, calls return (fair) | 3 threads, 3 keys, one larger than the cache, one that may panic | 26 800 |
| `capability_faults` | types, no stranded peer, hysteresis with failing calls and writes | cooldown 3, two successes, counts to 3 | 86 548 |
| `capability_recovery` | file agrees, failures downgrade, recovery happens (fair) | cooldown 2, two successes, counts to 2 | 18 268 |
| `capability_half_restored` | disagreement with the documentation | | violation |
| `capability_torn_file` | disagreement with the documentation | | violation |
| `checkpoint_resume` | crashes, prunes, both resumes, rollbacks, with and without going back, with and without a teacher | 3 epochs, window of 2, 3 starts (2 with `rewinds` or `teacher`) | 8 255 482 |
| `checkpoint_lost_control` | disagreement with the documentation | | violation |
| `stream_training` | budget, seek, credit, resume, contexts, identity of streams | 10 steps, epochs of 4, accumulation of 3, 2 contexts of 2 generations, 2 resumes | 2 409 412 |
| `stream_identity` | disagreement with the documentation | | violation |
| `stream_batch_plan` | export is planned, windows cover, state continues | 3 documents of 3 chunks, the exporter's batches of 2, the peer's of 1 to 3, limits 1 to 3, windows to 4 | 630 059 |
| `peer_network` | served directory, one window a head, waits end, mirror catches up (fair) | five companies of up to three processes, 3 to 6 heads | 592 259 |

Bounds and why they suffice. *Prefetch*: three workers of which one may die let the
other two run out behind it; two that live and a channel of three produce every
overtaking of neighbours; epochs of 3 from step 2 to the limit of 6 leave a last epoch
of one step, which takes the direct path beside a live pool. *Caches*:
three threads are needed for two waiters of one builder, three keys for an eviction that
has a choice, one key that alone exceeds the cache for the loop that must stop.
*Monitor*: two required successes let a streak be broken in the middle; an interval of
1 with a maximum of 2 reaches the cap; `MaxCount` is the one artificial bound, a number
above which counts are not told apart, never below the required successes.
*Checkpoints*: `MaxEpoch` 3 with `KeepLast` 2 (the constant of the code) is the least
that leaves a best epoch outside the window of recent ones; `MaxStarts` bounds how
often a run is started or resumed: with 3, one crash can hit the files of an epoch that
is being written a second time. `FewerStarts` is the same bound for runs that may go
back and for models with a teacher, where 2 keep the run short; `GateModes` is the set of modes the gates ask for, and
more than one only matters for `ExactResumeContinues`. *Stream training*: an epoch of
4 is no multiple of a document of 3 chunks nor of an accumulation of 3, 10 steps are no
multiple of the epoch, 5 documents none of the batch; a live document of 3 chunks is
as long as the pending limit, which the steps that are not credited exceed, and long
enough for a policy batch to enter a step again that the event thread has still to
read: its credit then falls between the two draws of a later step (with a limit of 2
it cannot); two contexts of two generations force a slot to change hands; two resumes let a
resumed run be resumed. `MaxPosted` bounds how far the event thread is behind. *Batch
plan*: with 3 documents the second group is smaller than the first, limits of 1 to 3 divide
3 chunks evenly and not, a peer's batches are smaller than the exporter's, as large and
larger, and both refusals that `ExportIsPlanned` admits occur; foreign shards have lanes apart, gaps and every sequence
of three records, nameless ones included. *Peers*: five companies, since all four
processes at once are out of reach: mirror with trainer (4 heads, so that a window is
trained on a window), mirror with trainer and administrator (the three writers, 3
heads), mirror with daemon (3), daemon with trainer (4: the daemon starts from the
trainer's head in the directory, and the canonical head it is answered with is older),
daemon alone (6: it restarts from its own windows, or two promotions behind, and
completes windows for an unpromoted and for a promoted head); two failures in a row and
two steps reach both limits of the daemon.

Deadlock is checked for the monitor and the peer network, which never stop; the others
really stop: dropped loaders, panicked threads, finished runs, refused shards.

### What the violations say

* `capability_half_restored`: recovery restores the roles before it clears the
  record. If clearing fails, the node trains while the monitor still believes it is
  read-only; a fit error in that state is acknowledged by the next recovery without
  having been handled, contrary to `src/docs/p2p-production-readiness.md`.
* `capability_torn_file`: the downgrade file is rewritten in place. After a crash
  between truncation and write neither the peer starts nor `clear-downgrade` works,
  contrary to the README of the crate.
* `checkpoint_lost_control`: what validation asked for is applied after the bundle
  was saved and is in none of its files. An exact resume continues with the model
  that was to be rolled back; the report in `src/docs` claims that all of the state
  is checkpointed.
* `stream_identity`: the bucket of a live document is drawn again for each of its
  chunks, with the seed of its first step but the weights of the moment. A loss that is
  credited in between moves the weights; the next chunk may be one of another document,
  is not marked to reset, and is trained from the recurrent state of the first. A report
  in `src/docs` says that the identity of streams is preserved across chunks.
  `IdentityUnlessDisturbed`, checked and proved, says that this is the only way.

### Fairness

* `RandomPrefetch`: weak fairness of every worker's loop and of the calls the
  training thread is inside of (`PrimeRecv`/`PrimeDone`, `Recv`, `Joined`): the
  operating system schedules threads that can run. None for a new call: the program
  may stop asking.
* `SingleFlightCache`: weak fairness of a thread's lookup, of finishing a build and
  of prefetch threads: the mutex is granted and generation terminates. `CallsReturn`
  is conditional: it assumes that from some moment on no document is lost again, to
  eviction or to a panic. A caller can otherwise be overtaken for ever by others that
  build its key and lose it; the code has no bound on that, and the hazard list says so.
* `CapabilityMonitor`: weak fairness of the monitor thread and of time, strong
  fairness of the three control calls: a call that is repeated for ever is answered
  in time at some point. Nothing is assumed of windows, memory, operator or process.
  `RecoversWithMemory` is conditional on memory that stays.
* `PeerNetwork`: weak fairness of the mirror's loop (restarts by the service manager
  included), of the calls it is inside of, of the daemon's loop, and of promotion;
  strong fairness of a sync that answers with the canonical head, for the mirror and
  for the daemon: who asks for ever gets the current answer at some point. Nothing is
  assumed of anybody's survival, the trainer or the administrator. `MirrorCatchesUp`
  is conditional: the mirror lives, nobody else writes, its calls stop failing for
  other reasons than a provider that is gone, and it does not lose both its storage and
  the network again. Providers may go and windows be announced for ever, as far as the
  bound on heads lets them.
* `CheckpointBundle`, `StreamTraining` and `StreamBatchPlan` state no liveness: a run
  may crash for ever, a browser run out of time in every window.

## Proofs

All theorems hold for every value of the constants that satisfies the named
assumptions of the modules, which TLC also evaluates in every run.

* `RandomPrefetchProofs`. The inductive invariant is
  `TypeOK /\ PoolInv /\ AccountInv`. `InOrder` alone is not inductive: that the
  batch handed out is the right one rests on `next_index = consumed_steps` while an
  iterator uses the pool, and that in turn on the direct path taking at most the
  last step once a pool exists (`PoolPosition`), on epochs that never ask for more
  than the limit leaves (`EpochRoom`) and on the history and the counter moving
  together (`Ordered`). `Accounting` needs `Claimed`: all that was claimed lies
  below the shared counter. From these follow `TypeCorrect`, `DeliveryInOrder`,
  `StepsAccountedFor`, `ShortEpochOnlyAfterPanic` (if the channel is closed under a
  waiting training thread and no worker had died, the step it waits for would have
  to be somewhere) and `PoolImplementsFeed`, one step at a time. `PoolNeverDeadlocks`
  writes out the guards of the calls and of the workers, since `ENABLED` cannot be
  used: inside a call somebody can go on.
* `SingleFlightCacheProofs`. `StepKinds` sorts the actions by what they do to a mark:
  claim, release, release by a prefetch thread, hand over, or leave alone.
  `SingleFlight` and `NoOrphanWait` are each inductive with the types of the four
  variables they speak of (`OneBuilderPerKey`, `SleepersHaveABuilder`); the cached
  entries play no part. Together they say that whoever waits, waits for a thread that
  does not (`WaitingEndsInWork`). Those are the subject of `CacheInv`: no key twice, the total is
  the sum of the entries, eviction would drop nothing, and no mark is for a cached key.
  The four need each other. That a stored key displaces one copy of itself at most takes
  uniqueness (`TouchIs`); that its old size can be subtracted without saturating takes
  the exact total (`HeldIsCounted`); and with both, what eviction counts down while it
  drops entries is the sum of those that are left (`RestIs`), so that it stops, at the
  latest with nothing left (`EvictionFits`), at a cache that fits. `InsertIs` puts
  this together for a store, and `EntriesAreUnique`, `EvictionSuffices`,
  `TotalNeverDrifts` and `CachedIsNotBuilt` are read off `CacheInv`. The sum itself is a
  recursive function; `SetInduction`, the least-number principle with the
  property given as a set, shows that it exists, is determined by its terms and splits
  over the parts of a sequence (`SumExists`, `SameTerms`, `TotalOfParts`).
* `CapabilityMonitorProofs`. `Phases` says that `trainer_active` is old in the middle
  of a transition. `Hysteresis` follows from `Patience` and `LateIsDue`: what is left
  of the cooldown is on the timer, the streak counts no more than the probes that
  succeeded, so the monitor asks for the roles in due form, and a request that is late
  was asked so since the last downgrade (`RecoveryIsPatient`). That needs `Queued`: a
  downgrade that is answered leaves no earlier request behind it. `NeverStrandedReadOnly`
  needs that the error the monitor has seen is still there when it acts, or another in
  its place, and that roles are back before the record is cleared (`Sighted`,
  `NobodyStranded`). `DiskAgrees` is proved for a disk that works,
  `FileIsCurrent`. `PowerAssumption` is all the proofs take of the powers of two; it
  is a finite fact that TLC evaluates completely.
* `CheckpointBundleProofs`. `SurvivesCrash` speaks of some bundle and not of which.
  `WholeBehind` says where it is: at or behind the epoch in hand, strictly behind it
  while that one is written, and equal to it from then on; so a save never hits it
  and pruning keeps it. `WrittenSoFar` says that the files before the position in the
  save are of this start, so the bundle is whole at the end of the save
  (`CrashCostsOneEpoch`). `StepKinds` then sorts the actions by what they do to the
  files. `Resumable` has the same invariant with *usable* for *whole*, and holds
  wherever the operator goes back to, since the bundle resumed from is usable
  itself or behind it another one is (`AlwaysResumable`). `ExactResumeIsWhole` rests on
  the file that is required, written last and renamed into place: `Newest` says that it
  is in no bundle beyond the newest whole one, so what an exact resume accepts beyond
  that does not exist (`ExactIsWhole`).
  The rollbacks have an invariant of their own, `RollbackInv`. Every epoch that the
  policies may ask for holds what a rollback loads: the ones in memory (`MemoryHolds`),
  the one already asked for (`SlotHolds`), and, since a later process takes them
  from there, the ones in the stability file of the bundle it would start from
  (`FilesHold`, and `LatestHolds` for runs that take up their latest bundle). Pruning
  spares them because the memory knows them (`PruneSpares`) and is over before a
  rollback is handled (`PruneIsOver`); what a crash tore is ahead of them all
  (`TornAhead`). From it `RollbackFindsWhole` and `RollbackNeverFails`.
  `RollbackLoads` as it was first stated, without `course`, turned out not to follow,
  and not to be true. If an exact resume passes over a latest bundle that it
  cannot take up, and the process dies before the next epoch is saved,
  a resume from the latest bundle takes up the one that was passed over, whose
  stability file may name an epoch that has since been torn or pruned. That takes four
  starts; the run has three, and had shown nothing. Its guard `~teacher` is of the same
  kind (it takes five epochs where two are kept, and three starts): a prune that is cut
  short may have removed the teacher of an epoch and not its model; a resume from a latest
  bundle without a stability file takes the best epoch from the log, which may name that
  one, and a rollback to it fails. And `~rewinds`: an operator who goes behind a usable
  bundle may find the best epoch, which the later epochs pruned, asked for again. In these
  runs the theorem promises nothing; `RollbackFindsWhole` does not need `~teacher`, since
  an exact resume requires the stability file. Its invariant says of torn files (`TornAt`)
  only what holds where nothing but a crash tears them.
* `StreamTrainingProofs` is in layers. `Core`: the types, `Paced` (loop and loader
  count alike: position, budget, epoch, and one batch apart after a probe) and `Owned`
  (the contexts), inductive together; from it `TypeCorrect`, `WholeBudget`,
  `ContextsOwned` and, with the equations at a checkpoint, `ResumeContinues`, which
  compares place, offset, recurrent states and contexts, and nothing of the entries or
  weights. `Beside` goes with the core: what is known while a policy batch is still to
  be drawn, above all that undisturbed weights would draw the batch in hand again.
  `Ledger`: the entry of the step in hand is the newest, so neither the limit nor an
  older step entered again displaces it, its bucket is the one trained unless the
  weights moved between the two draws of a first chunk, and steps posted are behind it
  (`CreditGoesToItsStep`, `NoDoubleCredit`). `Following`: between two chunks of a
  document the recurrent state in the place it will be loaded from has read exactly up
  to the next chunk, unless disturbed (`IdentityFollows`). `Walks`: division and remainder of the walked
  counter are the chunk and group of a seek (`SeekIsWalk`).
* `StreamBatchPlanProofs` starts with orders. The plan numbers lanes and records by
  how many come before them; ranks under any strict total order of a finite set rise
  with the order and leave no gap (`RanksRise`, `RanksEnumerate`), so the plan lists
  every lane once and every lane its records by chunk (`KeysEnumerate`, `RecordsAre`).
  An exported shard has at most the rows of its group in each chunk, none twice, and
  under a lease all of them (`SuppliesAre`, `ExportedChunks`), so the planner can only
  miss rows that a browser left unread or want a larger batch (`ExportedIsPlanned`,
  `ExportIsAccepted`). `PlanInv` says of the
  windows where in the rotation the rest of the one in hand lies and what the windows
  in a row have trained, as an interval of turns; as many windows as go round the plan
  make an interval no shorter than the plan, and such an interval meets every remainder
  (`ModAdd`, `RoundCovers`, `WindowsCoverShard`). And the state in
  hand is the one after the batch before in the window, which is in the same lane
  unless the batch is marked (`PlannedFollows`, `StatesFollow`).
* `PeerNetworkProofs`. `EdgeInv`: whatever has got past a call has what the call gives,
  artifact before head before entry, and the administrator's old copy names a head that
  was registered when it was made; heads are never taken back (`DirectoryIsServed`).
  `DaemonInv`: the promoted heads that had a window are before the head in hand, or not
  after it while it is waited for, a head that is not promoted is held until the first
  window on it and never again, and heads once made stay as they are (`OneWindow`). It
  rests on the assumption that a sync does not go back behind a promoted head. The
  types these need are parts of the invariants.

Every safety invariant and every action property that a passing run checks is stated
by a theorem. Only model-checked: the liveness properties (`CallsReturn` of the pool and
of the caches, `FailureDowngrades`, `RecoversWithMemory`, `WaitEnds`,
`MirrorCatchesUp`), the fairness of the refinement `FeedSpec`, whose safety part is
proved, and the absence of deadlock in the monitor and the peer network, all of which
rest on fairness or on `ENABLED`. The violations are instances and need no proof.

## Not modelled

* Numerics (model, kernels, losses, optimizers, evolution strategies, metrics, reward
  and policy arithmetic), configuration and file formats, corpora and tokenizers, the
  ruliad generators and oracles, generation and evaluation: sequential, and correct or
  not by arithmetic. They are most of the repository's lines, which is why the share of
  the code that the modules cover is small.
* burn_p2p and burn_pc are dependencies that are not in the repository; the modules
  have the calls they receive and the answers they may give.
* Of the training loop: the arithmetic of a step, growing the network between epochs,
  rescaling the batch, an explicit stop, the loop built on burn's `Learner`.
* Of the loaders: the tokens of a batch, slices over several devices (`slice()` gives
  every replica a loader that samples by absolute step from 0), two iterators at once.
* Of the peers: DiLoCo rounds, the validator daemon, login, connectivity, the
  re-binding of a storage root to another identity, two processes over one
  downgrade file; the browser's page, which is callbacks of one thread.
* Run directories and checkpoint parts: check-then-create and check-after-read, each
  two lines that a model could only restate.

Things met on the way that no run states as a disagreement, since no document
promises otherwise: trainer roles asked for in due form may arrive after a later probe
failed, when the call timed out and the node was slow; a peer that a late downgrade made
read-only stays so, with a monitor that takes it for a trainer, if another error has
replaced the fit failure on the node; the mirror compares nothing with the directory and does not repair
an entry that another writer's old copy replaced, or whose answer it lost, until the next
promotion or restart; a mirror that can neither restore nor sync initialises a genesis
head and may register it in place of a newer one it cannot fetch; the filter named after
visible promoted announcements does not look at promotion; train-window-once registers
its own head before anybody has promoted it; a daemon that started from such a head
takes the older canonical one for the advance it waits for; a daemon's error of settlement is put off
to the next pass while an error of its sync ends it; and training that is resumed from
its latest bundle after an exact resume had passed over that bundle may be asked
to roll back to an epoch that is no longer there, and then ends with an error; so does
training of a model with a teacher that is resumed after a prune and a save were both cut
short, when it rolls back to an epoch of which that prune left the model without its
teacher.

## Plan

Done, in this order: the prefetch pool with its proofs, the document caches, the
capability monitor, the checkpoint bundle, the streaming loader with the live sampler,
context routing and the training loops, the stream batch plan, the peer network; proofs
of every safety property.

Next, by what they would add:

1. The progress lemmas under the liveness properties, as far as they can be said without
   `ENABLED`: what every step brings nearer, and that nothing takes it back.
2. The validator daemon and DiLoCo rounds in `PeerNetwork`, with promotion as the
   validator's own loop instead of the swarm's choice.
3. The prefetch pool over the live sampler, where workers sample in the order in which
   they claim; slices over several devices.
4. Two processes over one downgrade file, and the re-binding of a storage root.
5. Run directories and checkpoint parts, if a bounded question about them is worth a
   run.
