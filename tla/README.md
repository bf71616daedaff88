# TorchRL's shared state: TLA+ models and proofs

TLA+ specifications of the parts of TorchRL that keep state several actors share:
the replay buffers (records, the handles clients hold on them, threads that wait,
prefetch and update), the request/reply mailbox and the inference server behind it,
the collectors and their worker processes, and the checkpoints of a training run.
TLC checks the specifications on small instances; TLAPS proves for every instance all of
the safety the runs check, but for one formula with `ENABLED`: the ring writer's handles and
its window of recent records, calls that take effect in one step, consuming buffers, epochs
that stay apart, locks and wake-ups, the order of asynchronous updates, the rate limit,
requests and replies, the collectors' batches and pauses, and the rotation of checkpoints.

1. [The system](#1-the-system)
2. [Modules and the code they model](#2-modules-and-the-code-they-model)
3. [Runs](#3-runs)
4. [Bounds and fairness](#4-bounds-and-fairness)
5. [Proofs](#5-proofs)
6. [What the models found](#6-what-the-models-found)
7. [Not modelled](#7-not-modelled)
8. [Plan](#8-plan)

To check one run: `tlc -config ring.cfg GenerationRing`; a proof module:
`tlapm GenerationRingProofs.tla`. `PROJECT.json` lists the runs with their modules,
the source lines of every definition, and, for every property, a variant of the code
(`X_Something`, beside `X`) with which it is violated.

## 1. The system

TorchRL collects experience in (vectorised) environments, keeps it in replay
buffers, and trains policies on batches drawn from them. The state that outlives a
call, and that several actors share, is mostly in the replay buffers and in the
protocols between processes.

### Replay buffers

A `ReplayBuffer` (`replay_buffers/base.py`) composes a *storage*, a *writer*, a
*sampler*, a *transform*, and guards them with `_replay_lock` and `_write_lock`
(always taken together), `_futures_lock` for the asynchronous part, and
`_readiness_condition` for waiters.

| Component | State | Operations | Interacts with | What is hard | What makes it correct |
|---|---|---|---|---|---|
| `RoundRobinWriter` on a `TensorStorage` | cursor and `_write_count` per writer; `_len`, the tensors and the generation stamps per storage | `add`, `extend`, `write_at`, `_empty`, `generations_of`, `state_dict`, `load_state_dict` | several writers (buffers) may share a storage; stamps are kept on the storage for that reason | slots are reused while clients hold handles; one call may write a slot twice; handles outlive `empty()` and restores | a handle reads as live exactly while its slot holds the sampled record; the newest `Capacity` records are kept, in order |
| Conditional updates (`update_if_present`) | the stored version field | `update_if_present` with or without versions, rows in any order and repeated | handles from `sample` | one call with several rows for a slot; retries; outdated updates | patches land on sampled records only; versions never go down; the returned masks are true |
| Locks of a buffer | `_replay_lock`, `_write_lock` | every call | threads | the stamps are compared, then the patch applied | calls are atomic; nobody writes in between |
| Readiness | `_readiness_condition`, `_service_shutdown`, counters | `wait_until_sampleable`, notifications of every write, `load_state_dict`, `shutdown` | takes the replay lock under the condition; loads also take the futures lock | lock order, lost wake-ups, deadlines and cancellation | no lock cycle, no lost wake-up; bounded waits and shutdown end |
| Prefetching | `_prefetch_queue`, the pool | `sample`, `__iter__`, `_restore_prefetch_queue_locked` | the sampler's `_remaining_batches` and `ran_out`, which the pool changes | the refill loop reads them without the lock they are changed under | an iteration returns every item once and ends |
| Asynchronous updates | `_pending_update_futures`, `_sample_dependency`, the update thread | `submit_update_if_present`, `synchronize`, `shutdown` | the prefetch queue: updates wait for it, later samples wait for updates | order by futures alone, failing operations, shutdown in the middle | updates and samples run in the documented order; nobody is stuck |
| `RateLimitedReplayBuffer` | reservations, counters of written and returned records | `sample(wait=...)`, `can_sample`, restore | readiness and the base class's `sample` | check, draw, count and release are four critical sections | the ratio is kept, reservations are given back, waiters are served |
| `ConsumingSampler` | sample counts, live mask, free list and its head | `sample`, `_pop_consumed_indices`, `mark_update`, `_empty`, checkpoint | the buffer's `_extend` takes slots from the free list; other writers through `mark_update` | a slot's life goes through five structures | every record is sampled `MaxSampleCount` times at most, no slot is lost or used twice |
| Prioritized, slice, staleness, streaming samplers | segment trees, trajectory caches | `sample`, `update_priority`, `mark_update` | the storage's writes | priorities for slots that were rewritten | sampling weights match the records |
| Max-value writer, ensembles, other storages | heap; delegation | `add`, `extend`, ... | as above | heap and slots must agree | the best records are kept |

### Around the replay buffers

| Component | State | Operations | What is hard |
|---|---|---|---|
| `_comm/mailbox.py`, services | request queue, one reply queue and a buffer of early replies per client | `submit`, `result`, `done`, `drain`, `resolve` | timeouts and late replies, threads that share a client, a peer that dies |
| Inference server | serve loop, command queue, liveness flag and its monitor thread, version mirror | `start`, `shutdown`, `update_model_weights`, request, batch | requests that race with shutdown; a process that dies with requests in hand; queues that outlive it |
| Collectors | worker processes, pipes, the output queue, shared buffers | iterate, `start`, `state_dict`, `reset`, `map_fn`, `pause`, `shutdown` | messages during a rollout, a full queue, words of pause between outputs, workers that crash |
| `ParallelEnv`, `AsyncEnvPool` | shared buffers and done flags, pipes, the busy set | `step`, `reset`, `async_step_send/recv` | timeouts that leave flags behind |
| Weight synchronisation | instruction, weight and acknowledgment queues, a receiver thread | `send`, `receive` | late weights, missing acknowledgments |
| Checkpoints of a run | files, hidden stages and backups, `_last_step` | `save`, `prune`, `restore` | deaths between renames and removals, restarts from any checkpoint |
| Trainer | `collected_frames`, `_last_save`, the stop request | the saves at the boundaries of `train` | what a restored trainer saves next; the end of an asynchronous loop |
| Losses, networks, specs, transforms, rendering | none that is shared | | numerical or sequential code |

They compose as follows. A trainer iterates a collector, whose workers write to a
replay buffer or to the collector's output queue; it samples the buffer, and at the
boundaries of its loop it pauses the collector, asks every component for its
`state_dict` and publishes them as one checkpoint. Policies run in the workers or in an
inference server the workers call through the mailbox. The composition modelled as
one state machine is that of the collector's coordinator with its workers
(`MultiCollector`) and of the trainer's or script's loop with the rotated directory
(`CheckpointRotation`); the others meet at interfaces the properties are stated at
(handles, replies, batches).

The hazards of this code, at the lines where they bite and with the properties
that would catch them, are listed in `PROJECT.json`.

## 2. Modules and the code they model

Each module's header says what one action is. Common abstractions: a record is a
number that identifies it, never its content; a batch is the set or tuple of its
slots; storages are one-dimensional (a multi-dimensional one is its slots along
dimension 0). Ghost variables, which the code does not have, are named in the
modules' VARIABLES as histories.

**`GenerationRing`** (writers/round_robin.py, storages/tensor.py,
`update_if_present` in base.py). One action is one call under the buffer's locks.
`cursor`, `writeCount` are per writer; `len`, `installed` (there is a generation
buffer), `gen`, `rec`, `version`, `patchedBy` belong to the storage; `batch` holds
every client's handles. `Write` is `add`/`extend`, including an extend longer than
the ring, whose duplicated slots torch may fill from any of the rows
(`Placements`); `WriteAt` is `write_at`; `Empty` advances the stamps;
`Sample` hands out handles; `UpdateIfPresent` and `UpdateIfNewer` are
`update_if_present` without and with versions, in both comparison modes. A writer outside `Tracking` does not
install the generation buffer but bumps one that is there.

**`GenerationRingCheckpoint`** adds `state_dict`/`load_state_dict`, with a checkpoint
that has stamps or has none. **`RecentWindow`** is its abstract specification: a
first-in first-out window of the last `Capacity` records with clear, keep, restore.
The refinement (`KeepsTheMostRecent`) reads the window off the ring in the order in
which the cursor will overwrite it.

**`LockedRing`** splits `extend`, `sample`, `update_if_present` and `empty` into the
shared accesses they make in the order of the code: advance the cursor, store, bump the stamps;
choose, fetch with stamp; compare, patch; rewind, drop. A buffer is
alone or shares the storage with others; each has its own lock. With one buffer it
implements `GenerationRing` (`CallsAreAtomic`, the refinement shows the state before
the call until the lock is released).

**`ReplayReadiness`** has one thread per call and the three locks. Waiters take the
condition, probe under the replay lock, and sleep; writers and consumers change the
buffer under the replay lock and then notify; `load_state_dict` runs under the
futures and the replay lock and, in a buffer of one process, sets counters under the
condition; `shutdown` sets its flag under the futures lock and notifies.
`StateLoaders` are `load_state_dict`, `DiskLoaders` are `loads`.

**`EpochPrefetch`** has a consumer (`__iter__`, `sample`, the refill loop with its
two unlocked reads as two steps) and a pool that runs the requested draws
in any order. `sampler` is the remaining set of indices, `_remaining_batches` and
`_ran_out`. The save/restore of the sampler, without `_remaining_batches`, and of the
drawn queue are included. Two histories say what an iteration should return: `epoch` is what
was returned of the epoch under way, and starts anew also when plain calls of `sample` have
returned a whole one; `regular` says that no call since the last complete iteration was
misled, by counters that promise more than a restored list holds (`Misled`) or by `__iter__`
clearing the flag of an epoch that is still in the queue (`EpochIsQueued`). Checkpoints
carry both.

**`OrderedUpdates`** has callers, a prefetch pool of `cap` threads, the update
thread, and futures with their dependencies. `_futures_lock` is explicit because
callers wait for futures while they hold it.

**`RateLimitedBuffer`** has samplers that reserve, draw, count and release in
separate steps, writers, `empty`, both steps of `load_state_dict`, and `shutdown`.

**`ConsumingBuffer`** has the counts, the live mask, the free list, the ring it falls back to, a
second buffer's writes, and checkpoints. **`ConsumingPool`** is its abstract
specification: a pool of records with uses left, where a write gives up unconsumed
records only when it must. The free list is kept with its stale entries, which the
code discards when it pops them.

**`InferenceService`** (`_comm/mailbox.py`, `_server.py`, `_comm/command.py`) has client
threads that submit, wait in intervals, take replies or put those of others aside; the
serve loop (wait for work, drain, accumulate, run the model, answer, drain on shutdown);
the owner (`start`, `update_model_weights`, `shutdown`) and its monitor thread; and
`Kill` at any point, after which the queues hold what they held, less what the process
was still writing.

**`CollectorWorkers`** (`_runner.py`) is the loop of the worker processes: `worker`
says where each is and what `_main_async_collector` remembers (`msg`,
`has_timed_out`, `run_free`), `pipe`, `reply` and `outQ` are its channels, and an
output is *intact* while its worker has not begun to write over the memory they
share. **`MultiCollector`** (`_multi_base.py`, `_multi_sync.py`, `_multi_async.py`)
composes it with the coordinator: iterating, calls that ask every worker, free running,
pausing and giving up a pause, the detection of dead workers, and shutdown. `pause` waits
30 s for each "paused" (`_multi_base.py:1807`), and a worker looks at its pipe only between
two rollouts: `PauseUnanswered` is the `TimeoutError`, with every worker alive. The
workers that pause later than that still put "paused" on a queue of length one that nobody
reads: the first waits for a "restart" in vain, the others end by `queue.Full`.

**`CheckpointRotation`** (`_checkpoint.py`, `trainers.py`) is a training loop and its
directory. `files` are the checkpoints as their manifests tell; a save goes through
`Boundary` (is it due?), `Write` (the hidden stage and its manifest), `Publish` and
`Replace` (the renames of `_publish_path`), `RemoveAlternate`, `Prune` (one removal at a
time) and `Saved`; `Die` may come before each, and `Start` takes any checkpoint, or none.
`loop` selects a script with a `RunCheckpointer` or a synchronous or asynchronous
`Trainer`, which differ in when a save is due and in what they remember of it.
**`CheckpointStore`** is its abstract specification: a checkpoint leaves the directory
only if a later one of its step is there, if `KeepLast` later steps and a better one
are, or while its own step is being saved again.

`MCLockedRing` and `MCEpochPrefetch` define the instances that need a function
or a symmetry set. `GenerationRingProofs`, `LockProofs` (of `LockedRing` and
`ReplayReadiness`), `ConsumingProofs`, `PrefetchProofs` (of `EpochPrefetch` and
`OrderedUpdates`), `RateLimitedProofs`, `InferenceServiceProofs`, `MultiCollectorProofs` and
`CheckpointRotationProofs` hold the proofs. Two specifications that one of them extends have
no name in common: `LockedRing` has `LInit`, `LSpec`, ..., `OrderedUpdates` `UInit`,
`USpec`, ....

## 3. Runs

| Run | Shows | Instance | Distinct states |
|---|---|---|---|
| `ring` | handles are live exactly while their record is stored; patches land only on sampled records; versions never go down; the masks are true | 2 slots, extends of up to 3 rows, 2 writers (one does not track), 1 client with batches of 2, versions 0 and 1, 3 records | 31 thousand |
| `ring_checkpoint` | implements `RecentWindow`; only written slots are readable; handles taken after a restore are sound | 3 slots, 4 records, one checkpoint with or without stamps | 247 thousand |
| `locked_one_buffer` | calls of threads are atomic | 2 threads, 2 slots, 4 records | 23 thousand |
| `readiness` | no lock cycle, no lost wake-up; bounded waits end, and shutdown ends all | any 3 of 7 calls, shared buffer or not | 25 thousand |
| `epochs` | iterations before which no call was misled return each item once and end; nothing is drawn ahead | 5 items in batches of 2, queue of 2, one plain sample, one restore, 2 iterations | 698 thousand |
| `updates` | documented order of samples and updates; nobody is stuck | 2 callers, queue of 0 or 2, one failure, 4 futures and the refills | 423 thousand |
| `rate_limit` | the ratio, the reservations, the waiters | 2 samplers, batches of 2, 3 records, one restore | 293 thousand |
| `consuming` | implements `ConsumingPool`; the free list is exact | 3 slots, 2 uses per record, 5 records, one restore | 153 thousand |
| `service` | no request is lost, duplicated or answered twice; no call gets another's answer; every wait ends | 2 threads sharing a client, 2 requests, batches of 2, one weight update, one kill, 2 starts | 157 thousand |
| `collectors` | batches are whole and intact; pausing parks every worker; nothing but a crash, or a pause that took too long, makes the protocol fail; every wait ends | 2 workers, all three styles, with and without a replay buffer, one crash, the calls the protocol supports | 30 thousand |
| `checkpoints` | implements `CheckpointStore`; what was saved is what a restart finds; a death loses one interval and one batch | 3 starts, 4 or 5 frames in batches of 1 or 2, the last 2 steps and the best kept, both formats, 3 loops | 2.4 million |
| `collectors_paused_save` | *violated*: see section 6 | 2 workers, `state_dict` while paused | |

Further instances show limits of the code that a user should know; TLC finds the named
property violated in each (`tlc -config <configuration> <module>`). The first group
contradicts documentation quoted at the property or in section 6; the second says what the
documentation is silent on.

| Configuration | Module, property | What it shows |
|---|---|---|
| `readiness_load_deadlock.cfg` | `ReplayReadiness`, `BoundedWaitsEnd` | see section 6 |
| `locked_two_buffers.cfg` | `MCLockedRing`, `PatchTargetStillThere` | see section 6 |
| `epoch_overrun.cfg` | `MCEpochPrefetch`, `EveryIterationIsOneEpoch` | see section 6 |
| `consuming_shared.cfg` | `ConsumingBuffer`, `EveryRecordIsStored` | see section 6 |
| `checkpoints_republish.cfg` | `CheckpointRotation`, `SavesAreAtomic` | see section 6 |
| `service_restart_hang.cfg` | `InferenceService`, `EveryCallReturns` | a call whose request died with a process that was replaced at once hangs |
| `service_mirror.cfg` | `InferenceService`, `MirrorIsLive` | after a restart `policy_version` shows the version of the process before |
| `collectors_async_versions.cfg` | `MultiCollector`, `BatchIsReported` | `worker_policy_versions` between two asynchronous batches restarts workers whose output is still in the shared memory |
| `collectors_reset.cfg` | `MultiCollector`, `TimedOutRepeatsContinue` | `reset` leaves `has_timed_out` set, and the worker repeats the reset |
| `ring_restore_unstamped.cfg` | `GenerationRingCheckpoint`, `UnstampedLoadStartsFromScratch` | a checkpoint without stamps keeps the stamps of the running buffer |
| `epoch_short_batch.cfg` | `MCEpochPrefetch`, `BatchesAreFull` | the last batch of an epoch is short, not completed from a fresh permutation |
| `updates_skipped.cfg` | `OrderedUpdates`, `AcceptedUpdatesRun` | an update accepted after one that fails is skipped |
| `checkpoints_older_resume.cfg` | `CheckpointRotation`, `ReturnedPathExists` | a run resumed from an older checkpoint has what it saves pruned at once |
| `checkpoints_async_end.cfg` | `CheckpointRotation`, `EndsSaved` | an asynchronous loop may end without its final save |
| | | |
| `ring_restore_handles.cfg` | `GenerationRingCheckpoint`, `HandleSound` | a restore brings old stamps back, so a handle from before it can be live for another record |
| `readiness_loads_silent.cfg` | `ReplayReadiness`, `NoLostWakeup` | `loads` notifies no waiter, `load_state_dict` does |
| `epoch_restore.cfg` | `MCEpochPrefetch`, `EveryIterationIsOneEpoch` | an iteration over a buffer restored in the middle of an epoch can run into the next |
| `rate_limit_restore.cfg` | `RateLimitedBuffer`, `RatioKeptAcrossRestores` | a restore during a sample exceeds the ratio by that sample's batch |
| `rate_limit_sequences.cfg` | `RateLimitedBuffer`, `RatioKeptAcrossRestores` | a sample unit that expands records returns more than was reserved |
| `service_stale_command.cfg` | `InferenceService`, `CommandsAreCurrent` | a shutdown command a killed process did not take stops its successor |
| `collectors_async_state.cfg` | `MultiCollector`, `WaitsEnd` | `state_dict` between two asynchronous batches drops the rollouts the next batch waits for |

## 4. Bounds and fairness

Every counter that grows is bounded by a constant whose comment says "bound":
`MaxRecords`, `MaxStamp`, `MaxVersion`, `MaxCalls`, `MaxBatches`,
`MaxFutures`, `MaxFailures`, `MaxWritten`, `Checkpoints`, `Restores`, `Iterations`,
`PlainCalls`, `MaxRequests`, `MaxUpdates`, `MaxStarts`, `MaxKills`, `MaxCrashes`. The guards use them to end the history, not to forbid a case.

Why the instances are large enough:

- *Rings*: two slots and extends of three rows give wrap-around, an extend that hits a slot
  twice, and slots that are free, written once and rewritten. The clients'
  properties are about one handle at a time, hence one client, with two rows because
  duplicates within a call matter. The proofs of section 5 remove these bounds.
- *Readiness*: a lock cycle needs two threads and a lost wake-up three calls (a
  waiter, one that takes what it waited for, one that writes). More calls only
  repeat.
- *Epochs*: five items in batches of two have three batches, the last one short; a
  queue of two can hold an epoch's tail together with the next epoch's head.
- *Updates*: two callers, because the interleavings of interest are between one that holds
  the futures lock and one that does not; four futures give each kind two instances,
  and the refill adds two.
- *Rate limit*: two samplers compete for one batch; three records do not pay for two
  batches.
- *Consuming*: a batch of two in three slots leaves free-list entries on both sides of
  the head; two uses per record separate counting from consuming.
- *Service*: two threads on one client are what makes replies meet the wrong reader; two
  requests fill a batch or wait in two; one kill and two starts put a request on either
  side of a process's death.
- *Collectors*: two workers share an output queue of two (sync) or one (async), so one
  can fill it for the other; one crash, because a second adds no new wait.
- *Checkpoints*: three starts let a run be abandoned twice; four steps with the last two
  and the best kept make every removal happen; batches of one or two frames against an
  interval of one leave boundaries where no save is due.

Fairness is stated where a property needs it:

- `ReplayReadiness`: a thread that can run does (weak), a lock that keeps becoming free is
  eventually obtained (strong: CPython's locks are not first-in first-out but no
  waiter is refused for ever by the scheduler), and deadlines pass (weak).
  Nothing forces a call, a write, a cancellation or a shutdown.
- `EpochPrefetch`: the pool runs what was submitted; a consumer inside an iteration
  goes on. `RateLimitedBuffer`: calls under way go on, nobody need make another.
- `InferenceService`: the serve loop, the process's command loop, the monitor thread and
  the waits of a client go on (weak, each), and a client's response lock is eventually
  obtained (strong). Nobody need call, start, update, shut down or kill.
- `MultiCollector`: workers and a coordinator that waits go on, and it looks for dead
  workers in its waits (weak); nobody need make a call, pause or crash. `PauseUnanswered`
  has no fairness: that a wait for a pause ends does not rest on the 30 s.
- `OrderedUpdates` needs none: that nobody is stuck is an invariant about what is
  enabled. The other modules state safety only.

Deadlock is not checked in the runs of `ReplayReadiness`, `EpochPrefetch`,
`OrderedUpdates`, `RateLimitedBuffer`, `InferenceService`, `MultiCollector` and
`CheckpointRotation`, where everything may have returned or ended for good, or
waits for a call that nobody need make; their liveness properties and `NobodyIsStuck` take its
place. The other runs check it.

## 5. Proofs

`GenerationRingProofs` proves of `GenerationRing!Spec`, for every capacity, batch size,
number of writers, clients, records and stamps, from `RingAssumption` only:

| Theorem | Property |
|---|---|
| `TypeCorrect` | `TypeOK` |
| `HandlesAreSound` | `HandleSound` |
| `HandlesAreComplete` | `HandleComplete` |
| `PatchesLand` | `PatchesLandOnSampledRecords` |
| `VersionsAreMonotone` | `VersionsNeverRegress` |
| `ReportsAreTruthful` | `ReportsWhatItWrote` |

and of `GenerationRingCheckpoint!CSpec`, that is with saves and loads at any time:

| Theorem | Property |
|---|---|
| `FreshHandlesAreSound` | `FreshHandlesSound` |
| `NoGapBelowTheLength` (with `OneWriter`) | `ReadableSlotsAreWritten` |
| `TheMostRecentAreKept` (with `OneWriter`, `MaxBatch <= Capacity`) | `KeepsTheMostRecent`, a refinement |

`HandleSound` is not inductive: a handle that is ahead of its slot's stamp would become
live by a write. `SoundInv` adds that no handle is (`StampsBelow`) and that there are
no stamps before the generation buffer is installed. The argument: a write strictly
raises the stamps of the slots it hits (`BumpEffect`, through the number of rows
that hit a slot, `HitsCounted`), `empty` raises all of them, and nothing lowers one,
so after a slot is rewritten no handle to it can be live. `HandleComplete` needs the
converse: identities are handed out in order (`RecordsKnown`), so a slot that is hit
gets a record nobody has a handle on. The action properties follow from the two
invariants action by action.

A load may take stamps back, so `HandleSound` is false of `CSpec` (`ring_restore_handles`).
`FreshInv` is `SoundInv` for the clients that sampled since the last load, for which a
load starts from nothing. `ReadableSlotsAreWritten` becomes inductive as
`FilledFromStart`: a ring that is not full is filled from its first slot up to the
cursor; the same is said of the checkpoint, so that a load installs it. The refinement
needs no more than that. Its steps compare two readings of the ring as a sequence,
the slots from the cursor on: a write of `n` rows drops the first `n` of a full ring and
appends the new ones, whether or not the cursor wraps. Of an extend longer than the ring torch
may keep any of the rows that meet in a slot, hence `MaxBatch <= Capacity`; two writers on a
storage have two cursors, hence `OneWriter`. `ring_checkpoint` is an instance of both.

`LockProofs` is about the locks of a buffer. It proves of `ReplayReadiness!Spec`, for any
number of threads, from `ReadinessAssumption`:

| Theorem | Property |
|---|---|
| `ReadinessTypes` | `TypeOK` |
| `LocksAreOrdered` (with `LoadsAlone`) | `NoLockCycle` |
| `NobodySleepsUnnoticed` (with `LoadsAlone`) | `WakeUpsAreOnTheirWay`, the safety half of `NoLostWakeup` |

`LockInv` says which labels a thread holds the replay lock or the condition at
(`HoldersKnown`), that a thread's labels are those of its call (`RolesKept`), and that a
load that holds the replay lock is not under way beside a wait it can deadlock with
(`KeptApart`). Nobody else asks for one lock while it holds the other in the order opposite to
the waiters', so no circle of two can close. Without `LoadsAlone` the theorem is false: the
configuration `readiness_load_deadlock` shows the circle. `WakeInv` adds that a waiter holds the
condition from its probe until it sleeps (`ConditionHeld`), so a writer that changes the buffer
after the probe can only notify once the waiter is there to hear it (`SleepersHear`).

Of `LockedRing!LSpec` it proves, for any number of threads and records, from
`LockedAssumption`:

| Theorem | Property |
|---|---|
| `LockMakesCallsAtomic` (with `AloneOnStorage`) | `CallsAreAtomic`, a refinement |
| `PatchesHitTheirTarget` (with `AloneOnStorage`) | `PatchTargetStillThere` |

The atomic view shows the buffer as it was when the running call took the lock (`before`) and
what it is now when none runs, so every step but the last of a call must be a stutter, and the
last must be the whole of a step of `GenerationRing`. `CallInv` says what lies between
the two: only the thread that holds the lock is inside a call (`InsideHoldsLock`), and what
its call has done so far is what its label says (`DoneSoFar`: a cursor moved by `n`, records
stored at the rows computed from the old cursor, stamps still the old ones, a stamp
compared and still equal). `PatchInv` adds that the handles are sound of the atomic view
(`Sound`): what a write replaces it stamps anew before it gives up the lock. A patch
under way sees the buffer as it was when its call began, so the stamp it compared still
names the record. With two buffers on the storage, hence two locks, another call's step gets
in between (`locked_two_buffers`); `AloneOnStorage` excludes it.

`ConsumingProofs` proves of `ConsumingBuffer!Spec`, for every capacity, batch size, number of
uses of a record and of restores, from `ConsumingAssumption`:

| Theorem | Property |
|---|---|
| `TypeCorrectness` | `TypeOK` |
| `FreeListIsExact` (with `SlotsAreOwn`) | `FreeListExact` |
| `ImplementsThePool` (with `SlotsAreOwn`) | `ImplementsPool`, a refinement |

`SlotsAreOwn` says that the buffer is alone on its storage, or that the other buffer writes
where nothing is consumed. Without it both properties are false: the configuration
`consuming_shared` shows a consumed slot listed twice. `PoolInv` is the invariant, of the
buffer and of every checkpoint alike, so that a restore installs what it needs: the slots
below the length are live or used up (`Counted`), the used-up ones are in the free list once
and nothing else is (`Listed`), the ring fills the storage before it wraps around (`InRing`),
and no two slots hold the same record (`Distinct`). A write takes the first `n` reusable entries
of the list and, when they are too few, the next places of the ring that it did not take
already. `Nth`, the k-th smallest of a set, says both, and the lemmas about it (`Rank`) carry
the argument: the places chosen are distinct, no slot from the old length to the new one is
left out (`NothingLeftOut`), and what is left of the list is what was not popped
(`PoppedExact`). The pool maps every record that is not used up to its remaining uses
(`UsesOf`); the steps of the buffer then map one to one: a sample draws the same records, and
a write gives up the same ones, in a buffer alone on its storage none that it need not
(`WriteIsWrite`, `SampleIsSample`).

`PrefetchProofs` proves of `EpochPrefetch!Spec`, for every storage, batch size and
prefetch, with or without `drop_last`, and any number of calls, iterations and restores, from
`EpochAssumption`:

| Theorem | Property |
|---|---|
| `EpochTypeCorrect` | `TypeOK` |
| `TheEpochsStayApart` | `EpochsStayApart` |

An iteration ends when the sampler has run out and the queue is empty, which says nothing of
what the queue held before. `EpochInv` therefore accounts for every item of the epoch: until
its last batch is drawn (`InStep`) what was returned, the batch in hand, what is drawn
and the sampler's list are disjoint and make up the storage, and the requests not
drawn yet are no more than the batches in the list, because the consumer only adds one when
the counter it reads is not above that number (`Known`); afterwards (`Draining`) the
batches of the queue and those returned are the whole epoch and nothing else is
requested. Checkpoints keep the same accounts (`SavedEpochs`). An earlier form of the
property was bound to the one plain call and the one restore of the run, and the proof would
not close for more of them; the histories `regular` and `epoch` now say which calls mislead.

It proves of `OrderedUpdates!USpec`, for any callers, prefetch, number of futures and
failures, from `OrderedUpdatesAssumption`:

| Theorem | Property |
|---|---|
| `UpdateTypes` | `UTypeOK` |
| `UpdatesTakeEffectInOrder` | `UpdatesAreOrdered` |
| `PrefetchedServedInOrder` | `RequestsServedInOrder` |
| `SomethingAlwaysGoesOn` | `SomethingCanGoOn`, `NobodyIsStuck` without `ENABLED` |

`UpdatesAreOrdered` speaks of futures that are done; `OrderInv` says why they will be in
order when they are. The pool of the updates has one thread, so an update that has settled has
only settled ones before it (`UpdatesSettleInOrder`); to wait for one update is
therefore to wait for all before it. `_sample_dependency` is 0 only if no update is
pending, and is otherwise at least the last one that is (`Covers`), which is what a request, an
inline sample and a caller without prefetching each wait for (`RequestsWait`,
`CallersWait`). An update names what it found in the queue among its dependencies
(`UpdatesWait`), and a sample sees only updates that are done (`SeenAreDone`). Two lemmas carry
the steps: `SettleStep` for whatever a pool thread does, `GrowStep` for whatever a call
submits. `Covers` survives `synchronize` because no pending update is forgotten
(`PendingAreQueued`): what a call collects has settled (`UncollectedStay`).

`NobodyIsStuck` is about `ENABLED`, which the provers do not reason about;
`SomethingCanGoOn` says the same with the guards of the steps (`CanGoOn`) in its place. TLC
found the two equal in every state of the run. The argument: futures refer to
earlier ones only, so the smallest that has not settled has nothing to wait for; and if all
have settled, every wait for a future is over, so the caller that holds the futures lock goes
on, and if none holds it, everyone does (`GoingInv`).

`RateLimitedProofs` proves of `RateLimitedBuffer!Spec`, for any number of samplers and
writers, any ratio, batch size and capacity, from `RateAssumption`:

| Theorem | Property |
|---|---|
| `RateTypeCorrect` | `TypeOK` |
| `ReservationsAreHeld` | `ReservationsHeld` |
| `RatioIsKept` (with `UnitLength = 1`) | `RatioKept` |
| `NobodySleepsOnABudget` | `SleepersAreNotified`, the safety half of `WaitersServed` |

Here `RatioKept` becomes inductive with what is *owed*: a batch for every sample that is
reserved but not counted yet. `RatioInv` says that what was returned and what is owed
is paid for, up to the slack of restores, now and in every checkpoint; that a
batch drawn is no longer than its reservation (this is where `UnitLength = 1`
is needed); and that the writer's count, which the budget is computed from, never exceeds what
was written. `ReservedIsPaidFor` is the heart: reservations cover the samples under way (`HeldInv`), so
the budget a reservation is granted from accounts for everything owed. That waiters are served
is liveness; `SleepersAreNotified` is what it rests on: while a sampler sleeps although its
sample is permitted, a writer has yet to notify.

`InferenceServiceProofs` proves of `InferenceService!Spec`, for any clients and threads,
batch sizes, kills and restarts, from `ServiceAssumption`:

| Theorem | Property |
|---|---|
| `ServiceTypes` | `TypeOK` |
| `AnswersAreTheirOwn` | `RepliesMatchRequests` |
| `RequestsAreNeitherLostNorDoubled` | `EachRequestInOnePlace` |

What is returned comes from the response queue or from the replies put aside, so the
invariant `GenuineInv` says of all three that a reply carries the request whose id it
has. The server keeps it because it resolves the head of the batch with what the model
computed for that head; a kill only shortens sequences, a restart only empties the
server's own. `EachRequestInOnePlace` counts: `PlacesInv` adds up how often a request is
queued, peeked, in the batch, answered, put aside, returned or lost, and the sum is one from
the moment it was submitted. Every step moves an occurrence from one place to another.

`MultiCollectorProofs` proves of `MultiCollector!Spec`, for any number of workers and
crashes and any sets of calls, from `WorkersAssumption` and `CallsAssumption`:

| Theorem | Property |
|---|---|
| `CollectorTypes` | `TypeOK` |
| `PauseParksWorkers` | `PausedMeansParked` |
| `BatchesAreReported` (with `CallsKeepTickets`) | `BatchIsReported` |
| `SyncBatchesAreReported` | `BatchIsReported`, of synchronous iterations |
| `OnlyCrashesAndLatePausesFail` (with `CallsNeverFail`) | `NothingElseFails` |

`PausedMeansParked` is a fact about one moment, and `PauseInv` about all that leads to
it. While the coordinator waits, nothing follows "pause" in a pipe, so that a worker
that takes it up has no message left, in particular no "restart" of an earlier pause;
an unread "paused" is the only one of its worker, who is parked and still awaited; and
the workers no longer awaited are parked, with nothing but requests in their pipes,
none of which makes a worker collect. Before a pause there is no "pause" in any pipe and
no "paused" on the queue. `WorkerEffect` says what the fifteen steps of a worker have in common, so
that each part of `PauseInv` needs one argument for all of them.

A worker writes its rollouts over the same memory, so a batch is intact only if no worker
was told to go on before its output was taken. `TicketInv` says that each worker has one
*ticket* at most: the word to go on in its pipe, the rollout it is busy with or has to
repeat, its output in the queue or in the coordinator's hands; and none between two
synchronous batches. `CallsKeepTickets`
excludes what breaks this: a call between two asynchronous batches that restarts running workers
(`collectors_async_versions`). `FailInv` adds that every message is one that its receiver
knows where it is and that every answer is awaited, and that after a pause that gave
up, a worker whose "paused" is unread has nothing in its pipe and stays (`LateWordStays`), so
that a worker that ends there finds the word of one that lives. `CallsNeverFail` excludes a
`reset` between asynchronous batches (`collectors_reset`) and requests a paused worker does
not know (`collectors_paused_save`). The run `collectors` satisfies both hypotheses.

`CheckpointRotationProofs` proves of `CheckpointRotation!Spec`, for any retention,
interval, batch size, metrics and number of starts, from `RotationAssumption`:

| Theorem | Property |
|---|---|
| `RotationTypes` | `TypeOK` (one file for each step and format) |
| `SavedCheckpointIsFound` | `SavedIsFound` |
| `DeathLosesOneInterval` | `LossIsBounded` |
| `RotationImplementsStore` | `ImplementsStore`, a refinement |

The refinement rests on `SaveInv`: the checkpoint being saved is later than all others,
times of saving are distinct, and the backup exists only between the two renames, when
nothing else is at its path. `DoomedMayGo` carries the retention policy over: the later
steps that doom a checkpoint are counted in `CheckpointStore` by their numbers and in
`prune` by their latest records, and the two counts agree because a step has one latest
record. `SavedIsFound` and `LossIsBounded` are not inductive: they need that nothing in the
directory is ahead of the program (`AheadInv`), and what the loop remembers of its last
save against what is there (`LossInv`).

Only model-checked:

- the liveness properties: temporal reasoning under fairness is out of the provers' reach
  (of `NoLostWakeup` and `WaitersServed` the safety they rest on is proved);
- `NobodyIsStuck` as it stands, with `ENABLED`.

The proofs remove the bounds on constants; they are about the same definitions the runs
check.

## 6. What the models found

| Configuration | Source | Disagreement |
|---|---|---|
| `collectors_paused_save` | `_runner.py:314` | A trainer pauses an asynchronous collector while it writes a checkpoint (`trainers.py:1250`), and the checkpoint asks the collector for its `state_dict`; a paused worker knows no such request and ends with an error. |
| `readiness_load_deadlock` | base.py:2083 | `load_state_dict` takes the replay lock and then the condition, a waiter takes them the other way round: both hang, whatever the timeout (base.py:1206 promises "`False` after a timeout or cancellation"). |
| `locked_two_buffers` | base.py:1630 | Buffers that share a storage share its stamps but not a lock: one overwrites a slot between the other's comparison and its patch, and the patch lands on a record nobody sampled. The documentation promises handles that are safe for buffers sharing a storage. |
| `epoch_overrun` | base.py:2792 | `__iter__` forgets that the epoch has run out although its tail is in the prefetch queue; the iteration goes on into the next epoch. |
| `consuming_shared` | samplers/random.py:208 | A consumed slot that another buffer rewrote is listed as free twice once it is consumed again; one extend then stores two records in it. |
| `checkpoints_republish` | `_checkpoint.py:1424` | "Save selected registered components atomically" (`_checkpoint.py:918`): a save over an existing checkpoint renames that one away first, and a death before the second rename leaves neither. |

## 7. Not modelled

- *In the replay buffers*: data that torch rejects after a writer moved its
  cursor; multi-dimensional storages beyond their slots; a storage that grows during
  an epoch, `empty()` under prefetching; staging of CUDA inputs; consuming checkpoints
  of the older format without a free list; `empty()`'s notification in
  `ReplayReadiness`, which can make no waiter ready (it is an action of
  `RateLimitedBuffer`).
- *In the service*: the lock of a `multiprocessing.Queue` a killed process may have held;
  a thread waits for one future at a time; an update of the weights and its application
  are one step; `resolve` does not fail in the middle of a batch; the slot transports,
  servers that are threads of their owner, Ray and Monarch.
- *In the collectors*: what a rollout computes, random frames, preemption of slow workers,
  the limit on idle polls, the older "update" message, the background threads that
  receive weights, the start-up handshake, and terminating a process that does not end. A
  coordinator that waits for paused workers reads their words within the `_TIMEOUT` of the
  worker's `put` (that these words come within the 30 s of `pause` is not assumed). The time
  a coordinator waits for a batch, `MAX_IDLE_COUNT` seconds, is unlimited by default
  (`_constants.py:46`) and is so here. A caller starts the workers once, and after an
  exception of the coordinator it only shuts down: a second `pause` after one that gave up
  would end the workers that did pause (`_runner.py:314`).
- *In the checkpoints*: what adapters write, and versions of their formats. It is assumed
  that clocks do not go back, that what a process wrote before it died is on disk, and that
  a directory has one writer. `KeyboardInterrupt` between the renames is not `Exception`,
  so it removes the backup: it is a death there. Hidden files that a death leaves
  are not counted, nobody reads or removes them.
- *Numerical code* (losses, value estimators, networks, distributions): floating-point tensors
  without shared state, out of TLC's reach.
- *Adapters and input/output* (environment libraries, transforms, specs, rendering, recording):
  the state is the simulator's or the file's.
- *Random drawing*: which item a sampler draws is a free choice everywhere.
- *Distributed and Ray variants*: they forward to services outside the repository.
- Prioritized sampling, the max-value writer, the vectorised environments and the
  weight synchronisation schemes, which the plan takes up.

## 8. Plan

In this order; each item says what is worth checking and proving.

1. **Weight synchronisation** (`_mp.py`, `_shared.py`): queues and acknowledgments; the
   worker's weights after `send` returns; a receive that times out.
2. **ParallelEnv and AsyncEnvPool**: done flags across a timeout, the busy set.
3. **Prioritized sampling** (`prioritized.py`, `segment_tree.h`): the sum and the min
   tree as functions of the leaves; a priority update for a slot that was rewritten; the
   maximal priority after the slot that had it is overwritten.
4. **Max-value writer and ensembles**: the heap and the slots.
5. **More proofs**: what is left of the safety that runs check is `NobodyIsStuck`; the
   liveness properties need provers that reason about fairness and `ENABLED`.
