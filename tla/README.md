# A TLA+ model of tokenx

tokenx reads the transcripts that coding assistants leave on disk, turns them into usage
records, prices and aggregates them, and shows the result in a terminal session or a report.
This directory holds TLA+ modules for the parts of it whose correctness depends on the order
of events: the refresh lifecycle of the session, its cache file, the cache of decoded inputs,
the resumable parsing of Claude and Codex transcripts, the subscription fetches, and the atomic
file replacement every cache stands on. TLC checks the modules on small instances; TLAPS proves
the safety properties of the refresh lifecycle, of the atomic writer, of the generation cache, of
the input-record cache, of the subscription fetches and of the append parsing of Claude's and of
Codex's transcripts, and three of the refinements, for every instance.

`T` stands for `src/crates/tokenx/src/` and `E` for `src/crates/tokenx-engine/src/`.

## 1. Inventory

### Components

| Component | Where | State | Operations | Modelled |
|---|---|---|---|---|
| Refresh lifecycle | `T tui/{mod,generation_controller,task_supervisor,startup,local_usage,event}.rs` | requests and loads in flight, retry schedule, installed generation, worker channels, writers gate, cancellation | event loop iteration, refresh requests, load, install, draw, persist, pricing refresh, shutdown | yes, without the projections of `local_usage.rs` |
| Generation cache | `T generation_cache.rs`, `T commands/cache.rs` | one file: header with the retry schedule, and the generation | load, save, warm | yes |
| Atomic files | `E fs_atomic.rs` | target, temporary files, name counter | durable and visible replacement | yes |
| Input-record cache | `E input_record_cache/`, `E integrations/{cache,mod,runtime}.rs`, `E acquisition.rs` | one shard per input; per acquisition: units, store (deleted, invalidated, taken, protected) | inventory, plan, scan, fold, replace, unlink, prune | one-file inputs, full scans |
| Acquisition engine, generation, health | `E engine.rs`, `E generation.rs`, `E input_health.rs` | prepared inventory, health of inputs | prepare, build, cancel | as seen by the two rows above |
| Append parsing | `E integrations/claude/incremental.rs`, `E integrations/codex/mod.rs` | shard with a checkpoint: verified prefix and parser state | plan, verify, resume, fall back, recover, cache, condemn | yes, without archives and sidecars |
| Decoders and merges | `E integrations/*` | parser state from line to line; none across acquisitions | decode, reconcile, deduplicate | the parser state of Claude and Codex; not the other formats, nor merges across files |
| Subscription usage | `T subscription/`, `T tui/model.rs` | fetch state, outputs, disk cache with its age | request, fetch, poll, merge, retain, save | yes, without the providers' HTTP clients |
| Pricing | `E pricing/` | catalogs, source order, overrides | resolve, rate, refresh | no |
| Aggregation | `E aggregate/`, `E projection.rs` | usage index | push, project, refold | no |
| Frames and pages | `T tui/{frame,model,page_state,render_artifacts}.rs` | frame artifacts, page states, dialogs | key, click, reconcile | no |
| Records and identities, settings, command line, reports, packaging | the rest | tables and files | parse, validate, format | no: sequential, covered by the unit and command-line tests |

### How they interact

```
 keys, clock, inputs                    remote catalogs
        |                                     |
   event loop  <--- channels ---  startup / acquisition / persistence / pricing workers
        |                              |            |               |
 GenerationController             loads cache    AcquisitionEngine   saves cache
        |                              |            |               |
   local usage (installed)      generation cache   shard store   generation cache
                                       \            |               /
                                        `------ fs_atomic ---------'
```

- The loop is one thread. It polls the channels of the workers, consumes requests, starts
  workers, draws, and only then hands the installed generation to a writer.
- Workers share nothing with the loop but their channels, the cancellation flag and the
  writers gate (a mutex). Their results carry the number of the request they answer.
- The generation cache file, the shards and the subscription cache are shared with other
  processes (a second session, `tokenx cache warm`, `tokenx cache prune`) without any lock: only
  the atomicity of rename holds between them.
- The subscription fetch is a task of its own, with its own channel and its own cache file; it
  meets the refresh lifecycle in the event loop only.
- Transcripts belong to other programs, which write them while they are parsed.

### What is hard here

Concurrency inside one process (the workers, results that are late or superseded, shutdown
beside a writer), concurrency between processes (shards replaced, pruned or damaged between
planning and reading them; name collisions of temporary files), crashes and power loss (retry
schedules that must survive them), time (retry delays, a clock that is set back, midnight),
inputs that change while they are read, and failures in the middle of a sequence that must
degrade and not corrupt. `PROJECT.json` lists these hazards at their lines, with the
properties that cover them, and says of the others why they have none.

### What makes each component correct

- **Refresh lifecycle.** One load or write at a time; results meet the request they answer;
  the retry schedule belongs to the installed generation; nothing unseen is saved; nothing is
  saved after shutdown has drained; a display is never emptied or set back by a failure; manual
  requests run; the display converges to the context the user chose and the file to the display.
- **Generation cache.** What this version writes it can read; the schedule escalates across
  restarts, saturates, and never defers a retry by more than its cap; a file from the future
  defers nothing; an acknowledged schedule survives a power loss.
- **Atomic files.** Readers see whole files; an answered durable write survives; errors clean
  up; every call ends.
- **Input-record cache.** It is invisible: whatever happens to the shards, an acquisition
  reports what it could have reported without them. Shards are sealed (records match stamp),
  a replacement by another process is not destroyed, and quiet inputs end up cached.
- **Append parsing.** A resumed parse equals a full one: what is cached, checkpoint included, is
  what a full parse of the stamped text leaves, and a report that calls itself complete is that of
  a full parse, whatever is written, rewritten, replaced or moved back meanwhile.
- **Decoders.** A response counts once, whichever of its records, counts, copies and snapshots
  come, in which order, and on which side of a checkpoint.
- **Subscription usage.** One fetch at a time; every provider is answered for; what was not renewed
  is marked; nothing on the screen is set back; the disk mirrors the screen; every fetch settles.

## 2. Modules

| Module | Models | Role |
|---|---|---|
| `PublishedGeneration` | the promise of the session: what is shown and what is durable | abstract specification |
| `RefreshLifecycle` | event loop, controller, supervisor, workers | detailed, refines `PublishedGeneration` |
| `RefreshLifecycleProofs` | | theorems about `RefreshLifecycle` |
| `AtomicFile` | the promise of `fs_atomic.rs` | abstract specification |
| `FsAtomic` | every system call of `fs_atomic.rs` and the file system under it | detailed, refines `AtomicFile` |
| `GenerationCache` | `generation_cache.rs` and the processes that share the file | composed with `AtomicFile` (`Disk == INSTANCE AtomicFile`) |
| `CachelessAcquisition` | what an acquisition may report of each input, said without a cache | abstract specification |
| `ShardCache` | acquisitions through the input-record cache, prune, changing inputs | detailed, refines `CachelessAcquisition` |
| `TranscriptFile` | a transcript on disk and how it is read line by line | the world of the two append modules |
| `ClaudeTranscript` | the parser of `claude/decode.rs` as a fold over lines | pure functions, with what a message means without a parser (`Declared`) |
| `ClaudeAppend` | `claude/incremental.rs` | extends the two above |
| `CodexTranscript` | the parser of `codex/decode.rs` as a fold over lines | pure functions |
| `CodexSession` | what a Codex client writes, and what it has used by then, told without a parser | reference for `CodexTranscript` |
| `CodexAppend` | `codex/mod.rs` | extends `TranscriptFile` and the two above |
| `SubscriptionUsage` | the fetch lifecycle of `subscription/`, of the tab and of its disk cache | |
| `FsAtomicProofs`, `GenerationCacheProofs`, `SubscriptionUsageProofs` | | theorems about `FsAtomic`, `GenerationCache` and `SubscriptionUsage` |
| `TranscriptProofs` | | induction over numbers, what is read next of a transcript, and what changes of it leave true |
| `ClaudeAppendProofs`, `CodexAppendProofs` | | theorems about `ClaudeAppend` and `CodexAppend` |
| `ShardCacheProofs` | | theorems about `ShardCache`, and that it implements `CachelessAcquisition` |
| `MC...` | symmetry sets and constant values for TLC | |

### State and actions against the code

**RefreshLifecycle.** `pc` is the position in `run_loop_with_background`
(`T tui/mod.rs:331-443`); each action between `ReceiveStartup` and `Wake` is one call of that
loop, in its order. The controller's fields keep their names (`pending`, `active`,
`persistence`, `pricingRefresh`, `backoff`, `nextId`). A worker and its unread result are one
record with a `stage`; that a result is dropped when the session was cancelled is in
`WriterEnds`, `FinishStartup` and `AbandonAcquisition`. `StartPending` is `start_pending` with
`refresh_acquisition_context`, the reset of the schedule, the force decision and the spawn, as
one step, because the loop runs it without yielding. A context is the part of
`AcquisitionConfig` that can change in a session: source order, catalogs, date. Ages and
intervals are booleans the environment turns on.

**FsAtomic.** One action per system call of `write_atomic_with_options`: create, fill, sync,
rename, sync of the directory, and a failing variant of each. `temps` is the directory without
the target; `entries` the files the target's name may have after a power loss. A handle stays
with its inode when its name is unlinked.

**GenerationCache.** A file is a record of its header and the health and configuration of its
body; `Foreign` is anything that does not decode. Loading opens one inode and decides later
(`OpenCache`, `FinishLoad`); saving reads the previous header (`ReadPrevious`), stamps and
computes the schedule (`StartWrite`), and goes through `AtomicFile`. The constants
`MaxTime` and `MaxAttempt` stand for `u64::MAX` and `u32::MAX`, and the arithmetic saturates at
them as the code does.

**ShardCache.** An acquirer's `step` is the phase of
`fold_prepared_local_inputs_with_pricing_with_cancellation`; a unit's `stage` its way through
`ParsedBatchInput` and `resolve_unit`. The scan of an input is two steps (`ScanUnit`,
`ValidateUnit`), so that the input can change while it is read: what is read across a change is
`None`. `Store` has the fields of `InputRecordShardStore`. Reading a shard through one open
handle is one step, because a handle is not affected by a rename or unlink. `planned` and `batch`
are sets of places in the integration's list of inputs, since the code never reorders them.

**TranscriptFile.** `disk` holds every inode ever under the path, `path` the current one, so that
an open handle outlives a replacement and an old file can come back. A size is counted in thirds
of a line, so that a half-written line and a line without its newline have sizes of their own. The
number of a change stands for the modification time. A hash is the lines that were hashed.

**ClaudeTranscript, CodexTranscript.** A line is what the parser does with it (its kind, keys,
usage and fault); the parser's state has a field for everything the Rust state carries from line
to line and a checkpoint keeps. Of the token buckets one is kept for each way of merging.

**ClaudeAppend, CodexAppend.** A `step` per system call or loop turn of the drivers: snapshot,
plan, take, open, verify or parse one line, validate, write, unlink. They differ as the code does:
Claude's driver resumes while it folds and verifies stamp, inode and size afterwards; Codex's
resumes while it parses, joins the cached records later, and reports a changed file without
caching it.

**SubscriptionUsage.** A session is the tab of one process (`lifecycle` of `SubscriptionState`,
outputs, errors, queued save); `tasks` are the background fetches with their channel; `file` is the
disk cache with its stamp. `poll_subscription`, the draw and the effects are steps of the loop in its
order. The age of the file and the clock, which may be set back, decide what a restart shows.

## 3. Model-checking runs

| Run | Question | Distinct states |
|---|---|---|
| `lifecycle_safety` | all interleavings of the loop with its workers, two environment events, one failure: single flight, pairing, display before persistence, sealing, refinement of `PublishedGeneration` | 3.2 million |
| `lifecycle_live` | fair scheduling: manual refreshes run, a cold start settles, shutdown completes, with one failure anywhere; without one, the display converges to order, catalogs and date, and the file to the display | 325,314 |
| `lifecycle_context` | a doc's claim about context changes (violated, see section 6) | |
| `fs_writers` | two writers, a failing call, a killed process or a power loss: durable ones with ids of their own publish whole files and implement `AtomicFile`; visible ones keep readers from torn files under one shared id; every call is answered | 166,658 |
| `fs_torn` | a failed directory sync unlinks another writer's file (violated) | |
| `cache_schedule` | one session through an I/O error, or a session and a command under different configurations; the clock set back, a kill or a power loss: own files decode, deferrals are bounded, the schedule escalates, saturates and is on disk | 2,957,940 |
| `shards_reports` | two processes on one changing input with a damaged shard; one with a prune, a failing call and a cancellation; one with two inputs and a failing call: sealed shards, spared replacements, batch bound, invisibility of the cache; while acquisitions recur, a quiet input ends up with an intact shard of its current version | 336,774 |
| `claude_append` | two processes parse and resume one Claude transcript while it is appended to in pieces, rewritten, replaced and restored, with a fault: sealed checkpoints, complete reports, messages counted once | 1,638,394 |
| `codex_append` | every Codex session of six lines parsed as a whole, and short ones parsed and resumed while they are written: responses counted once, sealed checkpoints, complete reports | 1,116,193 |
| `codex_adr` | a doc's claim about compactions: responses that are over are counted exactly once (violated, see section 6) | |
| `subscription_fetch` | a session and its restarts under other settings, failing providers, lost tasks, failing saves, a clock set back: one fetch, every provider answered for, stale marks, disk and screen agree, nothing set back, every fetch settles | 464,785 |
| `subscription_adr` | a doc's claim about wholly failed fetches (violated) | |

Several runs take their instance from a set (`Settings` in `FsAtomic`, `GenerationCache`,
`ShardCache` and `CodexAppend`): an initial state picks one member, so that one run covers instances
that are each small in another direction.

### Bounds and why they suffice

- *Lifecycle.* Two orders, two catalogs and two fingerprints distinguish changed from unchanged
  in each dimension; a third value would only repeat a change. Two environment events are
  enough for a context change followed by a refresh of any kind, or a request during a load and
  a quit; one failure at any step covers each error path alone. The liveness run takes one
  event and one day of the calendar with a relative range, so that midnight can pass at any
  moment. Orders, catalogs and fingerprints are interchangeable in the safety run only.
- *Files.* Two processes, two attempts (the code has 16) and three drawn names let a name be
  found taken once and twice. One failure and one crash (a kill or a power loss) can fall between
  any two system calls. Only the instance of `fs_torn`, with the durable writer under one shared id,
  reaches a rename whose temporary file is gone. The theorems have no bounds.
- *Generation cache.* Time runs to 5 so that delays of 2 and 3 (the cap), the freshness threshold
  and saturation of the clock all occur; attempts saturate at 2. Three saves by one session are the
  shortest history in which a schedule is continued twice, escalates and saturates; two by two
  configurations the shortest in which one takes over the file of the other. One crash can be a
  kill or a power loss.
- *Shards.* One change of an input, one damage and one fault, at any step, in three instances: two
  processes on one input; one with a prune, a fault and a cancellation; two inputs with a fault. One
  input suffices with two processes because shards of different inputs share no state but the store of
  one acquirer, which the instance with two inputs covers. The run uses no symmetry, as it checks
  liveness too; its safety properties are proved without bounds.
- *Claude.* A human turn and two copies of one message whose input is reported in both
  conventions, and another file: the shortest text on which a checkpoint can fall between two
  copies of a message. Two changes, one of them a rewrite, and one fault in an acquisition that is
  alone (`Alone`).
- *Codex.* Six lines, three responses, two turns, one human input and one faulty line reach every
  rule of settlement: a record and its count with another response between them, a count after its
  turn has ended, repetitions, compactions, a fork with its replay. Responses use 1 or 3, so that one
  can be more than twice another, which the stale heuristic looks at, and any count that was told, of the
  session or of its parent, may be told again at any time. Parsing such sessions needs no
  acquirer, so the instance with all of them has none; three lines with one acquirer, and two with two
  acquirers or with rewriting, put a checkpoint at every place of a session. Sessions of seven lines
  (3.75 million states) were checked as well and are left out of the run for its time.
- *Subscription.* Two providers separate a fetch that fails for one from one that fails for both;
  three fetches, two failures, one restart and one tick of a clock with a lifetime of one let a file
  be fresh, expire, and be written by one session and read by the next, with fewer providers enabled
  or offline.

The file runs, those of the generation cache and of the subscription and `codex_append` turn
deadlock checking off: there the model stops when its bounds are used up. The lifecycle ends in
`stopped` with an explicit `Terminated` step, and the other acquirers always may begin again.

### Fairness

- `RefreshLifecycle!Fairness`: weak fairness of the loop (its tick thread wakes it every
  100 ms, `T tui/event.rs`) and of each kind of worker (threads and a runtime that are
  scheduled; their I/O returns). Nothing is assumed of keys, clocks, inputs, or of success.
- `FsAtomic!FairSpec`: system calls return.
- `ShardCache!FairSpec`: an acquisition that has begun goes on. Nothing is assumed of prune, damage or
  changes, nor that another acquisition begins: the automatic refresh of inputs that have not changed
  answers unchanged without folding any (`T tui/generation_controller.rs:677`), and a shard that could
  not be written leaves the health complete, so that no retry is due. A restart, `tokenx cache warm` or
  a manual refresh folds them again. That this happens again and again is therefore a premise of
  `Converges` (`Recurring`): the cache repairs itself as often as it is used.
- `SubscriptionUsage!FairSpec`: the loop of a session that is up wakes, and a fetch task goes on:
  every provider answers, fails, panics or runs into its timeout, or the task is lost. Nothing is
  assumed of success, keys or clocks.

Every property of a passing run has a mutant: a plausible bug, defined beside the definition it
mutates, under which TLC finds that property violated.

## 4. Proofs

`RefreshLifecycleProofs` proves, for all sets of orders, catalogs and fingerprints and all
bounds, from the assumptions `BoundsAssumption`, `UniverseAssumption` and `NoneAssumption` of
`RefreshLifecycle`:

| Theorem | Statement |
|---|---|
| `TypeCorrect` | `Spec => []TypeOK` |
| `OneRefreshAtATime` | `Spec => []SingleFlight` |
| `OnlyShownIsWritten` | `Spec => []WritesOnlyShown` |
| `SealedCache` | `Spec => SealedAfterDrain` |
| `DisplayOnlyAdvances` | `Spec => InstalledOnlyAdvances` |
| `Refinement` | `Spec => PublishedSpec` |

None of the safety properties is inductive alone. The invariant `Inv` joins to them:

- `ColdInv`: until the startup result is received nothing is installed, requested or running.
  Without it the first installation could displace something.
- `SerialInv`: request numbers only grow, and the installed generation is older than the load
  that runs. This is what makes the display only advance.
- `ShownInv`: from the draw to the start of the writer the screen shows the installed
  generation, and what is owed to the file is that generation. `WritesOnlyShown` needs it
  because the writer takes the generation the controller kept, not the installed one.
- `GateInv`: whoever is past the writers gate holds it, and after the drain nobody is about to
  write. `SealedAfterDrain` follows from it: the drain takes the gate after the flag is set,
  and a writer looks at the flag after it has the gate.
- `JobInv`: a job that is past its preparation has a fingerprint.

There is a lemma per group of conjuncts (`TypeStep`, `OrderStep`, `GateStep`, `JobStep`,
`FlightStep`, `ShownStep`), each with one step per action; `InvStep` joins them and
`Invariance` closes the induction. The action properties and the refinement follow step by
step from `Inv`; the refinement maps the shown generation to `installed`, the durable one to
`disk`, and `pc` with the flag to the three phases.

The same module goes on to what the controller knows of the installed generation:

| Theorem | Statement |
|---|---|
| `KnownInvariance` | `Spec => []KnownInv` |
| `ScheduleOfInstalled` | `Spec => []BackoffOfInstalled` |
| `UnchangedAnswers` | `Spec => []UnchangedIsCurrent` |
| `MismatchIsRepaired` | `Spec => []NoSilentMismatch` |

`KnownInv` stands on `Inv` and has three parts. `ScheduleInv` adds that a schedule read at startup
is that of the generation read with it, since the controller takes both in one step later.
`CompareInv` says that a running load compares with the fingerprint of what is installed *now*: a load
runs alone, and what is installed changes only when it ends. `ContextInv` says that a load with
another context than the engine's runs only while a manual request is queued behind it: when a context
changes during a load that load is not withdrawn, so nothing weaker is inductive.

`FsAtomicProofs` proves, for any processes, contents, process ids, number of attempts and bounds,
from `WriterAssumption` and `FileAssumption` (`None` is no file):

| Theorem | Statement |
|---|---|
| `WriterTypes` | `Spec => []TypeOK` |
| `WriterInvariant` | `Spec /\ DistinctIds => []Inv` |
| `WritesWholeFiles` | `Spec /\ DistinctIds => []WholeFiles` |
| `WriterRefinement` | `Spec /\ DistinctIds => PublishedSpec` |

`DistinctIds` says that the writers have ids of their own where the durable writer runs; `fs_torn`
shows that the theorems fail without it. It speaks of `setting`, which never changes, so the initial
state decides. `WholeFiles` is not inductive, because nothing in it says what the file a call is about
to rename holds. `OwnInv` says that until its rename a call has its own temporary file open under its
own name, and no other process has that inode open: this is where distinct ids are needed, and what
lets a cleanup or a rename leave the files of others alone. `FillInv` says that the file is whole and,
for the durable writer, synced when it is about to be renamed. A power loss is harmless because what
the directory may name by then is part of `WholeFiles`. The refinement then follows step by step from
the invariant.

`GenerationCacheProofs` proves, for any sessions, configurations, failures, crashes, clocks and bounds,
from `CacheAssumption` and `FileAssumption` (`None` and `Foreign` are no files):

| Theorem | Statement |
|---|---|
| `TypesOfCache` | `Spec => []TypeOK` |
| `SavedFilesDecode` | `Spec => []OwnFilesDecode` |
| `ScheduleSurvives` | `Spec => []ScheduleOnDisk` |
| `DeferralsAreBounded` | `Spec => DeferralBounded` |
| `ScheduleEscalates` | `Spec => Escalates` |
| `DiskUse` | `Spec => Disk!Spec`: the file is used as `AtomicFile` allows |

`Inv` joins `TypeOK` and `ScheduleOnDisk` with `CallInv` (a session has a call of the writer under way
exactly while it saves, and what it writes is a file of this version), `SeenGood` (every file on disk, in
what a power loss may leave, in a call or opened by a load decodes and carries a schedule within the cap: a load that
decides later decides about such a file) and `AloneInv` (a session that has the cache to itself finds what
it wrote, and before the first error the schedule it is about to save follows from the one on disk). The
last is what `Escalates` needs: the attempt is continued from a header that was read two steps before the
file is replaced. The delays are powers of two, of which `PowerType` says that they are positive, by
counting subsets.

`SubscriptionUsageProofs` proves, for any sessions, providers, settings, lifetimes and bounds, from
`SubscriptionAssumption` and `NoneAssumption`:

| Theorem | Statement |
|---|---|
| `TypesOfFetch` | `Spec => []TypeOK` |
| `FetchIsUnique` | `Spec => []OneFetch` |
| `FetchAnswers` | `Spec => []EveryProviderAnswered` |
| `FetchMarks` | `Spec => []StaleIsMarked` |
| `FetchMirrored` | `Spec => []DiskMirrorsDisplay` |
| `FetchAdvances` | `Spec => DisplayOnlyAdvances` |

Here `Inv` (`FetchInvariant`) joins the invariants of the run with `RequestInv` (a fetch is only asked
for where there are providers, and opening the tab asks once), `TaskInv` (of every provider a task was
asked for it is still waiting, has an answer of this fetch, or an error: the promise a half-finished
task keeps, without which the batch could arrive with a gap), `AgeInv` (nothing shown or stored is
newer than the last fetch, nor anything shown during a fetch newer than that fetch: without it a batch
could set a provider back) and `SaveInv` (what is about to be saved is what is shown, and no save is
pending while the loop polls or waits: without it the screen could move on under a queued save).

`ShardCacheProofs` proves, for any processes, inputs, integrations, batch width, versions without usage, faults and bounds, from `ShardAssumption`:

| Theorem | Statement |
|---|---|
| `ShardInvariant` | `Spec => []Inv` |
| `TypesOfAcquisitions` | `Spec => []TypeOK` |
| `ShardsAreSealed` | `Spec => []SealedShards` |
| `ReplacementsAreSpared` | `Spec => ReplacementSpared` |
| `CacheIsNoticedByNone` | `Spec => CacheIsInvisible` |

`SealedShards` says nothing of the unit a shard is about to be written from, so `Inv` follows every
unit: `UnitOK` orders the versions it has met (inventory, snapshot, what was read, now), says that a
complete scan read its snapshot, and that a unit that is not complete has a reason a run without a
cache would have had too: a failed call, a cancellation, or a change since the inventory. That last
part is what makes the cache invisible; a hit that is refused must therefore lead back to the input,
which the stages of `UnitOK` say. `StoreOK` relates a unit to the store: what its recovery condemns is
deleted or protected already, so that folding it condemns nothing new, and a planned hit was not taken
before, so that the `broken` step is never reached. `CourseOK` says where the units of earlier, present
and later integrations stand, so that an acquisition which ends has told of every input; it holds
because no input has two places (`Distinct`). There is a lemma per action
(`PlanUnitKeeps`, ..., `DamageKeeps`). For the refinement there is again one per action, saying what
that action tells: nothing, or one step of `CachelessAcquisition`.

`ClaudeAppendProofs` proves, for any drafts of a transcript, any number of acquisitions and any bounds,
from `ClaudeAssumption`:

| Theorem | Statement |
|---|---|
| `Invariance` | `Spec => []Inv` |
| `SealedCheckpoints` | `Spec => []SealedCheckpoint` |
| `CompleteReports` | `Spec => []CompleteIsFullParse` |
| `MessagesAreCountedOnce` | `Spec => []MessagesCountOnce` |

That a parse can be resumed is the lemma `ParseNext`: the parse of a text and one more line is the
parse of that line after the text. It and its companions need an induction over the lines, which
`TranscriptProofs` gets from the well-foundedness of the naturals, as an induction over the *set* of
numbers that have a property. The invariant follows an acquisition through its steps. `Verified` and
`Scanned` say what it has read only as long as the file is `Fresh`, that is, of the inode and the
modification time of the snapshot: once it is not, nothing is known of it, and `PutAdvances` says that
it never becomes fresh again, because every change has a later time. `Covered` is what the checks of
`finish_scan` make of that (`UnchangedCovers`): equal stamp, equal inode and a scan up to the size leave
no other text than that of the snapshot. `Sealed` adds to `SealedCheckpoint` that there is a checkpoint
exactly if the text ends with a complete line, so that a shard that was rewritten between the header and
the records, with the same stamp, is the same shard.

`MessagesCountOnce` compares a report with its lines, told without a parser, so it needs an invariant
of the parser rather than of the acquisition: after every line `Tallies` says that each key has no
record and no copy, or exactly one record, whose usage `Declares` the copies so far. `Declares` says
what `Declared` chooses, without the choice (the largest output; the largest input, among the copies
that split it if any does), and is what a merge preserves whatever the order of the copies
(`DeclaresMerged`): the larger input of any two copies would not be. `ObservedTally` adds one copy,
`ParseTallies` follows the lines, and `RetainedTally` says that dropping the records that count nothing
neither loses nor repeats another. The keys of records are never `None`, which `ClaudeAssumption` says.

`CodexAppendProofs` proves, for any drafts, acquisitions, usages, models, kinds of lines and bounds, from
`CodexAssumption`, `SessionAssumption` and `NoneAssumption`:

| Theorem | Statement |
|---|---|
| `Invariance` | `Spec => []Inv` |
| `SealedCheckpoints` | `Spec => []SealedCheckpoint` |
| `CompleteReports` | `Spec => []CompleteIsFullParse` |
| `ResponsesAreCountedOnce` | `SessionsOnly /\ Spec => []ResponsesCountOnce` |

The driver of Codex does what that of Claude never does: it parses a tail from a checkpoint that has lost
the messages, and joins the cached records to the new ones later. `Leads(t, s, m, r)` says that the state
`t` is `s` with the messages `m` and `r` rejections before its own and equal in everything the parser
looks at. Every function of the parser preserves it (`LeadsSettled`, ..., `LeadsLine`), so a parse of the
tail gives what the full parse would have added, and `CheckpointLeads` and `SameCheckpoint` say that a
checkpoint is such a state and that both parses leave the same one. This is where a field that the
checkpoint drops but the parser reads would show.

The file is also known in another way. Codex never fails because the file changed, it only does not cache
then; so what was read is related to a version of the file even if it is no longer that of the snapshot.
`Known` says that the lines read begin the open file while it is unchanged since the snapshot (`Steady`) or
as long as every rewrite has made a file of its own (`OnlyGrown`); `Grows` is what a change of the file
leaves of that. `Whole` adds, at the end of the file, that nothing of the snapshot is missing. `Cacheable`
then leaves no other text than that of the snapshot (`CacheableSeals`). Between the parse and the fold
`Joinable` says that the records of the *planned* shard and the new ones are the full parse, and
`TakeStep` that a shard of the same stamp has the same records, so that it does not matter who rewrote it
meanwhile.

`ResponsesCountOnce` compares a parse with what the session has used, told without a parser. Its proof has
three layers. `History` says what any session keeps to, line by line: responses are numbered and either
all recorded or none, the total is the largest that was told (`IsTotal`), and a fork comes first (`Origin`).
`SortsOf` reduces what may be written to twelve sorts of lines, told by their fields, and there is a lemma
for each that says what it adds. `Follows` is the
invariant of the parser along those lines: `Context` (waiting exactly while a fork has no turn of its own,
`previous` the total, `baseline` the inherited one until the first count of its own, `seen` the recorded
responses), `HoldingLatest` (what is held back is the record of the last response, and no line has settled
that: without it settling could be late), and `Books`:

- `Tallied`: per usage, messages, messages without a model and the held record are as many as there are
  responses. Not *which* response a message is of: a count can settle another of the same usage, and the
  property allows no more than that.
- `Expected`: per usage and turn, the records that are held or settled early are at least as many as the
  recorded responses whose count is still to come, so that a late count finds one and is not counted anew.
  Where the counts name no turn, all turns are one (`Scopes`).
- `Marked`: turn starts given and due are at most the human inputs, and while none is given one is due or
  the response held back has a claim to it.

`LineStep` joins a lemma per sort (`RecordStep`, `ReportStep`, `AloneStep`, `RepeatStep`, `ReplayStep`, ...),
`SessionHolds` is the induction over the lines and `SessionAgrees` draws the conclusion at the end of the
input. `RepeatStep` is the one that needs `~Misleads(lines)`, and `Misleading` says that the beginnings of a
session that does not mislead do not either. That every file is a session (`Sessions`) is an invariant of
`Spec` of its own.

`ResponsesCountOnce` has two named exceptions, both about what the code does and not about the model.

- `Misleads`: some count is `Doubtful`, that is, it was told before and the parser cannot see that from its
  total. While a child has told no count of its own, every count within its parent's total is a replay to
  the parser, which then also drops the child's own pending record. Later it takes a count for a
  repetition if the total is the last one or falls short of it by at most two per cent or at most twice the
  usage the count names (`looks_like_stale_regression`); with responses of 1 and 3 tokens the repetition of
  the first falls outside. `Doubtful` says exactly this and no more: every other repetition, in whatever
  place, is part of the theorem.
- `IsSettled` instead of `IsOver`: ADR 0025 has a compacted response settled by any count that follows, the
  code not by one that reports an earlier response. `IsOver` is the ADR's word, `IsSettled` the code's.

`CountedExactlyOnce` is the same statement without either exception, and what `codex_adr` finds violated.

The hypothesis of that theorem is no assumption of the module: `SessionsOnly` says that what users put in
place of a file is a session too, since nothing is claimed of lines no client writes. `MCAssumption` has TLC
check that the run meets it. The run remains of use beside the theorem: the theorem says nothing unless
sessions are what `Written` describes, and the run shows that these reach every rule of the parser.

Only model-checked: liveness and everything that needs `ENABLED`, which is beyond the prover
(`ManualRefreshRuns`, `ColdStartSettles`, `ShutdownCompletes`, `ContextConverges`, `CacheCatchesUp`,
`CallsEnd`, `Converges`, `FetchSettles`). Every safety property of a passing run is proved. None of the
modules has a recursive operator.

## 5. What is not modelled, and why

- *Content.* Token counts and prices are small numbers or tokens; projections and the usage index
  are not examined. Their hazard (sums in several orders and widths) is listed without a property.
- *Inputs of several files* (SQLite with its sidecars, sibling transcripts, the sidecar files and
  projects of Claude, archived Codex logs) and merges across files.
- *Stamps.* Every change of an input is assumed to change its stamp (size, modification time,
  identity), as the code assumes. Two versions with one size within the granularity of the
  modification time would break `SealedShards` and `CompleteIsFullParse` alike.
- *Codex entries without a timestamp or shape.* The parser of the model handles them; the sessions of
  `CodexSession` do not write them, because the documents do not say that a client does.
- *A panic of the pricing task*, which has no `catch_unwind`: whether its HTTP clients can panic could
  not be established from the code.
- *Errors that the running configuration excludes.* Rebuilding the acquisition context fails
  only for settings its first construction has already accepted, so it cannot fail in the
  model.
- *Pricing, aggregation, frames and pages*: not written (see the plan).
- *Decoding of thirty formats, layout, theming, i18n, command-line parsing and packaging*:
  sequential code or output that a model would only repeat.

## 6. Where documents and code disagree

- `lifecycle_context`: ADR 0003 says that a context change rebuilds even when the inventory is
  unchanged. `refresh_acquisition_context` replaces the engine before the forced load has
  succeeded. If that load fails, the next automatic refresh is not forced, compares only the
  inventory and answers unchanged: the generation of the old context stays on display until a
  manual refresh or a restart.
- `fs_torn`: with one process id shared by two processes, the cleanup after a failed directory
  sync unlinks the temporary file of another writer, whose name is then taken by a third call
  and renamed half-written. It takes four coincidences, but the cleanup is wrong without them:
  after the rename the name is no longer the caller's.
- `subscription_adr`: ADR 0005 says that a wholly failed subscription fetch keeps the disk cache.
  `poll_subscription` queues a save whenever any output is left, retained ones included, so the file is
  rewritten with a new timestamp and old quotas outlive their five minutes.

- `codex_adr`: ADR 0025 says that after a compaction a counter that describes another response settles the
  pending one. A late counter of a response settled earlier takes that one off the list and leaves the
  pending record as it is (`E integrations/codex/decode.rs:1028`): in a turn with two records, a compaction
  and the late counter of the first, the second response is over and not counted, unless a later entry
  settles it. `CountedExactlyOnce` fails in two other ways, which `MCCodexAppend_child.cfg` and
  `MCCodexAppend_stale.cfg` reproduce (`tlc -config MCCodexAppend_child.cfg MCCodexAppend`). A forked child
  records a response, compacts, and repeats its parent's count: where the ADR has a counter that emits
  nothing settle the compaction, the code drops the child's record for good
  (`E integrations/codex/decode.rs:963`). And an older client tells counts of 1 and of 3 tokens and then the
  first again: the total falls by more than twice what that count names, so it counts as new, although a
  snapshot out of order is not to be counted twice (comment at `E integrations/codex/decode.rs:201`).

Not stated as runs:

- ADR 0003 says that an undecodable or identity-invalid shard is deleted when no replacement can be
  written. A shard that became unreadable between planning and folding is protected, and stays when
  its input yields no replacement.
- Counts that name their turn in part, with equal usages, can be taken for one another and counted
  twice. `CodexSession` does not write them (`Naming`), as no document says that a client does.
- `ReplacementSpared` is about condemning a shard. The deferred unlink at the end of an acquisition
  (`E input_record_cache/store.rs:316`) may still hit a shard that another process has put in place of a
  condemned one since; that costs a parse, changes no report, and is repaired by the next acquisition.
- `ManualRefreshRuns` is met by a forced load that was already running when the request came; that a
  request during a load is not lost shows where the running one is not forced.

## 7. Plan

Done: refresh lifecycle, atomic files, generation cache, input-record cache and subscription usage with
their proofs; append parsing of Claude and Codex with the parsers they resume and its proofs. Left, in
order:

1. **Inputs of several files** in `ShardCache`: dependencies whose stamps join the fingerprint, and
   the merge of sibling transcripts.
2. **Pure algorithms**, each against a reference definition over bounded inputs: pricing resolution over
   the source order, usage index queries against sums over the records, OMP identities.
3. **Frames**: keys and clicks meet the frame they were aimed at (ADR 0011).
