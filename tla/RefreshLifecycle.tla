-------------------------- MODULE RefreshLifecycle --------------------------
(***************************************************************************)
(* The refresh lifecycle of the interactive session: the event loop        *)
(* (tui/mod.rs), the GenerationController that owns refresh authority       *)
(* (tui/generation_controller.rs), the TaskSupervisor that owns every       *)
(* worker (tui/task_supervisor.rs), the startup worker (tui/startup.rs)     *)
(* and the installed local usage (tui/local_usage.rs, tui/model.rs).        *)
(*                                                                         *)
(* The event loop is one thread; pc names the step it takes next.  Startup, *)
(* acquisition, persistence and pricing run on workers of their own, and    *)
(* every worker step may fall between any two steps of the loop.  A worker  *)
(* and the result it leaves in its channel are one job record: the stages   *)
(* after the work is done stand for "the result is in the channel".         *)
(*                                                                         *)
(* Abstracted data: a generation is the request that built it, the          *)
(* acquisition context and the source fingerprint it was built from, and    *)
(* whether its health asks for an input retry.  A context is the part of    *)
(* AcquisitionConfig that can change within one session: the pricing source *)
(* order, the pricing catalogs, and the effective date a relative range     *)
(* resolves against.  Intervals, ages and delays are booleans that the      *)
(* environment turns on.                                                    *)
(***************************************************************************)
EXTENDS Naturals, FiniteSets

CONSTANTS
    Orders,          \* pricing source orders
    Catalogs,        \* contents of the public pricing catalogs
    Fingerprints,    \* source fingerprints an inventory can have
    MaxDay,          \* bound: the calendar advances at most this many days
    RelativeRange,   \* TRUE when --today, --week or --month was given
    Offline,         \* TRUE when no remote pricing refresh may start
    MaxInputs,       \* bound: environment events (keys, clocks, file changes)
    MaxFailures,     \* bound: failing operations
    None             \* the absent value of every Option

ASSUME BoundsAssumption ==
    /\ MaxDay \in Nat /\ MaxInputs \in Nat /\ MaxFailures \in Nat
    /\ RelativeRange \in BOOLEAN /\ Offline \in BOOLEAN

ASSUME UniverseAssumption ==
    Orders # {} /\ Catalogs # {} /\ Fingerprints # {}

Days == 0 .. MaxDay
Context == [order : Orders, catalog : Catalogs, day : Days]
Generation == [serial : Nat, context : Context,
               fingerprint : Fingerprints, retry : BOOLEAN]
RetryBackoff == [owner : Nat, due : BOOLEAN]
StartupLoad == [cached : Generation \cup {None}, needsRefresh : BOOLEAN,
                backoff : RetryBackoff \cup {None}, failed : BOOLEAN]

\* None stands outside every set of values it is the alternative to.
ASSUME NoneAssumption ==
    /\ None \notin Nat /\ None \notin Generation /\ None \notin RetryBackoff
    /\ None \notin Fingerprints /\ None \notin StartupLoad
    /\ None \notin [id : Nat, force : BOOLEAN]
    /\ None \notin [id : Nat, generation : Generation \cup {None}]
    /\ None \notin [needsLoad : BOOLEAN]
    /\ None \notin [order : Orders, catalog : Catalogs, fetched : BOOLEAN]

VARIABLES
    \* The event loop and the model it renders.
    pc,              \* the loop's next step
    initialWork,     \* this iteration's initial_work: none, resume or load
    status,          \* LocalUsageState: empty, ready, degraded or failed
    installed,       \* the installed generation, if any
    drawn,           \* the generation the terminal shows
    day,             \* app.effective_date
    order,           \* app.settings.pricing_source_order
    requested,       \* app.refresh_requests holds a manual request
    control,         \* app.refresh_controls holds this unconsumed control
    \* GenerationController; the controller exists once startup is received.
    engine,          \* the context of the controller's acquisition engine
    automatic,       \* status.automatic
    elapsed,         \* status.interval has elapsed since last_checked
    pending, active, persistence, pricingRefresh, nextId, backoff,
    \* TaskSupervisor: workers, their channels, and the writers' gate.
    startup, startupLoad, acquisitions, writes, pricingTask,
    cancelled, gate, poisoned,
    \* Outside the process.
    disk,            \* the generation in the cache file, if any
    inventory,       \* the fingerprint the inputs have now
    today,           \* the wall-clock date
    inputs, failures \* how much of each bound is used

loopVars == <<initialWork, status, installed, drawn>>
appVars == <<day, order, requested, control>>
controllerVars == <<engine, automatic, elapsed, pending, active, persistence,
                    pricingRefresh, nextId, backoff>>
taskVars == <<startup, startupLoad, acquisitions, writes, pricingTask>>
stopVars == <<cancelled, gate, poisoned>>
worldVars == <<disk, inventory, today, inputs, failures>>
vars == <<pc, loopVars, appVars, controllerVars, taskVars, stopVars, worldVars>>

Requests == {"none", "automatic", "manual"}
LoopSteps == {"startup", "pricing", "acquisition", "persistence", "intents",
              "clock", "start", "draw", "initial", "persist", "wait"}
StopSteps == {"draining", "joining", "stopped"}
AcquisitionResults == {"unchanged", "loaded", "failed"}
AcquisitionJob ==
    [id : Nat, force : BOOLEAN, context : Context,
     last : Fingerprints \cup {None}, fingerprint : Fingerprints \cup {None},
     retry : BOOLEAN, stage : {"preparing", "building"} \cup AcquisitionResults]
WriteResults == {"saved", "failed"}
WriteJob ==
    [id : Nat, generation : Generation,
     stage : {"waiting", "locked", "writing", "replaced"} \cup WriteResults]

\* Only the job's unread result is left: its worker has ended.
Done(job, results) == job.stage \in results

At(job, stage) == [job EXCEPT !.stage = stage]

Fail == failures < MaxFailures /\ failures' = failures + 1
Input == inputs < MaxInputs /\ inputs' = inputs + 1

-----------------------------------------------------------------------------
(* Pure helpers of the controller and of the model.                        *)

\* Mutant: a manual request does not upgrade a queued automatic one.
QueueKeepsFirst(queued, request) == IF queued = "none" THEN request ELSE queued

\* GenerationController::queue: manual upgrades, automatic never downgrades.
Queue(queued, request) ==
    IF request = "manual" \/ queued = "none" THEN request ELSE queued

\* LocalUsageState::fail_acquisition: a warm failure keeps the generation.
FailedStatus(generation) == IF generation # None THEN "degraded" ELSE "failed"

\* should_force_input_reload.
ForceReload(explicit, generation, retry) ==
    \/ explicit
    \/ /\ generation # None /\ generation.retry
       /\ retry = None \/ retry.due

\* Mutant: a relative date range is resolved once, when the session starts.
KeepsDate == [order |-> order, catalog |-> engine.catalog, day |-> engine.day]

\* The context refresh_acquisition_context rebuilds from the app's settings
\* and date.  Its errors need a home, root or scanner setting that the
\* running engine's own construction has already accepted, so it cannot fail.
RefreshedContext ==
    [order |-> order, catalog |-> engine.catalog,
     day |-> IF RelativeRange THEN day ELSE engine.day]

\* The generation a finished acquisition publishes.
BuiltGeneration(job) ==
    [serial |-> job.id, context |-> job.context,
     fingerprint |-> job.fingerprint, retry |-> job.retry]

\* The schedule a successful write returns: healthy generations carry none.
SavedBackoff(generation) ==
    IF generation.retry THEN [owner |-> generation.serial, due |-> FALSE]
    ELSE None

\* Mutant: a load may start while a write is still owed.
BlockedByLoads == pricingRefresh # None \/ active # None

\* What keeps start_pending from starting anything.
Blocked == pricingRefresh # None \/ active # None \/ persistence # None

\* start_pending, called with what is queued at that point.
StartPending(queued) ==
    IF queued = "none" \/ Blocked
    THEN /\ pending' = queued
         /\ UNCHANGED <<engine, backoff, active, nextId, acquisitions>>
    ELSE LET changed == RefreshedContext # engine
             retry == IF changed THEN None ELSE backoff
             force == ForceReload(queued = "manual" \/ changed, installed, retry)
         IN  /\ pending' = "none"
             /\ engine' = RefreshedContext
             /\ backoff' = retry
             /\ active' = [id |-> nextId, force |-> force]
             /\ nextId' = nextId + 1
             /\ acquisitions' = acquisitions \cup
                  {[id |-> nextId, force |-> force, context |-> RefreshedContext,
                    last |-> IF installed = None THEN None
                             ELSE installed.fingerprint,
                    fingerprint |-> None, retry |-> FALSE,
                    stage |-> "preparing"]}

-----------------------------------------------------------------------------
Init ==
    /\ pc = "startup" /\ initialWork = "none"
    /\ status = "empty" /\ installed = None /\ drawn = None
    /\ day = 0 /\ order \in Orders /\ requested = FALSE /\ control = "none"
    /\ engine \in [order : {order}, catalog : Catalogs, day : {0}]
    /\ automatic \in BOOLEAN /\ elapsed = FALSE
    /\ pending = "none" /\ active = None /\ persistence = None
    /\ pricingRefresh = None /\ nextId = 1 /\ backoff = None
    /\ startup = "loading" /\ startupLoad = None
    /\ acquisitions = {} /\ writes = {} /\ pricingTask = None
    /\ cancelled = FALSE /\ gate = None /\ poisoned = FALSE
    /\ disk \in {None} \cup
         [serial : {0}, context : {c \in Context : c.day = 0},
          fingerprint : Fingerprints, retry : BOOLEAN]
    /\ inventory \in Fingerprints /\ today = 0
    /\ inputs = 0 /\ failures = 0

-----------------------------------------------------------------------------
(* The startup worker.                                                     *)

CacheMatches == disk # None /\ disk.context = engine

\* load_generation_cache accepted the file: fresh or due decides between
\* Fresh, Stale and RetryDeferred, and decide_initial_data what follows.
CachedLoad(fresh, due) ==
    [cached |-> disk, failed |-> FALSE,
     needsRefresh |-> IF disk.retry THEN due ELSE ~fresh,
     backoff |-> IF disk.retry THEN [owner |-> disk.serial, due |-> due]
                 ELSE None]

\* Mutant: a missing generation is not loaded.
MissingLoadWaits ==
    [cached |-> None, failed |-> FALSE, needsRefresh |-> FALSE, backoff |-> None]

MissingLoad ==
    [cached |-> None, failed |-> FALSE, needsRefresh |-> TRUE, backoff |-> None]

LoadCached ==
    /\ CacheMatches
    /\ \E fresh, due \in BOOLEAN : startupLoad' = CachedLoad(fresh, due)
    /\ UNCHANGED failures

LoadMissing ==
    /\ ~CacheMatches
    /\ startupLoad' = MissingLoad
    /\ UNCHANGED failures

\* An unreadable file is Failure; a cached projection that fails drops the
\* generation but keeps the schedule that was read with it.
LoadRejected ==
    /\ disk # None /\ Fail
    /\ \/ startupLoad' = MissingLoad
       \/ /\ CacheMatches
          /\ \E due \in BOOLEAN :
               startupLoad' = [MissingLoad EXCEPT
                                 !.backoff = CachedLoad(FALSE, due).backoff]

\* Startup itself fails or panics; the loop leaves with the error.
LoadFailed ==
    /\ Fail
    /\ startupLoad' = [MissingLoad EXCEPT !.failed = TRUE]

FinishStartup ==
    /\ startup = "loading"
    /\ LoadCached \/ LoadMissing \/ LoadRejected \/ LoadFailed
    /\ startup' = IF cancelled THEN "done" ELSE "sent"
    /\ UNCHANGED <<pc, loopVars, appVars, controllerVars, acquisitions, writes,
                   pricingTask, stopVars, disk, inventory, today, inputs>>

-----------------------------------------------------------------------------
(* Leaving the loop.  shutdown_session signals cancellation, which also     *)
(* aborts the remote tasks, restores the terminal and only then drains.     *)

SignalCancel ==
    /\ cancelled' = TRUE
    /\ pricingTask' = None
    /\ pc' = "draining"

\* The user quits, or the loop returns a terminal error.
Leave ==
    /\ pc \in {"draw", "wait"}
    /\ SignalCancel
    /\ UNCHANGED <<loopVars, appVars, controllerVars, startup, startupLoad,
                   acquisitions, writes, gate, poisoned, worldVars>>

\* drain takes the writers' gate once, poisoned or not, and lets it go.
DrainGate ==
    /\ pc = "draining" /\ gate = None
    /\ pc' = "joining"
    /\ UNCHANGED <<loopVars, appVars, controllerVars, taskVars, stopVars,
                   worldVars>>

\* Every owned thread is joined; unread results die with their channels.
JoinTasks ==
    /\ pc = "joining" /\ startup # "loading"
    /\ \A job \in acquisitions : Done(job, AcquisitionResults)
    /\ \A job \in writes : Done(job, WriteResults)
    /\ pc' = "stopped" /\ acquisitions' = {} /\ writes' = {}
    /\ UNCHANGED <<loopVars, appVars, controllerVars, startup, startupLoad,
                   pricingTask, stopVars, worldVars>>

-----------------------------------------------------------------------------
(* One iteration of run_loop_with_background, step by step.                 *)

ReceiveStartup ==
    /\ pc = "startup" /\ startup = "sent" /\ startup' = "done"
    /\ ~startupLoad.failed
    /\ pc' = "pricing"
    /\ initialWork' = IF startupLoad.needsRefresh THEN "load" ELSE "resume"
    /\ installed' = startupLoad.cached
    /\ status' = IF startupLoad.cached = None THEN status ELSE "ready"
    /\ backoff' = startupLoad.backoff
    /\ startupLoad' = None
    /\ UNCHANGED <<drawn, appVars, engine, automatic, elapsed, pending, active,
                   persistence, pricingRefresh, nextId, acquisitions, writes,
                   pricingTask, stopVars, worldVars>>

\* A failed startup, or a cached generation the model refuses to install.
FailStartup ==
    /\ pc = "startup" /\ startup = "sent" /\ startup' = "done"
    /\ IF startupLoad.failed THEN UNCHANGED failures
       ELSE startupLoad.cached # None /\ Fail
    /\ startupLoad' = None
    /\ SignalCancel
    /\ UNCHANGED <<loopVars, appVars, controllerVars, acquisitions, writes,
                   gate, poisoned, disk, inventory, today, inputs>>

\* No startup result: until the controller exists the loop only draws.
SkipStartup ==
    /\ pc = "startup" /\ startup # "sent"
    /\ pc' = IF startup = "done" THEN "pricing" ELSE "draw"
    /\ UNCHANGED <<loopVars, appVars, controllerVars, taskVars, stopVars,
                   worldVars>>

ReloadAfterPricing(changed) == pricingRefresh.needsLoad \/ changed

PricingFetched == pricingTask # None /\ pricingTask.fetched

\* apply_pricing_result: the refreshed catalogs keep the order they were
\* fetched under; the user's order is applied by the next start_pending.
ReceivePricing ==
    /\ pc = "pricing" /\ pc' = "acquisition"
    /\ PricingFetched
    /\ LET context == [order |-> pricingTask.order,
                       catalog |-> pricingTask.catalog, day |-> engine.day]
           changed == context # engine
       IN  IF pricingRefresh = None
           THEN UNCHANGED <<engine, backoff, pending>>
           ELSE /\ engine' = context
                /\ backoff' = IF changed THEN None ELSE backoff
                /\ pending' = IF ReloadAfterPricing(changed)
                              THEN Queue(pending, "manual") ELSE pending
    /\ pricingRefresh' = None /\ pricingTask' = None
    /\ UNCHANGED <<loopVars, appVars, automatic, elapsed, active, persistence,
                   nextId, startup, startupLoad, acquisitions, writes,
                   stopVars, worldVars>>

SkipPricing ==
    /\ pc = "pricing" /\ pc' = "acquisition"
    /\ ~PricingFetched
    /\ UNCHANGED <<loopVars, appVars, controllerVars, taskVars, stopVars,
                   worldVars>>

\* Mutant: an installed generation is never handed to persistence.
InstallWithoutPersistence(job) ==
    /\ installed' = BuiltGeneration(job) /\ status' = "ready"
    /\ UNCHANGED <<persistence, failures>>

\* apply_task_result.  A result of another request than the active one is
\* ignored; installing may fail when the projection cannot be reconciled.
InstallLoaded(job) ==
    /\ installed' = BuiltGeneration(job) /\ status' = "ready"
    /\ persistence' = [id |-> job.id, generation |-> BuiltGeneration(job)]
    /\ UNCHANGED failures

RejectLoaded ==
    /\ status' = FailedStatus(installed) /\ Fail
    /\ UNCHANGED <<installed, persistence>>

FailLoad ==
    /\ status' = FailedStatus(installed)
    /\ UNCHANGED <<installed, persistence, failures>>

KeepUnchanged == UNCHANGED <<status, installed, persistence, failures>>

ReceiveAcquisition ==
    /\ pc = "acquisition" /\ pc' = "persistence"
    /\ \E job \in acquisitions :
         /\ Done(job, AcquisitionResults)
         /\ acquisitions' = acquisitions \ {job}
         /\ IF active = None \/ job.id # active.id
            THEN KeepUnchanged /\ UNCHANGED <<active, elapsed>>
            ELSE /\ active' = None /\ elapsed' = FALSE
                 /\ CASE job.stage = "loaded" -> InstallLoaded(job) \/ RejectLoaded
                      [] job.stage = "failed" -> FailLoad
                      [] job.stage = "unchanged" /\ active.force -> FailLoad
                      [] OTHER -> KeepUnchanged
    /\ UNCHANGED <<initialWork, drawn, appVars, engine, automatic, pending,
                   pricingRefresh, nextId, backoff, startup, startupLoad,
                   writes, pricingTask, stopVars, disk, inventory, today, inputs>>

SkipAcquisition ==
    /\ pc = "acquisition" /\ pc' = "persistence"
    /\ ~\E job \in acquisitions : Done(job, AcquisitionResults)
    /\ UNCHANGED <<loopVars, appVars, controllerVars, taskVars, stopVars,
                   worldVars>>

\* Mutant: a failed write keeps the schedule of the previous generation.
BackoffKeptOnFailure(job) ==
    IF job.stage = "saved" THEN SavedBackoff(job.generation) ELSE backoff

BackoffAfter(job) ==
    IF job.stage = "saved" THEN SavedBackoff(job.generation) ELSE None

\* apply_persistence_result; this iteration's intents wait for the initial
\* work when startup was received in it.
AfterPersistence == IF initialWork = "none" THEN "intents" ELSE "draw"

ReceivePersistence ==
    /\ pc = "persistence" /\ pc' = AfterPersistence
    /\ \E job \in writes :
         /\ Done(job, WriteResults)
         /\ writes' = writes \ {job}
         /\ IF persistence = None \/ job.id # persistence.id
            THEN UNCHANGED <<persistence, backoff>>
            ELSE /\ persistence' = None
                 /\ backoff' = BackoffAfter(job)
    /\ UNCHANGED <<loopVars, appVars, engine, automatic, elapsed, pending,
                   active, pricingRefresh, nextId, startup, startupLoad,
                   acquisitions, pricingTask, stopVars, worldVars>>

SkipPersistence ==
    /\ pc = "persistence" /\ pc' = AfterPersistence
    /\ ~\E job \in writes : Done(job, WriteResults)
    /\ UNCHANGED <<loopVars, appVars, controllerVars, taskVars, stopVars,
                   worldVars>>

\* Mutant: a refresh asked for during a load is forgotten.
QueuedIntentsWhenIdle ==
    IF requested /\ active = None THEN Queue(pending, "manual") ELSE pending

QueuedIntents == IF requested THEN Queue(pending, "manual") ELSE pending

\* consume_app_intents: switching automatic refresh on restarts the clock; a
\* new interval may be shorter or longer than what has already elapsed.
ConsumeAppIntents ==
    /\ pc = "intents" /\ pc' = "clock"
    /\ automatic' = IF control = "toggle" THEN ~automatic ELSE automatic
    /\ CASE control = "toggle" -> elapsed' = (elapsed /\ ~automatic')
         [] control = "interval" -> elapsed' \in BOOLEAN
         [] OTHER -> UNCHANGED elapsed
    /\ pending' = QueuedIntents
    /\ control' = "none" /\ requested' = FALSE
    /\ UNCHANGED <<loopVars, day, order, engine, active, persistence,
                   pricingRefresh, nextId, backoff, taskVars, stopVars,
                   worldVars>>

\* on_tick_for_date: advancing the app's date reprojects the installed
\* generation and keeps the old date when that fails.
ClockTick ==
    /\ pc = "clock" /\ pc' = "start"
    /\ \/ day' = today /\ UNCHANGED failures
       \/ day # today /\ installed # None /\ Fail /\ UNCHANGED day
    /\ LET rolled == IF day # today /\ RelativeRange
                     THEN Queue(pending, "automatic") ELSE pending
       IN  pending' = IF automatic /\ elapsed /\ active = None
                      THEN Queue(rolled, "automatic") ELSE rolled
    /\ UNCHANGED <<loopVars, order, requested, control, engine, automatic,
                   elapsed, active, persistence, pricingRefresh, nextId,
                   backoff, taskVars, stopVars, disk, inventory, today, inputs>>

StartQueued ==
    /\ pc = "start" /\ pc' = "draw"
    /\ StartPending(pending)
    /\ UNCHANGED <<loopVars, appVars, automatic, elapsed, persistence,
                   pricingRefresh, startup, startupLoad, writes, pricingTask,
                   stopVars, worldVars>>

Draw ==
    /\ pc = "draw"
    /\ pc' = IF startup # "done" THEN "wait"
             ELSE IF initialWork # "none" THEN "initial" ELSE "persist"
    /\ drawn' = installed
    /\ UNCHANGED <<initialWork, status, installed, appVars, controllerVars,
                   taskVars, stopVars, worldVars>>

\* start_initial_background_work: the load starts before the pricing refresh;
\* the refresh takes over the load only when nothing could be started.
StartInitialWork ==
    /\ pc = "initial" /\ pc' = "persist" /\ initialWork' = "none"
    /\ IF initialWork = "load" THEN StartPending(Queue(pending, "automatic"))
       ELSE UNCHANGED <<engine, backoff, active, nextId, acquisitions, pending>>
    /\ IF Offline THEN UNCHANGED <<pricingRefresh, pricingTask>>
       ELSE /\ pricingRefresh' =
                 [needsLoad |-> initialWork = "load" /\ active' = None]
            /\ pricingTask' = [order |-> engine'.order,
                               catalog |-> engine'.catalog, fetched |-> FALSE]
    /\ UNCHANGED <<status, installed, drawn, appVars, automatic, elapsed,
                   persistence, startup, startupLoad, writes, stopVars,
                   worldVars>>

\* Mutant: the generation stays with the controller and is written again.
KeepForNextDraw(request) == request

TakeGeneration(request) == [request EXCEPT !.generation = None]

\* start_persistence, after the draw: the generation is taken, so one
\* installed generation spawns one writer.
StartPersistence ==
    /\ pc = "persist" /\ pc' = "wait"
    /\ IF persistence = None \/ persistence.generation = None
       THEN UNCHANGED <<persistence, writes>>
       ELSE /\ writes' = writes \cup
                 {[id |-> persistence.id, generation |-> persistence.generation,
                   stage |-> "waiting"]}
            /\ persistence' = TakeGeneration(persistence)
    /\ UNCHANGED <<loopVars, appVars, engine, automatic, elapsed, pending,
                   active, pricingRefresh, nextId, backoff, startup,
                   startupLoad, acquisitions, pricingTask, stopVars, worldVars>>

\* events.next returns: a tick is due every 100 ms, whatever the workers do.
Wake ==
    /\ pc = "wait" /\ pc' = "startup"
    /\ UNCHANGED <<loopVars, appVars, controllerVars, taskVars, stopVars,
                   worldVars>>


-----------------------------------------------------------------------------
(* Keys.  One event wakes one iteration; every key takes a unit of the      *)
(* input bound.                                                             *)

PressKey == pc = "wait" /\ pc' = "startup" /\ Input

PressRefresh ==
    /\ PressKey /\ requested' = TRUE
    /\ UNCHANGED <<loopVars, day, order, control, controllerVars, taskVars,
                   stopVars, disk, inventory, today, failures>>

\* Picking another pricing source order saves it and asks for a refresh.
PickOrder ==
    /\ PressKey
    /\ order' \in Orders \ {order} /\ requested' = TRUE
    /\ UNCHANGED <<loopVars, day, control, controllerVars, taskVars, stopVars,
                   disk, inventory, today, failures>>

\* Bound: one refresh control waits at a time.
PressControl ==
    /\ PressKey /\ control = "none"
    /\ control' \in {"toggle", "interval"}
    /\ UNCHANGED <<loopVars, day, order, requested, controllerVars, taskVars,
                   stopVars, disk, inventory, today, failures>>

-----------------------------------------------------------------------------
(* The acquisition worker.  After cancellation its result is not sent, so   *)
(* it only has to end.                                                      *)

AcquisitionSteps(job, steps) ==
    /\ acquisitions' = (acquisitions \ {job}) \cup steps
    /\ UNCHANGED <<pc, loopVars, appVars, controllerVars, startup, startupLoad,
                   writes, pricingTask, stopVars, disk, inventory, today, inputs>>

AbandonAcquisition(job) ==
    /\ cancelled /\ ~Done(job, AcquisitionResults)
    /\ AcquisitionSteps(job, {}) /\ UNCHANGED failures

\* Mutant: the first load, which has nothing to compare with, is spared too.
SpareFirstLoad(job) == ~job.force /\ job.last \in {None, inventory}

\* Mutant: the prepared fingerprint is not kept for the generation.
PreparedWithoutFingerprint(job, same) ==
    At(job, IF same THEN "unchanged" ELSE "building")

SpareRebuild(job) == ~job.force /\ job.last = inventory

Prepared(job, same) ==
    At([job EXCEPT !.fingerprint = inventory],
       IF same THEN "unchanged" ELSE "building")

\* prepare, then the comparison that spares an unforced rebuild.
PrepareInventory(job) ==
    /\ job.stage = "preparing" /\ ~cancelled
    /\ AcquisitionSteps(job, {Prepared(job, SpareRebuild(job))})
    /\ UNCHANGED failures

\* build and the first projection.  Unreadable inputs do not fail the build:
\* they leave health that asks for a retry.
BuildGeneration(job) ==
    /\ job.stage = "building" /\ ~cancelled
    /\ \E retry \in BOOLEAN :
         AcquisitionSteps(job, {At([job EXCEPT !.retry = retry], "loaded")})
    /\ UNCHANGED failures

\* An error of any phase, or a panic the worker turns into an error.
FailAcquisition(job) ==
    /\ job.stage \in {"preparing", "building"} /\ ~cancelled /\ Fail
    /\ AcquisitionSteps(job, {At(job, "failed")})

-----------------------------------------------------------------------------
(* The persistence worker.                                                  *)

WriterFrame ==
    UNCHANGED <<pc, loopVars, appVars, controllerVars, startup, startupLoad,
                acquisitions, pricingTask, cancelled, inventory, today, inputs>>

WriterMoves(job, stage) ==
    writes' = (writes \ {job}) \cup {At(job, stage)}

\* The worker ends; the supervisor's flag decides whether it reports.
WriterEnds(job, result) ==
    IF cancelled THEN writes' = writes \ {job} ELSE WriterMoves(job, result)

\* A poisoned gate fails every later writer before it touches the file.
LockGate(job) ==
    /\ job.stage = "waiting" /\ gate = None
    /\ IF poisoned THEN WriterEnds(job, "failed") /\ UNCHANGED gate
       ELSE WriterMoves(job, "locked") /\ gate' = job.id
    /\ UNCHANGED <<poisoned, disk, failures>> /\ WriterFrame

\* Mutant: the writer does not look at the flag again once it has the gate.
WriteRegardless(job) ==
    /\ job.stage = "locked"
    /\ WriterMoves(job, "writing")
    /\ UNCHANGED <<gate, poisoned, disk, failures>> /\ WriterFrame

\* Mutant: a cancelled writer leaves with the gate locked.
CancelledKeepsGate(job) ==
    /\ job.stage = "locked"
    /\ IF cancelled THEN WriterEnds(job, "failed") ELSE WriterMoves(job, "writing")
    /\ UNCHANGED <<gate, poisoned, disk, failures>> /\ WriterFrame

CheckCancellation(job) ==
    /\ job.stage = "locked"
    /\ IF cancelled THEN WriterEnds(job, "failed") /\ gate' = None
       ELSE WriterMoves(job, "writing") /\ UNCHANGED gate
    /\ UNCHANGED <<poisoned, disk, failures>> /\ WriterFrame

\* write_atomic_with renames the complete temporary file over the cache.
ReplaceCache(job) ==
    /\ job.stage = "writing" /\ WriterMoves(job, "replaced")
    /\ disk' = job.generation
    /\ UNCHANGED <<gate, poisoned, failures>> /\ WriterFrame

\* The write fails before the rename, by an error or by a panic that poisons.
FailWrite(job) ==
    /\ job.stage = "writing" /\ Fail
    /\ WriterEnds(job, "failed") /\ gate' = None
    /\ poisoned' \in {poisoned, TRUE}
    /\ UNCHANGED disk /\ WriterFrame

\* Synchronising the directory can still fail after the rename.
FinishWrite(job) ==
    /\ job.stage = "replaced" /\ gate' = None
    /\ \/ WriterEnds(job, "saved") /\ UNCHANGED failures
       \/ WriterEnds(job, "failed") /\ Fail
    /\ UNCHANGED <<poisoned, disk>> /\ WriterFrame

-----------------------------------------------------------------------------
(* The pricing task, and the world around the process.                      *)

FetchPricing ==
    /\ pricingTask # None /\ ~pricingTask.fetched
    /\ \E catalog \in Catalogs :
         pricingTask' = [order |-> pricingTask.order, catalog |-> catalog,
                         fetched |-> TRUE]
    /\ UNCHANGED <<pc, loopVars, appVars, controllerVars, startup, startupLoad,
                   acquisitions, writes, stopVars, worldVars>>

WorldFrame ==
    /\ ~cancelled /\ Input
    /\ UNCHANGED <<pc, loopVars, appVars, engine, automatic, pending, active,
                   persistence, pricingRefresh, nextId, taskVars, stopVars,
                   disk, failures>>

\* Time passes while the loop waits for its next event: within an iteration it
\* would be read at the same later step.
TimePasses == pc = "wait" /\ WorldFrame

ChangeInputs ==
    /\ WorldFrame /\ inventory' \in Fingerprints \ {inventory}
    /\ UNCHANGED <<today, elapsed, backoff>>

PassMidnight ==
    /\ TimePasses /\ today < MaxDay /\ today' = today + 1
    /\ UNCHANGED <<inventory, elapsed, backoff>>

ElapseInterval ==
    /\ TimePasses /\ ~elapsed /\ elapsed' = TRUE
    /\ UNCHANGED <<inventory, today, backoff>>

ReachRetry ==
    /\ TimePasses /\ backoff # None /\ ~backoff.due
    /\ backoff' = [backoff EXCEPT !.due = TRUE]
    /\ UNCHANGED <<inventory, today, elapsed>>

\* The process has exited.
Terminated == pc = "stopped" /\ UNCHANGED vars

-----------------------------------------------------------------------------
LoopStep ==
    \/ ReceiveStartup \/ FailStartup \/ SkipStartup
    \/ ReceivePricing \/ SkipPricing
    \/ ReceiveAcquisition \/ SkipAcquisition
    \/ ReceivePersistence \/ SkipPersistence
    \/ ConsumeAppIntents \/ ClockTick \/ StartQueued
    \/ Draw \/ StartInitialWork \/ StartPersistence \/ Wake
    \/ DrainGate \/ JoinTasks

AcquisitionStep ==
    \E job \in acquisitions :
        \/ AbandonAcquisition(job) \/ PrepareInventory(job)
        \/ BuildGeneration(job) \/ FailAcquisition(job)

WriterStep ==
    \E job \in writes :
        \/ LockGate(job) \/ CheckCancellation(job) \/ ReplaceCache(job)
        \/ FailWrite(job) \/ FinishWrite(job)

Environment ==
    \/ Leave \/ PressRefresh \/ PickOrder \/ PressControl
    \/ ChangeInputs \/ PassMidnight \/ ElapseInterval \/ ReachRetry

Next ==
    \/ LoopStep \/ FinishStartup \/ AcquisitionStep \/ WriterStep
    \/ FetchPricing \/ Environment \/ Terminated

Spec == Init /\ [][Next]_vars

\* The UI thread runs and its tick thread keeps waking it; threads and the
\* runtime are scheduled.  Nothing is assumed of keys, clocks or the inputs.
Fairness ==
    /\ WF_vars(LoopStep) /\ WF_vars(FinishStartup)
    /\ WF_vars(AcquisitionStep) /\ WF_vars(WriterStep) /\ WF_vars(FetchPricing)

FairSpec == Spec /\ Fairness


-----------------------------------------------------------------------------
(* Properties.                                                             *)

\* The type of every variable of the session.
TypeOK ==
    /\ pc \in LoopSteps \cup StopSteps
    /\ initialWork \in {"none", "resume", "load"}
    /\ status \in {"empty", "ready", "degraded", "failed"}
    /\ installed \in Generation \cup {None} /\ drawn \in Generation \cup {None}
    /\ day \in Days /\ order \in Orders /\ requested \in BOOLEAN
    /\ control \in {"none", "toggle", "interval"}
    /\ engine \in Context /\ automatic \in BOOLEAN /\ elapsed \in BOOLEAN
    /\ pending \in Requests
    /\ active \in [id : Nat, force : BOOLEAN] \cup {None}
    /\ persistence \in [id : Nat, generation : Generation \cup {None}] \cup {None}
    /\ pricingRefresh \in [needsLoad : BOOLEAN] \cup {None}
    /\ nextId \in Nat /\ backoff \in RetryBackoff \cup {None}
    /\ startup \in {"loading", "sent", "done"}
    /\ startupLoad \in StartupLoad \cup {None}
    /\ acquisitions \in SUBSET AcquisitionJob /\ writes \in SUBSET WriteJob
    /\ pricingTask \in [order : Orders, catalog : Catalogs, fetched : BOOLEAN]
                         \cup {None}
    /\ cancelled \in BOOLEAN /\ gate \in Nat \cup {None} /\ poisoned \in BOOLEAN
    /\ disk \in Generation \cup {None} /\ inventory \in Fingerprints
    /\ today \in Days
    /\ inputs \in 0 .. MaxInputs /\ failures \in 0 .. MaxFailures

\* The controller never runs two acquisitions or two writers, never runs one
\* while the other is owed, and a worker or unread result always answers the
\* request it is recorded under (generation_controller.rs, start_pending).
SingleFlight ==
    /\ \A a, b \in acquisitions : a = b
    /\ \A a, b \in writes : a = b
    /\ active = None \/ persistence = None
    /\ ~cancelled =>
         /\ active # None <=> acquisitions # {}
         /\ (persistence # None /\ persistence.generation = None) <=> writes # {}
    /\ active # None =>
         \A job \in acquisitions : job.id = active.id /\ job.force = active.force
    /\ persistence # None => \A job \in writes : job.id = persistence.id

\* A writer only ever holds the generation that is installed and that the
\* terminal already shows (start_persistence runs after the draw).
WritesOnlyShown ==
    \A job \in writes : job.generation = installed /\ job.generation = drawn

\* The retry schedule start_pending consults is the schedule of the installed
\* generation: while a write is owed no load can start, and every other change
\* of generation or context resets it.
BackoffOfInstalled ==
    backoff # None /\ installed # None /\ persistence = None
        => backoff.owner = installed.serial /\ installed.retry

\* An accepted "unchanged" answer was compared with the fingerprint of the
\* generation that is installed when the answer arrives.
UnchangedIsCurrent ==
    \A job \in acquisitions : job.stage = "unchanged" =>
        installed # None /\ installed.fingerprint = job.fingerprint

\* A generation shown as ready but built under another context than the
\* controller's is always about to be replaced by a forced load: a manual
\* request is queued, or the running load is forced under the new context.
NoSilentMismatch ==
    status = "ready" /\ installed.context # engine /\ ~cancelled =>
        \/ pending = "manual"
        \/ /\ active # None /\ active.force
           /\ \A job \in acquisitions : job.context = engine

\* The installed generation is only ever replaced by one requested later, and
\* no failure removes it.
InstalledOnlyAdvances ==
    [][installed' # installed =>
         /\ installed' # None
         /\ installed # None => installed.serial < installed'.serial]_vars

\* Once drain has passed the writers' gate, no writer reaches the file.
SealedAfterDrain == [][(pc \in {"joining", "stopped"}) => (disk' = disk)]_vars

\* What ADR 0003 says of context changes: they rebuild even when the inventory
\* is unchanged.  No load may answer "unchanged" under a context the installed
\* generation was not built for.
UnchangedKeepsContext ==
    \A job \in acquisitions : job.stage = "unchanged" =>
        job.context = installed.context

\* Every refresh the user asks for is eventually run as a forced load.
ManualRefreshRuns ==
    requested ~> (cancelled \/ (active # None /\ active.force))

\* A cold start ends: with a generation on display or an explicit failure.
ColdStartSettles == <>(cancelled \/ status # "empty")

\* Shutdown ends, whatever the workers were doing.
ShutdownCompletes == cancelled ~> pc = "stopped"

\* Without failures the display settles on the user's order, the current
\* catalogs and the current date, and the cache file on what is displayed.
ContextConverges == [](failures = 0) =>
    <>[](cancelled \/ (/\ installed # None
                       /\ installed.context.order = order
                       /\ installed.context.catalog = engine.catalog
                       /\ RelativeRange => installed.context.day = day))

CacheCatchesUp == [](failures = 0) =>
    <>[](cancelled \/ (disk = installed /\ persistence = None))

\* The session implements PublishedGeneration: installed is what is shown, the
\* cache file is durable, and the drained gate seals it.
Published == INSTANCE PublishedGeneration WITH
    shown <- installed, durable <- disk,
    phase <- IF ~cancelled THEN "open"
             ELSE IF pc = "draining" THEN "closing" ELSE "sealed"
PublishedSpec == Published!Spec

=============================================================================
