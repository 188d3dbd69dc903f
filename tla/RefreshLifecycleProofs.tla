----------------------- MODULE RefreshLifecycleProofs -----------------------
(***************************************************************************)
(* Proofs about RefreshLifecycle for every pricing order, catalog,          *)
(* fingerprint and bound.  One inductive invariant, Inv, carries type       *)
(* correctness, the single flight of loads and writes, the pairing of every *)
(* writer with what the terminal shows, and the refinement of               *)
(* PublishedGeneration.  On it stands a second one, KnownInv: what the       *)
(* controller knows of the installed generation stays true of it.  Its      *)
(* retry schedule, the fingerprint a running load compares with and the     *)
(* context it is built under all lag behind by at most what is queued.      *)
(***************************************************************************)
EXTENDS RefreshLifecycle, TLAPS

\* The loop is stopping exactly when cancellation has been signalled.
StopInv == cancelled <=> pc \in StopSteps

\* Before the startup result is received there is no controller: nothing is
\* installed, requested, running or written.
ColdInv ==
    /\ startup = "sent" => startupLoad # None
    /\ startup # "done" =>
        /\ pc \in {"startup", "draw", "wait"} \cup StopSteps
        /\ installed = None /\ active = None /\ persistence = None
        /\ acquisitions = {} /\ writes = {}

\* Request numbers only grow, and the installed generation is older than the
\* load that is running.
SerialInv ==
    /\ installed # None => installed.serial < nextId
    /\ active # None => active.id < nextId
    /\ active # None /\ installed # None => installed.serial < active.id
    /\ startupLoad # None /\ startupLoad.cached # None =>
         startupLoad.cached.serial < nextId
    /\ disk # None => disk.serial < nextId

\* From the draw to the start of the writer the terminal shows the installed
\* generation, and what the controller owes to the cache is that generation.
ShownInv ==
    /\ pc \in {"initial", "persist"} => drawn = installed
    /\ persistence # None /\ persistence.generation # None =>
         persistence.generation = installed
    /\ WritesOnlyShown

\* The gate is held by a writer past it, and none of those is about to write
\* once drain has passed the gate.
GateInv ==
    /\ gate = None => \A job \in writes : job.stage \notin {"locked", "writing", "replaced"}
    /\ pc \in {"joining", "stopped"} => \A job \in writes : job.stage # "writing"

\* A loaded job has a fingerprint; this is what makes its generation one.
JobInv ==
    \A job \in acquisitions :
        job.stage \in {"building", "loaded", "unchanged"} => job.fingerprint # None

Inv == /\ TypeOK /\ StopInv /\ ColdInv /\ SerialInv /\ SingleFlight
       /\ ShownInv /\ GateInv /\ JobInv

-----------------------------------------------------------------------------
(* Types of what the helpers return.                                       *)

\* The startup worker's answers are startup loads.
LEMMA StartupLoadType ==
    /\ MissingLoad \in StartupLoad
    /\ disk \in Generation =>
         \A fresh, due \in BOOLEAN : CachedLoad(fresh, due) \in StartupLoad
<1>1. MissingLoad \in StartupLoad
  BY DEF MissingLoad, StartupLoad
<1>2. ASSUME disk \in Generation, NEW fresh \in BOOLEAN, NEW due \in BOOLEAN
      PROVE  CachedLoad(fresh, due) \in StartupLoad
  <2>1. disk.retry \in BOOLEAN /\ disk.serial \in Nat
    BY <1>2 DEF Generation
  <2>2. (IF disk.retry THEN due ELSE ~fresh) \in BOOLEAN
    BY <2>1
  <2>3. (IF disk.retry THEN [owner |-> disk.serial, due |-> due] ELSE None)
          \in RetryBackoff \cup {None}
    BY <2>1 DEF RetryBackoff
  <2> QED
    BY <1>2, <2>2, <2>3 DEF CachedLoad, StartupLoad
<1> QED
  BY <1>1, <1>2

\* Moving a job to another stage changes nothing else of it.
LEMMA AtAcquisition ==
    ASSUME NEW job \in AcquisitionJob,
           NEW stage \in {"preparing", "building"} \cup AcquisitionResults
    PROVE  /\ At(job, stage) \in AcquisitionJob
           /\ At(job, stage).stage = stage
           /\ At(job, stage).id = job.id /\ At(job, stage).force = job.force
           /\ At(job, stage).fingerprint = job.fingerprint
BY DEF At, AcquisitionJob

\* A writer that moves to another stage keeps its number and its generation.
LEMMA AtWrite ==
    ASSUME NEW job \in WriteJob,
           NEW stage \in {"waiting", "locked", "writing", "replaced"}
                           \cup WriteResults
    PROVE  /\ At(job, stage) \in WriteJob
           /\ At(job, stage).stage = stage /\ At(job, stage).id = job.id
           /\ At(job, stage).generation = job.generation
BY DEF At, WriteJob

\* Queueing a request yields a request.
LEMMA QueueType ==
    ASSUME NEW queued \in Requests, NEW request \in Requests
    PROVE  Queue(queued, request) \in Requests
BY DEF Queue

\* A successful write returns a schedule of the generation it wrote, or none.
LEMMA SavedBackoffType ==
    ASSUME NEW generation \in Generation
    PROVE  SavedBackoff(generation) \in RetryBackoff \cup {None}
BY DEF SavedBackoff, Generation, RetryBackoff

\* What a finished load publishes is a generation.
LEMMA BuiltGenerationType ==
    ASSUME NEW job \in AcquisitionJob, job.fingerprint # None
    PROVE  /\ BuiltGeneration(job) \in Generation
           /\ BuiltGeneration(job).serial = job.id
BY DEF BuiltGeneration, Generation, AcquisitionJob

\* The context rebuilt from the settings and the date is a context.
LEMMA RefreshedContextType == TypeOK => RefreshedContext \in Context
BY DEF TypeOK, RefreshedContext, Context

\* start_pending keeps every variable it writes in its type, and what it
\* starts is one load, recorded under the number it takes.
LEMMA StartPendingResult ==
    ASSUME TypeOK, NEW queued \in Requests, StartPending(queued)
    PROVE  /\ pending' \in Requests /\ engine' \in Context
           /\ backoff' \in RetryBackoff \cup {None}
           /\ active' \in [id : Nat, force : BOOLEAN] \cup {None}
           /\ nextId' \in Nat /\ acquisitions' \in SUBSET AcquisitionJob
           /\ \/ UNCHANGED <<active, nextId, acquisitions>>
              \/ /\ ~Blocked /\ active' # None
                 /\ active'.id = nextId /\ nextId' = nextId + 1
                 /\ \E job \in AcquisitionJob :
                      /\ acquisitions' = acquisitions \cup {job}
                      /\ job.id = active'.id /\ job.force = active'.force
                      /\ job.stage = "preparing"
<1> USE DEF TypeOK
<1>1. CASE queued = "none" \/ Blocked
  BY <1>1 DEF StartPending
<1>2. CASE ~(queued = "none" \/ Blocked)
  <2> DEFINE changed == RefreshedContext # engine
             retry == IF changed THEN None ELSE backoff
             force == ForceReload(queued = "manual" \/ changed, installed, retry)
             last == IF installed = None THEN None ELSE installed.fingerprint
             job == [id |-> nextId, force |-> force, context |-> RefreshedContext,
                     last |-> last, fingerprint |-> None, retry |-> FALSE,
                     stage |-> "preparing"]
  <2>1. retry \in RetryBackoff \cup {None}
    OBVIOUS
  <2>2. force \in BOOLEAN
    BY DEF ForceReload
  <2>3. last \in Fingerprints \cup {None}
    BY DEF Generation
  <2>4. RefreshedContext \in Context
    BY RefreshedContextType
  <2>5. /\ pending' = "none" /\ engine' = RefreshedContext /\ backoff' = retry
        /\ active' = [id |-> nextId, force |-> force] /\ nextId' = nextId + 1
        /\ acquisitions' = acquisitions \cup {job}
    BY <1>2 DEF StartPending
  <2> HIDE DEF changed, retry, force, last
  <2>6. job \in AcquisitionJob
    BY <2>2, <2>3, <2>4 DEF AcquisitionJob
  <2>7. active' \in [id : Nat, force : BOOLEAN]
    BY <2>2, <2>5
  <2>8. job.id = active'.id /\ job.force = active'.force /\ job.stage = "preparing"
    BY <2>5
  <2> HIDE DEF job
  <2> QED
    BY <1>2, <2>1, <2>4, <2>5, <2>6, <2>7, <2>8, NoneAssumption DEF Requests
<1> QED
  BY <1>1, <1>2

\* The environment's two counters stay within their bounds.
LEMMA BoundStep ==
    TypeOK => /\ Fail => failures' \in 0 .. MaxFailures
              /\ Input => inputs' \in 0 .. MaxInputs
BY BoundsAssumption DEF TypeOK, Fail, Input

\* TypeOK in four parts, which the provers handle one at a time.
LoopTypes ==
    /\ pc \in LoopSteps \cup StopSteps
    /\ initialWork \in {"none", "resume", "load"}
    /\ status \in {"empty", "ready", "degraded", "failed"}
    /\ installed \in Generation \cup {None} /\ drawn \in Generation \cup {None}
    /\ day \in Days /\ order \in Orders /\ requested \in BOOLEAN
    /\ control \in {"none", "toggle", "interval"}

ControllerTypes ==
    /\ engine \in Context /\ automatic \in BOOLEAN /\ elapsed \in BOOLEAN
    /\ pending \in Requests
    /\ active \in [id : Nat, force : BOOLEAN] \cup {None}
    /\ persistence \in [id : Nat, generation : Generation \cup {None}] \cup {None}
    /\ pricingRefresh \in [needsLoad : BOOLEAN] \cup {None}
    /\ nextId \in Nat /\ backoff \in RetryBackoff \cup {None}

TaskTypes ==
    /\ startup \in {"loading", "sent", "done"}
    /\ startupLoad \in StartupLoad \cup {None}
    /\ acquisitions \in SUBSET AcquisitionJob /\ writes \in SUBSET WriteJob
    /\ pricingTask \in [order : Orders, catalog : Catalogs, fetched : BOOLEAN]
                         \cup {None}
    /\ cancelled \in BOOLEAN /\ gate \in Nat \cup {None} /\ poisoned \in BOOLEAN

WorldTypes ==
    /\ disk \in Generation \cup {None} /\ inventory \in Fingerprints
    /\ today \in Days
    /\ inputs \in 0 .. MaxInputs /\ failures \in 0 .. MaxFailures

\* The four parts together are TypeOK.
LEMMA TypeParts ==
    TypeOK <=> LoopTypes /\ ControllerTypes /\ TaskTypes /\ WorldTypes
BY DEF TypeOK, LoopTypes, ControllerTypes, TaskTypes, WorldTypes

\* The same of the next state.
LEMMA TypePartsNext ==
    TypeOK' <=> LoopTypes' /\ ControllerTypes' /\ TaskTypes' /\ WorldTypes'
BY DEF TypeOK, LoopTypes, ControllerTypes, TaskTypes, WorldTypes

\* The startup worker reports a load, and offers no generation but the cached.
LEMMA StartupResult ==
    ASSUME TypeOK, FinishStartup
    PROVE  /\ startupLoad' \in StartupLoad /\ startupLoad' # None
           /\ startupLoad'.cached = None \/ startupLoad'.cached = disk
<1>t. disk \in Generation \cup {None}
  BY DEF TypeOK
<1>m. MissingLoad \in StartupLoad /\ MissingLoad.cached = None
  BY StartupLoadType DEF MissingLoad
<1>1. startupLoad' \in StartupLoad
      /\ (startupLoad'.cached = None \/ startupLoad'.cached = disk)
  <2>1. CASE LoadCached
    <3>1. PICK fresh, due \in BOOLEAN : startupLoad' = CachedLoad(fresh, due)
      BY <2>1 DEF LoadCached
    <3>2. CachedLoad(fresh, due).cached = disk
      BY DEF CachedLoad
    <3> QED
      BY <1>t, <2>1, <3>1, <3>2, StartupLoadType DEF LoadCached, CacheMatches
  <2>2. CASE LoadMissing
    BY <1>m, <2>2 DEF LoadMissing
  <2>3. CASE LoadRejected
    <3>1. ASSUME NEW due \in BOOLEAN,
                 startupLoad' = [MissingLoad EXCEPT
                                   !.backoff = CachedLoad(FALSE, due).backoff]
          PROVE  startupLoad' \in StartupLoad /\ startupLoad'.cached = None
      <4>1. CachedLoad(FALSE, due).backoff \in RetryBackoff \cup {None}
        BY <1>t, <2>3, StartupLoadType DEF LoadRejected, StartupLoad
      <4> QED
        BY <1>m, <3>1, <4>1 DEF StartupLoad
    <3> QED
      BY <1>m, <2>3, <3>1 DEF LoadRejected
  <2>4. CASE LoadFailed
    BY <1>m, <2>4 DEF LoadFailed, StartupLoad
  <2> QED
    BY <2>1, <2>2, <2>3, <2>4 DEF FinishStartup
<1> QED
  BY <1>1, NoneAssumption

\* Every request number is a natural number.
LEMMA Serials ==
    ASSUME TypeOK
    PROVE  /\ nextId \in Nat
           /\ installed # None => installed.serial \in Nat
           /\ active # None => active.id \in Nat
           /\ disk # None => disk.serial \in Nat
           /\ startupLoad # None /\ startupLoad.cached # None =>
                startupLoad.cached.serial \in Nat
BY DEF TypeOK, Generation, StartupLoad

-----------------------------------------------------------------------------
(* Inv holds initially.                                                    *)

\* The initial states satisfy the invariant.
LEMMA InitInv == Init => Inv
<1> SUFFICES ASSUME Init PROVE Inv
  OBVIOUS
<1>1. TypeOK
  <2>1. LoopTypes
    <3>1. /\ pc = "startup" /\ initialWork = "none" /\ status = "empty"
          /\ installed = None /\ drawn = None /\ day = 0 /\ order \in Orders
          /\ control = "none"
      BY DEF Init
    <3>2. requested \in BOOLEAN
      BY Zenon DEF Init
    <3> QED
      BY <3>1, <3>2, BoundsAssumption DEF LoopTypes, LoopSteps, Days
  <2>2. ControllerTypes
    <3>1. engine \in Context
      BY BoundsAssumption DEF Init, Context, Days
    <3> QED
      BY <3>1 DEF Init, ControllerTypes, Requests
  <2>3. TaskTypes
    BY DEF Init, TaskTypes
  <2>4. WorldTypes
    <3>1. disk \in Generation \cup {None}
      BY DEF Init, Generation
    <3>2. inventory \in Fingerprints /\ today = 0 /\ inputs = 0 /\ failures = 0
      BY DEF Init
    <3> QED
      BY <3>1, <3>2, BoundsAssumption DEF WorldTypes, Days
  <2> QED
    BY <2>1, <2>2, <2>3, <2>4, TypeParts
<1>2. StopInv /\ ColdInv
  BY DEF Init, StopInv, ColdInv, StopSteps
<1>3. SerialInv
  <2>1. disk # None => disk.serial = 0
    BY DEF Init
  <2>2. installed = None /\ active = None /\ startupLoad = None /\ nextId = 1
    BY DEF Init
  <2> QED
    BY <2>1, <2>2 DEF SerialInv
<1>4. SingleFlight /\ ShownInv /\ GateInv /\ JobInv
  BY DEF Init, SingleFlight, ShownInv, WritesOnlyShown, GateInv, JobInv
<1> QED
  BY <1>1, <1>2, <1>3, <1>4 DEF Inv

-----------------------------------------------------------------------------
(* Every step keeps the types.                                             *)

\* No step takes a variable out of its type.
LEMMA TypeStep == Inv /\ [Next]_vars => TypeOK'
<1> SUFFICES ASSUME Inv, [Next]_vars PROVE TypeOK'
  OBVIOUS
<1> USE BoundsAssumption
    DEF Inv, TypeOK, loopVars, appVars, controllerVars, taskVars, stopVars,
        worldVars, LoopSteps, StopSteps
<1>1. CASE FinishStartup
  <2>1. startupLoad' \in StartupLoad
    BY <1>1, StartupResult
  <2>2. failures' \in 0 .. MaxFailures
    BY <1>1, BoundStep DEF FinishStartup, LoadCached, LoadMissing, LoadRejected,
                           LoadFailed
  <2> QED
    BY <1>1, <2>1, <2>2 DEF FinishStartup
<1>2. CASE Leave \/ DrainGate \/ JoinTasks
  <2>1. CASE Leave
    BY <2>1 DEF Leave, SignalCancel
  <2>2. CASE DrainGate
    BY <2>2 DEF DrainGate
  <2>3. CASE JoinTasks
    BY <2>3 DEF JoinTasks
  <2> QED
    BY <1>2, <2>1, <2>2, <2>3
<1>3. CASE ReceiveStartup
  <2>1. startupLoad \in StartupLoad
    BY <1>3 DEF ColdInv, ReceiveStartup
  <2> QED
    BY <1>3, <2>1 DEF ReceiveStartup, StartupLoad
<1>4. CASE FailStartup \/ SkipStartup
  <2>1. failures' \in 0 .. MaxFailures
    BY <1>4, BoundStep DEF FailStartup, SkipStartup
  <2> QED
    <3>1. CASE FailStartup
      BY <2>1, <3>1 DEF FailStartup, SignalCancel
    <3>2. CASE SkipStartup
      BY <3>2 DEF SkipStartup
    <3> QED
      BY <1>4, <3>1, <3>2
<1>5. CASE ReceivePricing
  <2>1. pricingTask \in [order : Orders, catalog : Catalogs, fetched : BOOLEAN]
    BY <1>5 DEF ReceivePricing, PricingFetched
  <2>2. engine' \in Context
    BY <1>5, <2>1 DEF ReceivePricing, Context
  <2>3. backoff' \in RetryBackoff \cup {None} /\ pending' \in Requests
    BY <1>5, QueueType DEF ReceivePricing, Requests
  <2> QED
    BY <1>5, <2>2, <2>3 DEF ReceivePricing
<1>6. CASE SkipPricing \/ SkipAcquisition \/ SkipPersistence
  BY <1>6 DEF SkipPricing, SkipAcquisition, SkipPersistence, AfterPersistence
<1>7. CASE ReceiveAcquisition
  <2>1. PICK job \in acquisitions :
          /\ Done(job, AcquisitionResults)
          /\ acquisitions' = acquisitions \ {job}
          /\ IF active = None \/ job.id # active.id
             THEN KeepUnchanged /\ UNCHANGED <<active, elapsed>>
             ELSE /\ active' = None /\ elapsed' = FALSE
                  /\ CASE job.stage = "loaded" -> InstallLoaded(job) \/ RejectLoaded
                       [] job.stage = "failed" -> FailLoad
                       [] job.stage = "unchanged" /\ active.force -> FailLoad
                       [] OTHER -> KeepUnchanged
    BY <1>7 DEF ReceiveAcquisition
  <2>2. \/ KeepUnchanged \/ FailLoad \/ RejectLoaded
        \/ job.stage = "loaded" /\ InstallLoaded(job)
    BY <2>1
  <2>3. /\ installed' \in Generation \cup {None}
        /\ persistence' \in [id : Nat, generation : Generation \cup {None}] \cup {None}
        /\ status' \in {"empty", "ready", "degraded", "failed"}
        /\ failures' \in 0 .. MaxFailures
    <3>1. CASE job.stage = "loaded" /\ InstallLoaded(job)
      <4>1. BuiltGeneration(job) \in Generation /\ job.id \in Nat
        BY <3>1, BuiltGenerationType DEF JobInv, AcquisitionJob
      <4> QED
        BY <3>1, <4>1 DEF InstallLoaded
    <3>2. CASE KeepUnchanged \/ FailLoad \/ RejectLoaded
      BY <3>2, BoundStep DEF KeepUnchanged, FailLoad, RejectLoaded, FailedStatus
    <3> QED
      BY <2>2, <3>1, <3>2
  <2>4. active' \in {active, None} /\ elapsed' \in BOOLEAN
    BY <2>1
  <2> QED
    BY <1>7, <2>1, <2>3, <2>4 DEF ReceiveAcquisition
<1>8. CASE ReceivePersistence
  <2>1. PICK job \in writes :
          /\ writes' = writes \ {job}
          /\ IF persistence = None \/ job.id # persistence.id
             THEN UNCHANGED <<persistence, backoff>>
             ELSE /\ persistence' = None
                  /\ backoff' = BackoffAfter(job)
    BY <1>8 DEF ReceivePersistence
  <2>2. BackoffAfter(job) \in RetryBackoff \cup {None}
    BY SavedBackoffType DEF BackoffAfter, WriteJob
  <2> QED
    BY <1>8, <2>1, <2>2 DEF ReceivePersistence, AfterPersistence
<1>9. CASE ConsumeAppIntents
  <2>1. pending' \in Requests
    BY <1>9, QueueType DEF ConsumeAppIntents, QueuedIntents, Requests
  <2>2. automatic' \in BOOLEAN
    BY <1>9 DEF ConsumeAppIntents
  <2>3. elapsed' \in BOOLEAN
    BY <1>9 DEF ConsumeAppIntents
  <2> QED
    <3>1. /\ pc' = "clock" /\ requested' = FALSE /\ control' = "none"
          /\ UNCHANGED <<loopVars, day, order, engine, active, persistence,
                         pricingRefresh, nextId, backoff, taskVars, stopVars,
                         worldVars>>
      BY <1>9 DEF ConsumeAppIntents
    <3>2. LoopTypes'
      BY <3>1 DEF LoopTypes
    <3>3. ControllerTypes'
      BY <2>1, <2>2, <2>3, <3>1 DEF ControllerTypes
    <3>4. TaskTypes' /\ WorldTypes'
      BY <3>1 DEF TaskTypes, WorldTypes
    <3> QED
      BY <3>2, <3>3, <3>4, TypePartsNext
<1>10. CASE ClockTick
  <2>1. pending' \in Requests
    BY <1>10, QueueType DEF ClockTick, Requests
  <2> QED
    BY <1>10, <2>1, BoundStep DEF ClockTick
<1>11. CASE StartQueued
  BY <1>11, StartPendingResult DEF StartQueued
<1>12. CASE Draw \/ Wake
  BY <1>12 DEF Draw, Wake
<1>13. CASE StartInitialWork
  <2>1. /\ pending' \in Requests /\ engine' \in Context
        /\ backoff' \in RetryBackoff \cup {None}
        /\ active' \in [id : Nat, force : BOOLEAN] \cup {None}
        /\ nextId' \in Nat /\ acquisitions' \in SUBSET AcquisitionJob
    <3>1. Queue(pending, "automatic") \in Requests
      BY QueueType DEF Requests
    <3> QED
      BY <1>13, <3>1, StartPendingResult DEF StartInitialWork
  <2>2. pricingRefresh' \in [needsLoad : BOOLEAN] \cup {None}
    <3> DEFINE needs == initialWork = "load" /\ active' = None
    <3>1. needs \in BOOLEAN
      OBVIOUS
    <3>2. pricingRefresh' \in {pricingRefresh, [needsLoad |-> needs]}
      BY <1>13 DEF StartInitialWork
    <3> HIDE DEF needs
    <3> QED
      BY <3>1, <3>2
  <2>3. pricingTask' \in [order : Orders, catalog : Catalogs, fetched : BOOLEAN]
                           \cup {None}
    <3>1. engine'.order \in Orders /\ engine'.catalog \in Catalogs
      BY <2>1 DEF Context
    <3>2. [order |-> engine'.order, catalog |-> engine'.catalog, fetched |-> FALSE]
            \in [order : Orders, catalog : Catalogs, fetched : BOOLEAN]
      BY <3>1
    <3>3. \/ UNCHANGED pricingTask
          \/ pricingTask' = [order |-> engine'.order,
                             catalog |-> engine'.catalog, fetched |-> FALSE]
      BY <1>13 DEF StartInitialWork
    <3> QED
      BY <3>2, <3>3
  <2> QED
    BY <1>13, <2>1, <2>2, <2>3 DEF StartInitialWork
<1>14. CASE StartPersistence
  BY <1>14 DEF StartPersistence, TakeGeneration, WriteJob
<1>15. CASE PressRefresh \/ PickOrder \/ PressControl
  <2>1. inputs' \in 0 .. MaxInputs
    BY <1>15, BoundStep DEF PressRefresh, PickOrder, PressControl, PressKey
  <2> QED
    <3>1. pc' = "startup" /\ requested' \in BOOLEAN /\ order' \in Orders
          /\ control' \in {"none", "toggle", "interval"}
      BY <1>15 DEF PressRefresh, PickOrder, PressControl, PressKey
    <3>2. UNCHANGED <<loopVars, day, controllerVars, taskVars, stopVars, disk,
                      inventory, today, failures>>
      BY <1>15 DEF PressRefresh, PickOrder, PressControl
    <3>3. LoopTypes'
      BY <3>1, <3>2 DEF LoopTypes
    <3>4. ControllerTypes' /\ TaskTypes'
      BY <3>2 DEF ControllerTypes, TaskTypes
    <3>5. WorldTypes'
      BY <2>1, <3>2 DEF WorldTypes
    <3> QED
      BY <3>3, <3>4, <3>5, TypePartsNext
<1>16. ASSUME NEW job \in acquisitions,
              \/ AbandonAcquisition(job) \/ PrepareInventory(job)
              \/ BuildGeneration(job) \/ FailAcquisition(job)
       PROVE  TypeOK'
  <2>1. ASSUME NEW steps \in SUBSET AcquisitionJob, AcquisitionSteps(job, steps),
               failures' \in 0 .. MaxFailures
        PROVE  TypeOK'
    BY <2>1 DEF AcquisitionSteps
  <2>2. CASE AbandonAcquisition(job)
    BY <2>1, <2>2 DEF AbandonAcquisition
  <2>3. CASE PrepareInventory(job)
    <3>1. [job EXCEPT !.fingerprint = inventory] \in AcquisitionJob
      BY DEF AcquisitionJob
    <3>2. Prepared(job, SpareRebuild(job)) \in AcquisitionJob
      BY <3>1, AtAcquisition DEF Prepared, AcquisitionResults
    <3> QED
      BY <2>1, <2>3, <3>2 DEF PrepareInventory
  <2>4. CASE BuildGeneration(job)
    <3>1. PICK retry \in BOOLEAN :
            AcquisitionSteps(job, {At([job EXCEPT !.retry = retry], "loaded")})
      BY <2>4 DEF BuildGeneration
    <3>2. [job EXCEPT !.retry = retry] \in AcquisitionJob
      BY DEF AcquisitionJob
    <3>3. At([job EXCEPT !.retry = retry], "loaded") \in AcquisitionJob
      BY <3>2, AtAcquisition DEF AcquisitionResults
    <3> QED
      BY <2>1, <2>4, <3>1, <3>3 DEF BuildGeneration
  <2>5. CASE FailAcquisition(job)
    <3>1. At(job, "failed") \in AcquisitionJob
      BY AtAcquisition DEF AcquisitionResults
    <3> QED
      BY <2>1, <2>5, <3>1, BoundStep DEF FailAcquisition
  <2> QED
    BY <1>16, <2>2, <2>3, <2>4, <2>5
<1>17. ASSUME NEW job \in writes,
              \/ LockGate(job) \/ CheckCancellation(job) \/ ReplaceCache(job)
              \/ FailWrite(job) \/ FinishWrite(job)
       PROVE  TypeOK'
  <2>1. ASSUME NEW stage \in {"locked", "writing", "replaced"} \cup WriteResults
        PROVE  (writes \ {job}) \cup {At(job, stage)} \in SUBSET WriteJob
    BY AtWrite DEF WriteResults
  <2>2. writes' \in SUBSET WriteJob
    BY <1>17, <2>1 DEF LockGate, CheckCancellation, ReplaceCache, FailWrite,
                       FinishWrite, WriterEnds, WriterMoves, WriteResults
  <2>3. job.id \in Nat /\ job.generation \in Generation
    BY DEF WriteJob
  <2>4. gate' \in Nat \cup {None} /\ disk' \in Generation \cup {None}
    BY <1>17, <2>3 DEF LockGate, CheckCancellation, ReplaceCache, FailWrite,
                       FinishWrite
  <2>5. poisoned' \in BOOLEAN /\ failures' \in 0 .. MaxFailures
    BY <1>17, BoundStep DEF LockGate, CheckCancellation, ReplaceCache, FailWrite,
                            FinishWrite
  <2>6. WriterFrame
    BY <1>17 DEF LockGate, CheckCancellation, ReplaceCache, FailWrite, FinishWrite
  <2> QED
    BY <2>2, <2>4, <2>5, <2>6 DEF WriterFrame
<1>18. CASE FetchPricing
  BY <1>18 DEF FetchPricing
<1>19. CASE ChangeInputs \/ PassMidnight \/ ElapseInterval
  <2>1. inputs' \in 0 .. MaxInputs
    BY <1>19, BoundStep DEF ChangeInputs, PassMidnight, ElapseInterval,
                            TimePasses, WorldFrame
  <2>2. today' \in Days
    BY <1>19 DEF ChangeInputs, PassMidnight, ElapseInterval, TimePasses, Days
  <2> QED
    <3>1. WorldFrame /\ elapsed' \in BOOLEAN /\ inventory' \in Fingerprints
          /\ UNCHANGED backoff
      BY <1>19 DEF ChangeInputs, PassMidnight, ElapseInterval, TimePasses
    <3> QED
      BY <2>1, <2>2, <3>1 DEF WorldFrame
<1>20. CASE ReachRetry
  <2>1. backoff' \in RetryBackoff
    BY <1>20 DEF ReachRetry, RetryBackoff
  <2> QED
    BY <1>20, <2>1, BoundStep DEF ReachRetry, TimePasses, WorldFrame
<1>21. CASE UNCHANGED vars
  BY <1>21 DEF vars
<1> QED
  BY <1>1, <1>2, <1>3, <1>4, <1>5, <1>6, <1>7, <1>8, <1>9, <1>10, <1>11, <1>12,
     <1>13, <1>14, <1>15, <1>16, <1>17, <1>18, <1>19, <1>20, <1>21
     DEF Next, LoopStep, AcquisitionStep, WriterStep, Environment, Terminated

-----------------------------------------------------------------------------
(* Cancellation, the cold start and the order of request numbers.           *)

\* Every step keeps cancellation, the cold start and the numbering consistent.
LEMMA OrderStep == Inv /\ [Next]_vars => StopInv' /\ ColdInv' /\ SerialInv'
<1> SUFFICES ASSUME Inv, [Next]_vars PROVE StopInv' /\ ColdInv' /\ SerialInv'
  OBVIOUS
<1> USE DEF Inv, StopInv, ColdInv, SerialInv, StopSteps, loopVars, appVars,
            controllerVars, taskVars, stopVars, worldVars
<1>1. CASE FinishStartup
  <2>1. /\ startupLoad' # None
        /\ startupLoad'.cached = None \/ startupLoad'.cached = disk
    BY <1>1, StartupResult
  <2> QED
    BY <1>1, <2>1 DEF FinishStartup
<1>2. CASE Leave
  BY <1>2 DEF Leave, SignalCancel
<1>3. CASE DrainGate
  BY <1>3 DEF DrainGate
<1>4. CASE JoinTasks
  BY <1>4 DEF JoinTasks
<1>5. CASE ReceiveStartup
  BY <1>5 DEF ReceiveStartup, TypeOK, StartupLoad, Generation
<1>6. CASE FailStartup
  BY <1>6 DEF FailStartup, SignalCancel
<1>7. CASE SkipStartup
  BY <1>7 DEF SkipStartup
<1>8. CASE ReceivePricing
  BY <1>8 DEF ReceivePricing
<1>9. CASE SkipPricing
  BY <1>9 DEF SkipPricing
<1>10. CASE ReceiveAcquisition
  BY <1>10 DEF ReceiveAcquisition, TypeOK, Generation, Done, BuiltGeneration, InstallLoaded, RejectLoaded, FailLoad, KeepUnchanged, AcquisitionJob
<1>11. CASE SkipAcquisition
  BY <1>11 DEF SkipAcquisition
<1>12. CASE ReceivePersistence
  BY <1>12 DEF ReceivePersistence, AfterPersistence
<1>13. CASE SkipPersistence
  BY <1>13 DEF SkipPersistence, AfterPersistence
<1>14. CASE ConsumeAppIntents
  BY <1>14 DEF ConsumeAppIntents
<1>15. CASE ClockTick
  BY <1>15 DEF ClockTick
<1>16. CASE StartQueued
  <2>1. \/ UNCHANGED <<active, nextId>>
        \/ active' # None /\ active'.id = nextId /\ nextId' = nextId + 1
    BY <1>16, StartPendingResult DEF StartQueued, TypeOK, Requests
  <2>2. startup = "done" /\ pc' \notin StopSteps
        /\ UNCHANGED <<cancelled, startup, startupLoad, installed, disk>>
    BY <1>16 DEF StartQueued
  <2> QED
    BY <1>16, <2>1, <2>2, Serials DEF StartQueued
<1>17. CASE Draw
  BY <1>17 DEF Draw
<1>18. CASE StartInitialWork
  <2>1. \/ UNCHANGED <<active, nextId>>
        \/ active' # None /\ active'.id = nextId /\ nextId' = nextId + 1
    BY <1>18, StartPendingResult, QueueType DEF StartInitialWork, TypeOK, Requests
  <2>2. startup = "done" /\ pc' \notin StopSteps
        /\ UNCHANGED <<cancelled, startup, startupLoad, installed, disk>>
    BY <1>18 DEF StartInitialWork
  <2> QED
    BY <1>18, <2>1, <2>2, Serials DEF StartInitialWork
<1>19. CASE StartPersistence
  BY <1>19 DEF StartPersistence, TakeGeneration
<1>20. CASE Wake
  BY <1>20 DEF Wake
<1>21. CASE PressRefresh
  BY <1>21 DEF PressRefresh, PressKey
<1>22. CASE PickOrder
  BY <1>22 DEF PickOrder, PressKey
<1>23. CASE PressControl
  BY <1>23 DEF PressControl, PressKey
<1>24. CASE FetchPricing
  BY <1>24 DEF FetchPricing
<1>25. CASE ChangeInputs
  BY <1>25 DEF ChangeInputs, WorldFrame
<1>26. CASE PassMidnight
  BY <1>26 DEF PassMidnight, WorldFrame, TimePasses
<1>27. CASE ElapseInterval
  BY <1>27 DEF ElapseInterval, WorldFrame, TimePasses
<1>28. CASE ReachRetry
  BY <1>28 DEF ReachRetry, WorldFrame, TimePasses
<1>29. ASSUME NEW job \in acquisitions,
              \/ AbandonAcquisition(job) \/ PrepareInventory(job)
              \/ BuildGeneration(job) \/ FailAcquisition(job)
       PROVE  StopInv' /\ ColdInv' /\ SerialInv'
  <2>1. startup = "done"
    OBVIOUS
  <2>2. UNCHANGED <<pc, cancelled, startup, startupLoad, installed, active,
                    nextId, disk>>
    BY <1>29 DEF AbandonAcquisition, PrepareInventory, BuildGeneration,
                 FailAcquisition, AcquisitionSteps
  <2> QED
    BY <2>1, <2>2
<1>30. ASSUME NEW job \in writes,
              \/ LockGate(job) \/ CheckCancellation(job) \/ ReplaceCache(job)
              \/ FailWrite(job) \/ FinishWrite(job)
       PROVE  StopInv' /\ ColdInv' /\ SerialInv'
  <2>1. job.generation = installed /\ startup = "done"
    BY DEF ShownInv, WritesOnlyShown
  <2>2. disk' \in {disk, installed} /\ WriterFrame
    BY <1>30, <2>1 DEF LockGate, CheckCancellation, ReplaceCache, FailWrite,
                      FinishWrite
  <2> QED
    BY <2>1, <2>2 DEF WriterFrame
<1>31. CASE UNCHANGED vars
  BY <1>31 DEF vars
<1> QED
  BY <1>1, <1>2, <1>3, <1>4, <1>5, <1>6, <1>7, <1>8, <1>9, <1>10, <1>11,
     <1>12, <1>13, <1>14, <1>15, <1>16, <1>17, <1>18, <1>19, <1>20, <1>21,
     <1>22, <1>23, <1>24, <1>25, <1>26, <1>27, <1>28, <1>29, <1>30, <1>31
     DEF Next, LoopStep, AcquisitionStep, WriterStep, Environment, Terminated

-----------------------------------------------------------------------------
(* The writers' gate and the fingerprints of loads.                         *)

\* Every step leaves the gate with the writer that holds it.
LEMMA GateStep == Inv /\ [Next]_vars => GateInv'
<1> SUFFICES ASSUME Inv, [Next]_vars PROVE GateInv'
  OBVIOUS
<1> USE DEF Inv, GateInv, loopVars, appVars, controllerVars, taskVars, stopVars,
            worldVars
<1>1. ASSUME UNCHANGED gate, writes' \subseteq writes,
             pc' \in {"joining", "stopped"} => pc \in {"joining", "stopped"}
      PROVE  GateInv'
  BY <1>1
<1>2. CASE \/ Leave \/ JoinTasks \/ ReceiveStartup \/ FailStartup \/ SkipStartup
           \/ ReceivePricing \/ SkipPricing \/ ReceiveAcquisition
           \/ SkipAcquisition \/ ReceivePersistence \/ SkipPersistence
           \/ ConsumeAppIntents \/ ClockTick
  BY <1>1, <1>2
     DEF Leave, JoinTasks, ReceiveStartup, FailStartup, SkipStartup,
         SignalCancel, ReceivePricing, SkipPricing, ReceiveAcquisition,
         SkipAcquisition, ReceivePersistence, SkipPersistence,
         AfterPersistence, ConsumeAppIntents, ClockTick
<1>3. CASE \/ StartQueued \/ Draw \/ StartInitialWork \/ Wake \/ PressRefresh
           \/ PickOrder \/ PressControl \/ FinishStartup \/ FetchPricing
           \/ ChangeInputs \/ PassMidnight \/ ElapseInterval \/ ReachRetry
           \/ UNCHANGED vars
  BY <1>1, <1>3
     DEF StartQueued, Draw, StartInitialWork, Wake, PressRefresh, PickOrder,
         PressControl, PressKey, FinishStartup, FetchPricing, ChangeInputs,
         PassMidnight, ElapseInterval, ReachRetry, TimePasses, WorldFrame, vars
<1>4. CASE DrainGate
  BY <1>4 DEF DrainGate
<1>5. CASE StartPersistence
  BY <1>5 DEF StartPersistence
<1>6. CASE AcquisitionStep
  BY <1>1, <1>6 DEF AcquisitionStep, AbandonAcquisition, PrepareInventory,
                    BuildGeneration, FailAcquisition, AcquisitionSteps
<1>7. ASSUME NEW job \in writes,
             \/ LockGate(job) \/ CheckCancellation(job) \/ ReplaceCache(job)
             \/ FailWrite(job) \/ FinishWrite(job)
      PROVE  GateInv'
  <2>1. ASSUME NEW other \in writes PROVE other = job
    BY DEF SingleFlight
  <2>2. job \in WriteJob
    BY DEF TypeOK
  <2>3. ASSUME NEW stage \in {"locked", "writing", "replaced"} \cup WriteResults,
               WriterMoves(job, stage)
        PROVE  \A other \in writes' : other.stage = stage
    BY <2>1, <2>2, <2>3, AtWrite DEF WriterMoves
  <2>4. ASSUME NEW result \in WriteResults, WriterEnds(job, result)
        PROVE  \A other \in writes' : other.stage = result
    BY <2>1, <2>3, <2>4 DEF WriterEnds
  <2>5. UNCHANGED pc
    BY <1>7 DEF LockGate, CheckCancellation, ReplaceCache, FailWrite,
                FinishWrite, WriterFrame
  <2>6. CASE LockGate(job)
    <3>1. job.id # None
      BY <2>2, NoneAssumption DEF WriteJob
    <3> QED
      BY <2>3, <2>4, <2>5, <2>6, <3>1 DEF LockGate, WriteResults
  <2>7. CASE CheckCancellation(job)
    BY <2>3, <2>4, <2>5, <2>7 DEF CheckCancellation, WriteResults, StopInv,
                                  StopSteps
  <2>8. CASE ReplaceCache(job)
    BY <2>3, <2>5, <2>8 DEF ReplaceCache
  <2>9. CASE FailWrite(job)
    BY <2>4, <2>5, <2>9 DEF FailWrite, WriteResults
  <2>10. CASE FinishWrite(job)
    BY <2>4, <2>5, <2>10 DEF FinishWrite, WriteResults
  <2> QED
    BY <1>7, <2>6, <2>7, <2>8, <2>9, <2>10
<1> QED
  BY <1>2, <1>3, <1>4, <1>5, <1>6, <1>7
     DEF Next, LoopStep, WriterStep, Environment, Terminated

\* Every load past preparation has the fingerprint it prepared.
LEMMA JobStep == Inv /\ [Next]_vars => JobInv'
<1> SUFFICES ASSUME Inv, [Next]_vars PROVE JobInv'
  OBVIOUS
<1> USE DEF Inv, JobInv, loopVars, appVars, controllerVars, taskVars, stopVars,
            worldVars
<1>1. ASSUME acquisitions' \subseteq acquisitions PROVE JobInv'
  BY <1>1
<1>2. CASE \/ Leave \/ DrainGate \/ JoinTasks \/ ReceiveStartup \/ FailStartup
           \/ SkipStartup \/ ReceivePricing \/ SkipPricing \/ ReceiveAcquisition
           \/ SkipAcquisition \/ ReceivePersistence \/ SkipPersistence
           \/ ConsumeAppIntents \/ ClockTick
  BY <1>1, <1>2
     DEF Leave, DrainGate, JoinTasks, ReceiveStartup, FailStartup, SkipStartup,
         ReceivePricing, SkipPricing, ReceiveAcquisition, SkipAcquisition,
         ReceivePersistence, SkipPersistence, ConsumeAppIntents, ClockTick
<1>3. CASE \/ Draw \/ StartPersistence \/ Wake \/ PressRefresh \/ PickOrder
           \/ PressControl \/ FinishStartup \/ FetchPricing \/ ChangeInputs
           \/ PassMidnight \/ ElapseInterval \/ ReachRetry \/ WriterStep
           \/ UNCHANGED vars
  BY <1>1, <1>3
     DEF Draw, StartPersistence, Wake, PressRefresh, PickOrder, PressControl,
         FinishStartup, FetchPricing, ChangeInputs, PassMidnight,
         ElapseInterval, ReachRetry, TimePasses, WorldFrame, WriterStep,
         LockGate, CheckCancellation, ReplaceCache, FailWrite, FinishWrite,
         WriterFrame, vars
<1>4. CASE StartQueued \/ StartInitialWork
  <2>1. ASSUME NEW queued \in Requests, StartPending(queued) PROVE JobInv'
    BY <2>1, StartPendingResult
  <2> QED
    BY <1>1, <1>4, <2>1, QueueType DEF StartQueued, StartInitialWork, TypeOK, Requests
<1>5. ASSUME NEW job \in acquisitions,
             \/ AbandonAcquisition(job) \/ PrepareInventory(job)
             \/ BuildGeneration(job) \/ FailAcquisition(job)
      PROVE  JobInv'
  <2>1. job \in AcquisitionJob /\ inventory \in Fingerprints
    BY DEF TypeOK
  <2>2. ASSUME NEW next, acquisitions' = (acquisitions \ {job}) \cup {next},
               next.stage = "failed" \/ next.fingerprint # None
        PROVE  JobInv'
    BY <2>2
  <2>3. CASE AbandonAcquisition(job)
    BY <1>1, <2>3 DEF AbandonAcquisition, AcquisitionSteps
  <2>4. CASE PrepareInventory(job)
    <3> DEFINE filled == [job EXCEPT !.fingerprint = inventory]
    <3>1. filled \in AcquisitionJob /\ filled.fingerprint # None
      BY <2>1, NoneAssumption DEF AcquisitionJob
    <3> HIDE DEF filled
    <3>2. Prepared(job, SpareRebuild(job)).fingerprint # None
      <4>1. Prepared(job, SpareRebuild(job)) =
              At(filled, IF SpareRebuild(job) THEN "unchanged" ELSE "building")
        BY DEF Prepared, filled
      <4> QED
        BY <3>1, <4>1, AtAcquisition DEF AcquisitionResults
    <3> QED
      BY <2>2, <2>4, <3>2 DEF PrepareInventory, AcquisitionSteps
  <2>5. CASE BuildGeneration(job)
    <3>1. PICK retry \in BOOLEAN :
            AcquisitionSteps(job, {At([job EXCEPT !.retry = retry], "loaded")})
      BY <2>5 DEF BuildGeneration
    <3> DEFINE built == [job EXCEPT !.retry = retry]
    <3>2. built \in AcquisitionJob /\ built.fingerprint # None
      BY <2>1, <2>5 DEF AcquisitionJob, BuildGeneration
    <3> HIDE DEF built
    <3>3. At(built, "loaded").fingerprint # None
      BY <3>2, AtAcquisition DEF AcquisitionResults
    <3> QED
      BY <2>2, <3>1, <3>3 DEF AcquisitionSteps, built
  <2>6. CASE FailAcquisition(job)
    <3>1. At(job, "failed").stage = "failed"
      BY <2>1, AtAcquisition DEF AcquisitionResults
    <3> QED
      BY <2>2, <2>6, <3>1 DEF FailAcquisition, AcquisitionSteps
  <2> QED
    BY <1>5, <2>3, <2>4, <2>5, <2>6
<1> QED
  BY <1>2, <1>3, <1>4, <1>5
     DEF Next, LoopStep, AcquisitionStep, Environment, Terminated

-----------------------------------------------------------------------------
(* One load and one write at a time.                                        *)

\* No step starts a second load or writer, or one while the other is owed.
LEMMA FlightStep == Inv /\ [Next]_vars => SingleFlight'
<1> SUFFICES ASSUME Inv, [Next]_vars PROVE SingleFlight'
  OBVIOUS
<1> USE DEF Inv, SingleFlight, loopVars, appVars, controllerVars, taskVars,
            stopVars, worldVars
<1>1. ASSUME UNCHANGED <<acquisitions, writes, active, persistence>>,
             cancelled' \/ UNCHANGED cancelled
      PROVE  SingleFlight'
  BY <1>1
<1>2. CASE \/ Leave \/ DrainGate \/ ReceiveStartup \/ FailStartup \/ SkipStartup
           \/ ReceivePricing \/ SkipPricing \/ SkipAcquisition
           \/ SkipPersistence \/ ConsumeAppIntents \/ ClockTick \/ Draw \/ Wake
  BY <1>1, <1>2
     DEF Leave, DrainGate, ReceiveStartup, FailStartup, SkipStartup,
         SignalCancel, ReceivePricing, SkipPricing, SkipAcquisition,
         SkipPersistence, ConsumeAppIntents, ClockTick, Draw, Wake
<1>3. CASE \/ PressRefresh \/ PickOrder \/ PressControl \/ FinishStartup
           \/ FetchPricing \/ ChangeInputs \/ PassMidnight \/ ElapseInterval
           \/ ReachRetry \/ UNCHANGED vars
  BY <1>1, <1>3
     DEF PressRefresh, PickOrder, PressControl, FinishStartup, FetchPricing,
         ChangeInputs, PassMidnight, ElapseInterval, ReachRetry, TimePasses,
         WorldFrame, vars
<1>4. CASE JoinTasks
  BY <1>4 DEF JoinTasks, StopInv, StopSteps
<1>5. CASE ReceiveAcquisition
  <2>1. PICK job \in acquisitions :
          /\ acquisitions' = acquisitions \ {job}
          /\ IF active = None \/ job.id # active.id
             THEN KeepUnchanged /\ UNCHANGED <<active, elapsed>>
             ELSE /\ active' = None /\ elapsed' = FALSE
                  /\ CASE job.stage = "loaded" -> InstallLoaded(job) \/ RejectLoaded
                       [] job.stage = "failed" -> FailLoad
                       [] job.stage = "unchanged" /\ active.force -> FailLoad
                       [] OTHER -> KeepUnchanged
    BY <1>5 DEF ReceiveAcquisition
  <2>2. ~cancelled /\ UNCHANGED <<writes, cancelled>>
    BY <1>5 DEF ReceiveAcquisition, StopInv, StopSteps
  <2>3. active # None /\ job.id = active.id
    BY <2>2
  <2>4. persistence = None /\ writes = {} /\ acquisitions' = {} /\ active' = None
    BY <2>1, <2>2, <2>3
  <2>5. \/ UNCHANGED persistence
        \/ job.stage = "loaded" /\ InstallLoaded(job)
    BY <2>1, <2>3 DEF KeepUnchanged, RejectLoaded, FailLoad
  <2>6. CASE UNCHANGED persistence
    BY <2>2, <2>4, <2>6
  <2>7. CASE job.stage = "loaded" /\ InstallLoaded(job)
    <3>1. BuiltGeneration(job) # None
      BY <2>7, BuiltGenerationType, NoneAssumption DEF TypeOK, JobInv
    <3> QED
      BY <2>2, <2>4, <2>7, <3>1 DEF InstallLoaded
  <2> QED
    BY <2>5, <2>6, <2>7
<1>6. CASE ReceivePersistence
  <2>1. PICK job \in writes :
          /\ writes' = writes \ {job}
          /\ IF persistence = None \/ job.id # persistence.id
             THEN UNCHANGED <<persistence, backoff>>
             ELSE persistence' = None
    BY <1>6 DEF ReceivePersistence
  <2>2. ~cancelled /\ UNCHANGED <<active, acquisitions, cancelled>>
    BY <1>6 DEF ReceivePersistence, StopInv, StopSteps
  <2>3. persistence # None /\ job.id = persistence.id
    BY <2>2
  <2>4. persistence' = None /\ writes' = {}
    BY <2>1, <2>3
  <2> QED
    BY <2>2, <2>4
<1>7. CASE StartQueued \/ StartInitialWork
  <2>1. UNCHANGED <<writes, persistence, cancelled>> /\ ~cancelled
    BY <1>7 DEF StartQueued, StartInitialWork, StopInv, StopSteps
  <2>2. ASSUME NEW queued \in Requests, StartPending(queued) PROVE SingleFlight'
    <3>1. CASE UNCHANGED <<active, nextId, acquisitions>>
      BY <2>1, <3>1
    <3>2. ASSUME NEW job \in AcquisitionJob, ~Blocked, active' # None,
                 acquisitions' = acquisitions \cup {job},
                 job.id = active'.id, job.force = active'.force
          PROVE  SingleFlight'
      <4>1. active = None /\ persistence = None
        BY <3>2 DEF Blocked
      <4>2. acquisitions' = {job} /\ writes' = {} /\ persistence' = None
        BY <2>1, <3>2, <4>1
      <4> QED
        BY <2>1, <3>2, <4>2
    <3> QED
      BY <2>2, <3>1, <3>2, StartPendingResult
  <2> QED
    BY <1>1, <1>7, <2>1, <2>2, QueueType
       DEF StartQueued, StartInitialWork, TypeOK, Requests
<1>8. CASE StartPersistence
  <2>1. CASE UNCHANGED <<persistence, writes>>
    BY <1>1, <1>8, <2>1 DEF StartPersistence
  <2>2. CASE ~(persistence = None \/ persistence.generation = None)
    <3> DEFINE job == [id |-> persistence.id,
                       generation |-> persistence.generation,
                       stage |-> "waiting"]
    <3>1. ~cancelled /\ UNCHANGED <<active, acquisitions, cancelled>>
      BY <1>8 DEF StartPersistence, StopInv, StopSteps
    <3>2. writes = {} /\ active = None
      BY <2>2, <3>1
    <3>3. writes' = {job}
      BY <1>8, <2>2, <3>2 DEF StartPersistence
    <3>4. persistence' = [persistence EXCEPT !.generation = None]
      BY <1>8, <2>2 DEF StartPersistence, TakeGeneration
    <3>5. persistence' # None /\ persistence'.generation = None
          /\ persistence'.id = persistence.id
      BY <2>2, <3>4, NoneAssumption DEF TypeOK
    <3>6. job.id = persistence.id
      OBVIOUS
    <3> HIDE DEF job
    <3> QED
      BY <3>1, <3>2, <3>3, <3>5, <3>6
  <2> QED
    BY <1>8, <2>1, <2>2 DEF StartPersistence
<1>9. ASSUME NEW job \in acquisitions,
             \/ AbandonAcquisition(job) \/ PrepareInventory(job)
             \/ BuildGeneration(job) \/ FailAcquisition(job)
      PROVE  SingleFlight'
  <2>1. job \in AcquisitionJob /\ acquisitions = {job} /\ inventory \in Fingerprints
    BY DEF TypeOK
  <2>2. UNCHANGED <<writes, active, persistence, cancelled>>
    BY <1>9 DEF AbandonAcquisition, PrepareInventory, BuildGeneration,
                FailAcquisition, AcquisitionSteps
  <2>3. ASSUME NEW next, acquisitions' = (acquisitions \ {job}) \cup {next},
               next.id = job.id, next.force = job.force
        PROVE  SingleFlight'
    <3>1. acquisitions' = {next}
      BY <2>1, <2>3
    <3> QED
      BY <2>2, <2>3, <3>1
  <2>4. CASE AbandonAcquisition(job)
    BY <2>1, <2>2, <2>4 DEF AbandonAcquisition, AcquisitionSteps
  <2>5. CASE PrepareInventory(job)
    <3> DEFINE filled == [job EXCEPT !.fingerprint = inventory]
               next == Prepared(job, SpareRebuild(job))
    <3>1. /\ filled \in AcquisitionJob
          /\ filled.id = job.id /\ filled.force = job.force
      BY <2>1 DEF AcquisitionJob
    <3>2. next = At(filled, IF SpareRebuild(job) THEN "unchanged" ELSE "building")
      BY DEF Prepared
    <3> HIDE DEF filled
    <3>3. next.id = job.id /\ next.force = job.force
      BY <3>1, <3>2, AtAcquisition DEF AcquisitionResults
    <3> QED
      BY <2>3, <2>5, <3>3 DEF PrepareInventory, AcquisitionSteps
  <2>6. CASE BuildGeneration(job)
    <3>1. PICK retry \in BOOLEAN :
            AcquisitionSteps(job, {At([job EXCEPT !.retry = retry], "loaded")})
      BY <2>6 DEF BuildGeneration
    <3> DEFINE built == [job EXCEPT !.retry = retry]
    <3>2. /\ built \in AcquisitionJob
          /\ built.id = job.id /\ built.force = job.force
      BY <2>1 DEF AcquisitionJob
    <3> HIDE DEF built
    <3>3. At(built, "loaded").id = job.id /\ At(built, "loaded").force = job.force
      BY <3>2, AtAcquisition DEF AcquisitionResults
    <3> QED
      BY <2>3, <3>1, <3>3 DEF AcquisitionSteps, built
  <2>7. CASE FailAcquisition(job)
    <3>1. At(job, "failed").id = job.id /\ At(job, "failed").force = job.force
      BY <2>1, AtAcquisition DEF AcquisitionResults
    <3> QED
      BY <2>3, <2>7, <3>1 DEF FailAcquisition, AcquisitionSteps
  <2> QED
    BY <1>9, <2>4, <2>5, <2>6, <2>7
<1>10. ASSUME NEW job \in writes,
              \/ LockGate(job) \/ CheckCancellation(job) \/ ReplaceCache(job)
              \/ FailWrite(job) \/ FinishWrite(job)
       PROVE  SingleFlight'
  <2>1. job \in WriteJob /\ writes = {job}
    BY DEF TypeOK
  <2>2. UNCHANGED <<acquisitions, active, persistence, cancelled>>
    BY <1>10 DEF LockGate, CheckCancellation, ReplaceCache, FailWrite,
                 FinishWrite, WriterFrame
  <2>3. ASSUME NEW stage \in {"locked", "writing", "replaced"} \cup WriteResults,
               WriterMoves(job, stage)
        PROVE  SingleFlight'
    <3>1. At(job, stage).id = job.id /\ writes' = {At(job, stage)}
      BY <2>1, <2>3, AtWrite DEF WriterMoves
    <3> QED
      BY <2>2, <3>1
  <2>4. ASSUME NEW result \in WriteResults, WriterEnds(job, result)
        PROVE  SingleFlight'
    <3>1. CASE cancelled
      BY <2>1, <2>2, <2>4, <3>1 DEF WriterEnds
    <3> QED
      BY <2>3, <2>4, <3>1 DEF WriterEnds
  <2> QED
    BY <1>10, <2>3, <2>4 DEF LockGate, CheckCancellation, ReplaceCache,
                             FailWrite, FinishWrite, WriteResults
<1> QED
  BY <1>2, <1>3, <1>4, <1>5, <1>6, <1>7, <1>8, <1>9, <1>10
     DEF Next, LoopStep, AcquisitionStep, WriterStep, Environment, Terminated

-----------------------------------------------------------------------------
(* Only what the terminal shows is written.                                 *)

\* No step lets a writer hold anything but what is installed and drawn.
LEMMA ShownStep == Inv /\ [Next]_vars => ShownInv'
<1> SUFFICES ASSUME Inv, [Next]_vars PROVE ShownInv'
  OBVIOUS
<1> USE DEF Inv, ShownInv, WritesOnlyShown, loopVars, appVars, controllerVars,
            taskVars, stopVars, worldVars
<1>1. ASSUME UNCHANGED <<installed, drawn, persistence>>, writes' \subseteq writes,
             pc' \in {"initial", "persist"} => pc \in {"initial", "persist"}
      PROVE  ShownInv'
  BY <1>1
<1>2. CASE \/ Leave \/ DrainGate \/ JoinTasks \/ FailStartup \/ SkipStartup
           \/ ReceivePricing \/ SkipPricing \/ SkipAcquisition
           \/ SkipPersistence \/ ConsumeAppIntents \/ ClockTick \/ Wake
  BY <1>1, <1>2
     DEF Leave, DrainGate, JoinTasks, FailStartup, SkipStartup, SignalCancel,
         ReceivePricing, SkipPricing, SkipAcquisition, SkipPersistence,
         AfterPersistence, ConsumeAppIntents, ClockTick, Wake
<1>3. CASE \/ PressRefresh \/ PickOrder \/ PressControl \/ FinishStartup
           \/ FetchPricing \/ ChangeInputs \/ PassMidnight \/ ElapseInterval
           \/ ReachRetry \/ AcquisitionStep \/ UNCHANGED vars
  BY <1>1, <1>3
     DEF PressRefresh, PickOrder, PressControl, PressKey, FinishStartup,
         FetchPricing, ChangeInputs, PassMidnight, ElapseInterval, ReachRetry,
         TimePasses, WorldFrame, AcquisitionStep, AbandonAcquisition,
         PrepareInventory, BuildGeneration, FailAcquisition, AcquisitionSteps,
         vars
<1>4. CASE ReceiveStartup
  BY <1>4 DEF ReceiveStartup, ColdInv
<1>5. CASE ReceiveAcquisition
  <2>1. PICK job \in acquisitions :
          \/ KeepUnchanged
          \/ active # None /\ (InstallLoaded(job) \/ RejectLoaded \/ FailLoad)
    BY <1>5 DEF ReceiveAcquisition
  <2>2. pc' = "persistence" /\ UNCHANGED <<drawn, writes>> /\ ~cancelled
    BY <1>5 DEF ReceiveAcquisition, StopInv, StopSteps
  <2>3. CASE KeepUnchanged \/ RejectLoaded \/ FailLoad
    BY <1>1, <2>2, <2>3 DEF KeepUnchanged, RejectLoaded, FailLoad
  <2>4. CASE active # None /\ InstallLoaded(job)
    <3>1. writes = {}
      BY <2>2, <2>4 DEF SingleFlight
    <3> QED
      BY <2>2, <2>4, <3>1 DEF InstallLoaded
  <2> QED
    BY <2>1, <2>3, <2>4
<1>6. CASE ReceivePersistence
  BY <1>6 DEF ReceivePersistence, AfterPersistence
<1>7. CASE StartQueued \/ StartInitialWork
  <2>1. UNCHANGED <<installed, drawn, persistence, writes>>
        /\ (pc' = "draw" \/ pc = "initial")
    BY <1>7 DEF StartQueued, StartInitialWork
  <2> QED
    BY <1>1, <2>1
<1>8. CASE Draw
  BY <1>8 DEF Draw
<1>9. CASE StartPersistence
  <2>1. CASE UNCHANGED <<persistence, writes>>
    BY <1>1, <1>9, <2>1 DEF StartPersistence
  <2>2. CASE ~(persistence = None \/ persistence.generation = None)
    <3>1. persistence.generation = installed /\ installed = drawn
          /\ UNCHANGED <<installed, drawn>> /\ pc' = "wait"
      BY <1>9, <2>2 DEF StartPersistence
    <3>2. persistence' = [persistence EXCEPT !.generation = None]
      BY <1>9, <2>2 DEF StartPersistence, TakeGeneration
    <3>3. persistence'.generation = None
      BY <2>2, <3>2, NoneAssumption DEF TypeOK
    <3>4. \A job \in writes' : job \in writes \/ job.generation = persistence.generation
      BY <1>9, <2>2 DEF StartPersistence
    <3> QED
      BY <3>1, <3>3, <3>4
  <2> QED
    BY <1>9, <2>1, <2>2 DEF StartPersistence
<1>10. ASSUME NEW job \in writes,
              \/ LockGate(job) \/ CheckCancellation(job) \/ ReplaceCache(job)
              \/ FailWrite(job) \/ FinishWrite(job)
       PROVE  ShownInv'
  <2>1. job \in WriteJob
    BY DEF TypeOK
  <2>2. UNCHANGED <<pc, installed, drawn, persistence>>
    BY <1>10 DEF LockGate, CheckCancellation, ReplaceCache, FailWrite,
                 FinishWrite, WriterFrame
  <2>3. ASSUME NEW stage \in {"locked", "writing", "replaced"} \cup WriteResults,
               WriterMoves(job, stage)
        PROVE  ShownInv'
    <3>1. At(job, stage).generation = job.generation
      BY <2>1, AtWrite
    <3> QED
      BY <2>2, <2>3, <3>1 DEF WriterMoves
  <2>4. ASSUME NEW result \in WriteResults, WriterEnds(job, result)
        PROVE  ShownInv'
    BY <1>1, <2>2, <2>3, <2>4 DEF WriterEnds
  <2> QED
    BY <1>10, <2>3, <2>4 DEF LockGate, CheckCancellation, ReplaceCache,
                             FailWrite, FinishWrite, WriteResults
<1> QED
  BY <1>2, <1>3, <1>4, <1>5, <1>6, <1>7, <1>8, <1>9, <1>10
     DEF Next, LoopStep, WriterStep, Environment, Terminated

-----------------------------------------------------------------------------
(* The theorems.                                                           *)

\* The invariant is inductive.
LEMMA InvStep == Inv /\ [Next]_vars => Inv'
<1> SUFFICES ASSUME Inv, [Next]_vars PROVE Inv'
  OBVIOUS
<1>1. TypeOK' /\ StopInv' /\ ColdInv' /\ SerialInv'
  BY TypeStep, OrderStep
<1>2. SingleFlight' /\ ShownInv' /\ GateInv' /\ JobInv'
  BY FlightStep, ShownStep, GateStep, JobStep
<1> QED
  BY <1>1, <1>2 DEF Inv

\* The invariant holds of every reachable state.
THEOREM Invariance == Spec => []Inv
BY InitInv, InvStep, PTL DEF Spec

\* Every variable of the session keeps its type.
THEOREM TypeCorrect == Spec => []TypeOK
<1>1. Inv => TypeOK
  BY DEF Inv
<1> QED
  BY <1>1, Invariance, PTL

\* The controller never has two loads or two writers under way, nor a load
\* while a write is owed, for any number of inputs and failures.
THEOREM OneRefreshAtATime == Spec => []SingleFlight
<1>1. Inv => SingleFlight
  BY DEF Inv
<1> QED
  BY <1>1, Invariance, PTL

\* No writer ever holds anything but the generation that is installed and
\* drawn.
THEOREM OnlyShownIsWritten == Spec => []WritesOnlyShown
<1>1. Inv => WritesOnlyShown
  BY DEF Inv, ShownInv
<1> QED
  BY <1>1, Invariance, PTL

\* After drain has passed the writers' gate the cache file never changes.
THEOREM SealedCache == Spec => SealedAfterDrain
<1>1. Inv /\ [Next]_vars => [(pc \in {"joining", "stopped"}) => (disk' = disk)]_vars
  <2> SUFFICES ASSUME Inv, [Next]_vars, pc \in {"joining", "stopped"}
               PROVE  disk' = disk
    OBVIOUS
  <2> USE DEF loopVars, appVars, controllerVars, taskVars, stopVars, worldVars
  <2>1. CASE LoopStep
    BY <2>1 DEF LoopStep, ReceiveStartup, FailStartup, SkipStartup,
         SignalCancel, ReceivePricing, SkipPricing, ReceiveAcquisition,
         SkipAcquisition, ReceivePersistence, SkipPersistence,
         ConsumeAppIntents, ClockTick, StartQueued, Draw, StartInitialWork,
         StartPersistence, Wake, DrainGate, JoinTasks
  <2>2. CASE FinishStartup \/ AcquisitionStep \/ FetchPricing \/ Environment
             \/ Terminated \/ UNCHANGED vars
    BY <2>2 DEF FinishStartup, AcquisitionStep, AbandonAcquisition,
         PrepareInventory, BuildGeneration, FailAcquisition, AcquisitionSteps,
         FetchPricing, Environment, Leave, SignalCancel, PressRefresh,
         PickOrder, PressControl, PressKey, ChangeInputs, PassMidnight,
         ElapseInterval, ReachRetry, TimePasses, WorldFrame, Terminated, vars
  <2>3. CASE WriterStep
    <3>1. PICK job \in writes :
            \/ LockGate(job) \/ CheckCancellation(job) \/ ReplaceCache(job)
            \/ FailWrite(job) \/ FinishWrite(job)
      BY <2>3 DEF WriterStep
    <3>2. ~ReplaceCache(job)
      BY DEF ReplaceCache, Inv, GateInv
    <3> QED
      BY <3>1, <3>2 DEF LockGate, CheckCancellation, FailWrite, FinishWrite
  <2> QED
    BY <2>1, <2>2, <2>3 DEF Next
<1> QED
  BY <1>1, Invariance, PTL DEF Spec, SealedAfterDrain

\* The installed generation is replaced only by one that was requested later,
\* and nothing removes it.
LEMMA InstallStep ==
    Inv /\ [Next]_vars =>
        \/ UNCHANGED installed
        \/ /\ pc \in {"startup", "acquisition"} /\ ~cancelled
           /\ UNCHANGED <<disk, cancelled>>
           /\ installed' \in Generation
           /\ installed # None => installed.serial < installed'.serial
<1> SUFFICES ASSUME Inv, [Next]_vars, installed' # installed
             PROVE  /\ pc \in {"startup", "acquisition"} /\ ~cancelled
                    /\ UNCHANGED <<disk, cancelled>>
                    /\ installed' \in Generation
                    /\ installed # None => installed.serial < installed'.serial
  OBVIOUS
<1> USE DEF Inv, loopVars, appVars, controllerVars, taskVars, stopVars, worldVars
<1>1. ReceiveStartup \/ ReceiveAcquisition
  <2>1. CASE LoopStep
    BY <2>1 DEF LoopStep, FailStartup, SkipStartup, SignalCancel,
         ReceivePricing, SkipPricing, SkipAcquisition, ReceivePersistence,
         SkipPersistence, ConsumeAppIntents, ClockTick, StartQueued, Draw,
         StartInitialWork, StartPersistence, Wake, DrainGate, JoinTasks
  <2>2. CASE FinishStartup \/ FetchPricing \/ Environment \/ Terminated
             \/ UNCHANGED vars
    BY <2>2 DEF FinishStartup, FetchPricing, Environment, Leave, SignalCancel,
         PressRefresh, PickOrder, PressControl, PressKey, ChangeInputs,
         PassMidnight, ElapseInterval, ReachRetry, TimePasses, WorldFrame,
         Terminated, vars
  <2>3. CASE AcquisitionStep \/ WriterStep
    BY <2>3 DEF AcquisitionStep, AbandonAcquisition, PrepareInventory,
         BuildGeneration, FailAcquisition, AcquisitionSteps, WriterStep,
         LockGate, CheckCancellation, ReplaceCache, FailWrite, FinishWrite,
         WriterFrame
  <2> QED
    BY <2>1, <2>2, <2>3 DEF Next
<1>2. CASE ReceiveStartup
  <2>1. installed = None /\ startupLoad # None /\ installed' = startupLoad.cached
    BY <1>2 DEF ReceiveStartup, ColdInv
  <2>2. installed' \in Generation
    BY <2>1 DEF TypeOK, StartupLoad
  <2> QED
    BY <1>2, <2>1, <2>2 DEF ReceiveStartup, StopInv, StopSteps
<1>3. CASE ReceiveAcquisition
  <2>1. PICK job \in acquisitions :
          /\ IF active = None \/ job.id # active.id
             THEN KeepUnchanged /\ UNCHANGED <<active, elapsed>>
             ELSE /\ active' = None /\ elapsed' = FALSE
                  /\ CASE job.stage = "loaded" -> InstallLoaded(job) \/ RejectLoaded
                       [] job.stage = "failed" -> FailLoad
                       [] job.stage = "unchanged" /\ active.force -> FailLoad
                       [] OTHER -> KeepUnchanged
    BY <1>3 DEF ReceiveAcquisition
  <2>2. active # None /\ job.id = active.id /\ job.stage = "loaded"
        /\ InstallLoaded(job)
    BY <2>1 DEF KeepUnchanged, RejectLoaded, FailLoad
  <2>3. installed' \in Generation /\ installed'.serial = job.id
    BY <2>2, BuiltGenerationType DEF TypeOK, JobInv, InstallLoaded
  <2>4. installed # None => installed.serial < job.id
    BY <2>2 DEF SerialInv
  <2> QED
    BY <1>3, <2>3, <2>4 DEF ReceiveAcquisition, StopInv, StopSteps
<1> QED
  BY <1>1, <1>2, <1>3

\* InstalledOnlyAdvances, for any number of loads, failures and rejections.
THEOREM DisplayOnlyAdvances == Spec => InstalledOnlyAdvances
<1>1. Inv /\ [Next]_vars =>
        [installed' # installed =>
           /\ installed' # None
           /\ installed # None => installed.serial < installed'.serial]_vars
  BY InstallStep, NoneAssumption
<1> QED
  BY <1>1, Invariance, PTL DEF Spec, InstalledOnlyAdvances

\* The session implements PublishedGeneration: every step of the loop, of a
\* worker or of the environment shows a newer generation, saves the shown one,
\* closes or seals the session, or is invisible.
THEOREM Refinement == Spec => PublishedSpec
<1>1. Init => Published!Init
  <2> SUFFICES ASSUME Init PROVE Published!Init
    OBVIOUS
  <2>1. disk \in Generation \cup {None}
    BY InitInv DEF Inv, TypeOK
  <2> QED
    BY <2>1 DEF Init, Published!Init
<1>2. Inv /\ [Next]_vars => [Published!Next]_(Published!vars)
  <2> SUFFICES ASSUME Inv, [Next]_vars PROVE [Published!Next]_(Published!vars)
    OBVIOUS
  <2> USE DEF Inv, StopInv, StopSteps, Published!Next, Published!vars
  <2>1. CASE installed' # installed
    <3>1. /\ ~cancelled /\ UNCHANGED <<disk, cancelled>>
          /\ installed' \in Generation
          /\ installed = None \/ installed.serial < installed'.serial
      BY <2>1, InstallStep
    <3> QED
      BY <3>1 DEF Published!Show, Published!Newer
  <2>2. CASE UNCHANGED installed
    <3> USE DEF loopVars, appVars, controllerVars, taskVars, stopVars, worldVars
    <3>1. CASE LoopStep /\ ~FailStartup /\ ~DrainGate /\ ~JoinTasks
      BY <2>2, <3>1 DEF LoopStep, ReceiveStartup, SkipStartup, ReceivePricing,
           SkipPricing, ReceiveAcquisition, SkipAcquisition,
           ReceivePersistence, SkipPersistence, ConsumeAppIntents, ClockTick,
           StartQueued, Draw, StartInitialWork, StartPersistence, Wake
    <3>2. CASE FailStartup \/ Leave
      BY <2>2, <3>2 DEF FailStartup, Leave, SignalCancel, Published!Close
    <3>3. CASE DrainGate
      BY <2>2, <3>3 DEF DrainGate, Published!Seal
    <3>4. CASE JoinTasks
      BY <2>2, <3>4 DEF JoinTasks
    <3>5. CASE FinishStartup \/ AcquisitionStep \/ FetchPricing \/ Terminated
               \/ UNCHANGED vars
      <4>1. UNCHANGED <<pc, installed, disk, cancelled>>
        BY <3>5 DEF FinishStartup, AcquisitionStep, AbandonAcquisition,
             PrepareInventory, BuildGeneration, FailAcquisition,
             AcquisitionSteps, FetchPricing, Terminated, vars
      <4> QED
        BY <4>1
    <3>6. CASE Environment /\ ~Leave
      BY <3>6 DEF Environment, PressRefresh, PickOrder, PressControl, PressKey,
           ChangeInputs, PassMidnight, ElapseInterval, ReachRetry, TimePasses,
           WorldFrame
    <3>7. ASSUME NEW job \in writes,
                 \/ LockGate(job) \/ CheckCancellation(job) \/ ReplaceCache(job)
                 \/ FailWrite(job) \/ FinishWrite(job)
          PROVE  [Published!Next]_(Published!vars)
      <4>1. UNCHANGED <<pc, cancelled>>
        BY <3>7 DEF LockGate, CheckCancellation, ReplaceCache, FailWrite,
                    FinishWrite, WriterFrame
      <4>2. CASE ReplaceCache(job)
        <5>1. job.generation = installed /\ installed # None
          BY NoneAssumption DEF ShownInv, WritesOnlyShown, TypeOK, WriteJob
        <5>2. pc \notin {"joining", "stopped"}
          BY <4>2 DEF ReplaceCache, GateInv
        <5> QED
          BY <2>2, <4>1, <4>2, <5>1, <5>2 DEF ReplaceCache, Published!Save
      <4>3. CASE ~ReplaceCache(job)
        BY <2>2, <3>7, <4>1, <4>3 DEF LockGate, CheckCancellation, FailWrite,
                                     FinishWrite
      <4> QED
        BY <4>2, <4>3
    <3> QED
      BY <3>1, <3>2, <3>3, <3>4, <3>5, <3>6, <3>7
         DEF Next, LoopStep, WriterStep, Environment
  <2> QED
    BY <2>1, <2>2
<1> QED
  BY <1>1, <1>2, Invariance, PTL DEF Spec, PublishedSpec, Published!Spec
-----------------------------------------------------------------------------
(* What the controller knows of the installed generation.                   *)

\* A schedule read at startup is that of the generation read with it, if one
\* was; later it is that of the installed generation.
ScheduleInv ==
    /\ startupLoad # None /\ startupLoad.cached # None /\ startupLoad.backoff # None
         => /\ startupLoad.backoff.owner = startupLoad.cached.serial
            /\ startupLoad.cached.retry
    /\ BackoffOfInstalled

\* A running load compares with the fingerprint of what is installed, and
\* answers "unchanged" only when they agree.
CompareInv ==
    \A job \in acquisitions :
        /\ job.last = IF installed = None THEN None ELSE installed.fingerprint
        /\ job.stage = "unchanged" => job.fingerprint = job.last

\* The generation read at startup has the context of the engine; later a load
\* with another context than the engine's runs only while a manual request is
\* queued behind it.
ContextInv ==
    /\ startup = "sent" /\ startupLoad.cached # None =>
         startupLoad.cached.context = engine
    /\ status = "ready" => installed # None
    /\ ~cancelled /\ pending # "manual" =>
         \A job \in acquisitions : job.context = engine
    /\ NoSilentMismatch

KnownInv == ScheduleInv /\ CompareInv /\ ContextInv

-----------------------------------------------------------------------------
(* What the steps do to the fields these invariants speak of.               *)

\* A load's worker only moves its own job, keeps what the job was started
\* with, and answers "unchanged" only for an equal fingerprint.
LEMMA WorkerStep ==
    ASSUME Inv, AcquisitionStep
    PROVE  /\ UNCHANGED <<loopVars, appVars, controllerVars, startup,
                          startupLoad, stopVars>>
           /\ \/ acquisitions' = {}
              \/ \E job \in acquisitions : \E next :
                   /\ acquisitions' = {next}
                   /\ next.context = job.context /\ next.last = job.last
                   /\ next.stage = "unchanged" => next.fingerprint = job.last
<1> USE DEF Inv
<1>1. PICK job \in acquisitions :
        \/ AbandonAcquisition(job) \/ PrepareInventory(job)
        \/ BuildGeneration(job) \/ FailAcquisition(job)
  BY DEF AcquisitionStep
<1>2. job \in AcquisitionJob /\ acquisitions = {job} /\ inventory \in Fingerprints
  BY DEF TypeOK, SingleFlight
<1>3. UNCHANGED <<loopVars, appVars, controllerVars, startup, startupLoad, stopVars>>
  BY <1>1 DEF AbandonAcquisition, PrepareInventory, BuildGeneration,
              FailAcquisition, AcquisitionSteps
<1>4. CASE AbandonAcquisition(job)
  BY <1>2, <1>3, <1>4 DEF AbandonAcquisition, AcquisitionSteps
<1>5. CASE PrepareInventory(job)
  <2> DEFINE next == Prepared(job, SpareRebuild(job))
  <2>1. acquisitions' = {next}
    BY <1>2, <1>5 DEF PrepareInventory, AcquisitionSteps
  <2>2. /\ next.context = job.context /\ next.last = job.last
        /\ next.fingerprint = inventory
        /\ next.stage = IF SpareRebuild(job) THEN "unchanged" ELSE "building"
    BY <1>2 DEF Prepared, At, AcquisitionJob
  <2>3. next.stage = "unchanged" => next.fingerprint = job.last
    BY <2>2 DEF SpareRebuild
  <2> HIDE DEF next
  <2> QED
    BY <1>3, <2>1, <2>2, <2>3
<1>6. CASE BuildGeneration(job)
  <2>1. PICK retry \in BOOLEAN :
          AcquisitionSteps(job, {At([job EXCEPT !.retry = retry], "loaded")})
    BY <1>6 DEF BuildGeneration
  <2> DEFINE next == At([job EXCEPT !.retry = retry], "loaded")
  <2>2. acquisitions' = {next}
    BY <1>2, <2>1 DEF AcquisitionSteps
  <2>3. next.context = job.context /\ next.last = job.last /\ next.stage = "loaded"
    BY <1>2 DEF At, AcquisitionJob
  <2> HIDE DEF next
  <2> QED
    BY <1>3, <2>2, <2>3
<1>7. CASE FailAcquisition(job)
  <2> DEFINE next == At(job, "failed")
  <2>1. acquisitions' = {next}
    BY <1>2, <1>7 DEF FailAcquisition, AcquisitionSteps
  <2>2. next.context = job.context /\ next.last = job.last /\ next.stage = "failed"
    BY <1>2 DEF At, AcquisitionJob
  <2> HIDE DEF next
  <2> QED
    BY <1>3, <2>1, <2>2
<1> QED
  BY <1>1, <1>4, <1>5, <1>6, <1>7

\* start_pending either leaves everything as it is, or takes what is queued
\* when nothing runs and starts the one load, of the rebuilt context: a
\* forced one when a manual request was queued or the context has changed.
LEMMA StartedLoad ==
    ASSUME Inv, ~cancelled, NEW queued, StartPending(queued)
    PROVE  \/ /\ pending' = queued
              /\ UNCHANGED <<engine, backoff, active, acquisitions>>
           \/ /\ active = None /\ pending' = "none"
              /\ backoff' \in {backoff, None}
              /\ active' # None
              /\ queued = "manual" \/ engine' # engine => active'.force
              /\ \E job : /\ acquisitions' = {job}
                          /\ job.context = engine' /\ job.stage = "preparing"
                          /\ job.last = IF installed = None THEN None
                                        ELSE installed.fingerprint
<1>1. CASE queued = "none" \/ Blocked
  BY <1>1 DEF StartPending
<1>2. CASE ~(queued = "none" \/ Blocked)
  <2> DEFINE changed == RefreshedContext # engine
             retry == IF changed THEN None ELSE backoff
             force == ForceReload(queued = "manual" \/ changed, installed, retry)
             job == [id |-> nextId, force |-> force, context |-> RefreshedContext,
                     last |-> IF installed = None THEN None
                              ELSE installed.fingerprint,
                     fingerprint |-> None, retry |-> FALSE,
                     stage |-> "preparing"]
  <2>1. /\ pending' = "none" /\ engine' = RefreshedContext /\ backoff' = retry
        /\ active' = [id |-> nextId, force |-> force]
        /\ acquisitions' = acquisitions \cup {job}
    BY <1>2 DEF StartPending
  <2>2. active = None /\ acquisitions = {}
    BY <1>2 DEF Blocked, Inv, SingleFlight
  <2>3. backoff' \in {backoff, None}
    BY <2>1
  <2>4. active'.force = force
    BY <2>1
  <2>5. queued = "manual" \/ engine' # engine => force
    BY <2>1 DEF ForceReload
  <2>6. active' # None
    <3>1. force \in BOOLEAN
      <4>1. installed # None => installed.retry \in BOOLEAN
        BY DEF Inv, TypeOK, Generation
      <4>2. retry # None => retry.due \in BOOLEAN
        BY DEF Inv, TypeOK, RetryBackoff
      <4> QED
        BY <4>1, <4>2 DEF ForceReload
    <3> HIDE DEF force
    <3> QED
      BY <2>1, <3>1, NoneAssumption DEF Inv, TypeOK
  <2>7. /\ job.context = engine' /\ job.stage = "preparing"
        /\ job.last = IF installed = None THEN None ELSE installed.fingerprint
    BY <2>1
  <2> HIDE DEF job, force, retry
  <2> QED
    BY <2>1, <2>2, <2>3, <2>4, <2>5, <2>6, <2>7
<1> QED
  BY <1>1, <1>2

\* An acquisition result that is received answers the running load, which is
\* the only one.
LEMMA ReceivedLoad ==
    ASSUME Inv, ReceiveAcquisition
    PROVE  /\ ~cancelled /\ ~cancelled' /\ acquisitions' = {}
           /\ UNCHANGED <<startup, startupLoad, engine, pending, backoff>>
           /\ \E job \in acquisitions :
                /\ active # None /\ Done(job, AcquisitionResults)
                /\ CASE job.stage = "loaded" -> InstallLoaded(job) \/ RejectLoaded
                     [] job.stage = "failed" -> FailLoad
                     [] job.stage = "unchanged" /\ active.force -> FailLoad
                     [] OTHER -> KeepUnchanged
<1>1. PICK job \in acquisitions :
        /\ Done(job, AcquisitionResults)
        /\ acquisitions' = acquisitions \ {job}
        /\ IF active = None \/ job.id # active.id
           THEN KeepUnchanged /\ UNCHANGED <<active, elapsed>>
           ELSE /\ active' = None /\ elapsed' = FALSE
                /\ CASE job.stage = "loaded" -> InstallLoaded(job) \/ RejectLoaded
                     [] job.stage = "failed" -> FailLoad
                     [] job.stage = "unchanged" /\ active.force -> FailLoad
                     [] OTHER -> KeepUnchanged
  BY DEF ReceiveAcquisition
<1>2. ~cancelled /\ ~cancelled'
      /\ UNCHANGED <<startup, startupLoad, engine, pending, backoff>>
  BY DEF ReceiveAcquisition, Inv, StopInv, StopSteps, stopVars
<1>3. active # None /\ job.id = active.id /\ acquisitions' = {}
  BY <1>1, <1>2 DEF Inv, SingleFlight
<1> QED
  BY <1>1, <1>2, <1>3

\* Every other step leaves these alone.
QuietStep ==
    \/ SkipStartup \/ SkipPricing \/ SkipAcquisition \/ SkipPersistence
    \/ Draw \/ Wake \/ DrainGate \/ FetchPricing \/ WriterStep
    \/ PressRefresh \/ PickOrder \/ PressControl
    \/ ChangeInputs \/ PassMidnight \/ ElapseInterval \/ Terminated
    \/ UNCHANGED vars

\* The steps that touch none of what the invariants of this module relate.
LEMMA Quiet ==
    ASSUME QuietStep
    PROVE  UNCHANGED <<status, installed, engine, pending, active, persistence,
                       backoff, startup, startupLoad, acquisitions, cancelled>>
BY DEF QuietStep, loopVars, appVars, controllerVars, taskVars, stopVars,
       worldVars, vars, SkipStartup, SkipPricing, SkipAcquisition,
       SkipPersistence, Draw, Wake, DrainGate, FetchPricing, WriterStep,
       LockGate, CheckCancellation, ReplaceCache, FailWrite, FinishWrite,
       WriterFrame, PressRefresh, PickOrder, PressControl, ChangeInputs,
       PassMidnight, ElapseInterval, TimePasses, WorldFrame, Terminated

\* Stopping, queueing and handing over the write change nothing of what is
\* installed or running, and keep a manual request queued.
LEMMA Calm ==
    ASSUME Inv,
           \/ Leave \/ FailStartup \/ ConsumeAppIntents \/ ClockTick
           \/ StartPersistence
    PROVE  /\ UNCHANGED <<status, installed, engine, active, backoff, acquisitions>>
           /\ startupLoad' \in {startupLoad, None}
           /\ startup' = "sent" => startup = "sent" /\ UNCHANGED startupLoad
           /\ persistence' = None => persistence = None
           /\ pending = "manual" => pending' = "manual"
           /\ cancelled' \/ UNCHANGED cancelled
<1> USE DEF loopVars, appVars, controllerVars, taskVars, stopVars, worldVars
<1>1. CASE Leave \/ FailStartup
  BY <1>1 DEF Leave, FailStartup, SignalCancel
<1>2. CASE ConsumeAppIntents \/ ClockTick
  BY <1>2 DEF ConsumeAppIntents, QueuedIntents, ClockTick, Queue
<1>3. CASE StartPersistence
  <2>1. persistence' = None => persistence = None
    <3>1. CASE UNCHANGED persistence
      BY <3>1
    <3>2. CASE persistence # None /\ persistence' = TakeGeneration(persistence)
      <4>1. persistence \in [id : Nat, generation : Generation \cup {None}]
        BY <3>2 DEF Inv, TypeOK
      <4>2. persistence' \in [id : Nat, generation : Generation \cup {None}]
        BY <3>2, <4>1 DEF TakeGeneration
      <4> QED
        BY <4>2, NoneAssumption
    <3> QED
      BY <1>3, <3>1, <3>2 DEF StartPersistence
  <2> QED
    BY <1>3, <2>1 DEF StartPersistence
<1> QED
  BY <1>1, <1>2, <1>3

\* The initial work starts at most what start_pending starts.
LEMMA Started ==
    ASSUME Inv, StartQueued \/ StartInitialWork
    PROVE  /\ ~cancelled
           /\ UNCHANGED <<status, installed, persistence, startup, startupLoad,
                          cancelled>>
           /\ startup # "sent"
           /\ \/ UNCHANGED <<engine, pending, backoff, active, acquisitions>>
              \/ \E queued : /\ pending = "manual" => queued = "manual"
                             /\ StartPending(queued)
<1> USE DEF loopVars, appVars, controllerVars, taskVars, stopVars, worldVars
<1>1. ~cancelled /\ pc \in {"start", "initial"} /\ startup # "sent"
  BY DEF StartQueued, StartInitialWork, Inv, StopInv, StopSteps, ColdInv
<1>2. CASE StartQueued
  BY <1>1, <1>2 DEF StartQueued
<1>3. CASE StartInitialWork
  <2>1. UNCHANGED <<status, installed, persistence, startup, startupLoad,
                    cancelled>>
    BY <1>3 DEF StartInitialWork
  <2>2. CASE initialWork = "load"
    <3>1. StartPending(Queue(pending, "automatic"))
      BY <1>3, <2>2 DEF StartInitialWork
    <3>2. pending = "manual" => Queue(pending, "automatic") = "manual"
      BY DEF Queue
    <3> QED
      BY <1>1, <2>1, <3>1, <3>2
  <2>3. CASE initialWork # "load"
    BY <1>1, <1>3, <2>1, <2>3 DEF StartInitialWork
  <2> QED
    BY <2>2, <2>3
<1> QED
  BY <1>2, <1>3

\* What the startup worker leaves: a cached generation comes with its own
\* schedule and with the context of the engine.
LEMMA StartupAnswer ==
    ASSUME Inv, FinishStartup
    PROVE  /\ UNCHANGED <<status, installed, engine, pending, active,
                          persistence, backoff, acquisitions, cancelled>>
           /\ startupLoad'.cached # None =>
                /\ startupLoad'.cached.context = engine
                /\ startupLoad'.backoff # None =>
                     /\ startupLoad'.backoff.owner = startupLoad'.cached.serial
                     /\ startupLoad'.cached.retry
<1>1. UNCHANGED <<status, installed, engine, pending, active, persistence,
                  backoff, acquisitions, cancelled>>
  BY DEF FinishStartup, loopVars, appVars, controllerVars, stopVars
<1>2. CASE LoadCached
  <2>1. PICK fresh, due \in BOOLEAN : startupLoad' = CachedLoad(fresh, due)
    BY <1>2 DEF LoadCached
  <2>2. disk # None /\ disk.context = engine
    BY <1>2 DEF LoadCached, CacheMatches
  <2>3. startupLoad'.cached = disk
        /\ startupLoad'.backoff = IF disk.retry
                                  THEN [owner |-> disk.serial, due |-> due]
                                  ELSE None
    BY <2>1 DEF CachedLoad
  <2> QED
    BY <1>1, <2>2, <2>3
<1>3. CASE LoadMissing \/ LoadRejected \/ LoadFailed
  <2>1. MissingLoad.cached = None
        /\ \A schedule : [MissingLoad EXCEPT !.backoff = schedule].cached = None
        /\ [MissingLoad EXCEPT !.failed = TRUE].cached = None
    BY DEF MissingLoad
  <2>2. CASE LoadMissing \/ LoadFailed
    BY <1>1, <2>1, <2>2 DEF LoadMissing, LoadFailed
  <2>3. CASE LoadRejected
    <3>1. \E schedule : startupLoad' \in {MissingLoad,
                                         [MissingLoad EXCEPT !.backoff = schedule]}
      BY <2>3 DEF LoadRejected
    <3> QED
      BY <1>1, <2>1, <3>1
  <2> QED
    BY <1>3, <2>2, <2>3
<1> QED
  BY <1>2, <1>3 DEF FinishStartup

\* The steps of the session, grouped by what they do to these invariants.
LEMMA Steps ==
    ASSUME [Next]_vars
    PROVE  \/ QuietStep
           \/ Leave \/ FailStartup \/ ConsumeAppIntents \/ ClockTick
           \/ StartPersistence
           \/ FinishStartup \/ ReceiveStartup \/ ReceivePricing
           \/ ReceiveAcquisition \/ ReceivePersistence
           \/ StartQueued \/ StartInitialWork \/ JoinTasks \/ ReachRetry
           \/ AcquisitionStep
BY DEF Next, LoopStep, Environment, QuietStep

-----------------------------------------------------------------------------
(* The schedule belongs to what is installed.                               *)

\* No step pairs the installed generation with the schedule of another.
LEMMA ScheduleStep == Inv /\ ScheduleInv /\ [Next]_vars => ScheduleInv'
<1> SUFFICES ASSUME Inv, ScheduleInv, [Next]_vars PROVE ScheduleInv'
  OBVIOUS
<1> USE DEF ScheduleInv, BackoffOfInstalled
<1>1. ASSUME UNCHANGED installed, backoff' \in {backoff, None},
             startupLoad' \in {startupLoad, None},
             persistence' = None => persistence = None
      PROVE  ScheduleInv'
  BY <1>1
<1>2. CASE QuietStep
  BY <1>1, <1>2, Quiet
<1>3. CASE \/ Leave \/ FailStartup \/ ConsumeAppIntents \/ ClockTick
           \/ StartPersistence
  BY <1>1, <1>3, Calm
<1>4. CASE FinishStartup
  BY <1>4, StartupAnswer
<1>5. CASE ReceiveStartup
  BY <1>5 DEF ReceiveStartup, Inv, ColdInv
<1>6. CASE ReceivePricing
  BY <1>1, <1>6 DEF ReceivePricing, loopVars
<1>7. CASE ReceiveAcquisition
  <2>1. PICK job \in acquisitions :
          /\ active # None
          /\ CASE job.stage = "loaded" -> InstallLoaded(job) \/ RejectLoaded
               [] job.stage = "failed" -> FailLoad
               [] job.stage = "unchanged" /\ active.force -> FailLoad
               [] OTHER -> KeepUnchanged
    BY <1>7, ReceivedLoad
  <2>2. UNCHANGED <<startupLoad, backoff>>
    BY <1>7, ReceivedLoad
  <2>3. CASE RejectLoaded \/ FailLoad \/ KeepUnchanged
    BY <1>1, <2>2, <2>3 DEF RejectLoaded, FailLoad, KeepUnchanged
  <2>4. CASE job.stage = "loaded" /\ InstallLoaded(job)
    <3>1. BuiltGeneration(job) \in Generation /\ job.id \in Nat
      BY <2>4, BuiltGenerationType DEF Inv, TypeOK, JobInv, AcquisitionJob
    <3>2. persistence' # None
      BY <2>4, <3>1, NoneAssumption DEF InstallLoaded
    <3> QED
      BY <2>2, <3>2
  <2> QED
    BY <2>1, <2>3, <2>4
<1>8. CASE ReceivePersistence
  <2>1. PICK job \in writes :
          IF persistence = None \/ job.id # persistence.id
          THEN UNCHANGED <<persistence, backoff>>
          ELSE /\ persistence' = None
               /\ backoff' = BackoffAfter(job)
    BY <1>8 DEF ReceivePersistence
  <2>2. UNCHANGED <<installed, startupLoad>>
    BY <1>8 DEF ReceivePersistence, loopVars
  <2>3. CASE UNCHANGED <<persistence, backoff>>
    BY <1>1, <2>2, <2>3
  <2>4. CASE persistence' = None /\ backoff' = BackoffAfter(job)
    <3>1. job.generation = installed
      BY DEF Inv, ShownInv, WritesOnlyShown
    <3>2. backoff' # None => backoff'.owner = installed.serial /\ installed.retry
      BY <2>4, <3>1 DEF BackoffAfter, SavedBackoff
    <3> QED
      BY <2>2, <3>2
  <2> QED
    BY <2>1, <2>3, <2>4
<1>9. CASE StartQueued \/ StartInitialWork
  <2>1. backoff' \in {backoff, None}
    BY <1>9, Started, StartedLoad
  <2> QED
    BY <1>1, <1>9, <2>1, Started
<1>10. CASE JoinTasks
  BY <1>1, <1>10 DEF JoinTasks, loopVars, controllerVars
<1>11. CASE ReachRetry
  <2>1. backoff \in RetryBackoff /\ backoff' = [backoff EXCEPT !.due = TRUE]
    BY <1>11 DEF ReachRetry, Inv, TypeOK
  <2>2. backoff'.owner = backoff.owner
    BY <2>1 DEF RetryBackoff
  <2> QED
    BY <1>11, <2>2
       DEF ReachRetry, TimePasses, WorldFrame, loopVars, taskVars
<1>12. CASE AcquisitionStep
  BY <1>1, <1>12, WorkerStep DEF loopVars, controllerVars
<1> QED
  BY <1>2, <1>3, <1>4, <1>5, <1>6, <1>7, <1>8, <1>9, <1>10, <1>11, <1>12, Steps

-----------------------------------------------------------------------------
(* Loads compare with what is installed.                                    *)

\* The installed generation only changes when no load runs.
LEMMA CompareStep == Inv /\ CompareInv /\ [Next]_vars => CompareInv'
<1> SUFFICES ASSUME Inv, CompareInv, [Next]_vars PROVE CompareInv'
  OBVIOUS
<1> USE DEF CompareInv
<1>1. ASSUME UNCHANGED installed, acquisitions' \in {acquisitions, {}}
      PROVE  CompareInv'
  BY <1>1
<1>2. CASE QuietStep
  BY <1>1, <1>2, Quiet
<1>3. CASE \/ Leave \/ FailStartup \/ ConsumeAppIntents \/ ClockTick
           \/ StartPersistence
  BY <1>1, <1>3, Calm
<1>4. CASE FinishStartup
  BY <1>1, <1>4, StartupAnswer
<1>5. CASE ReceiveStartup
  BY <1>5 DEF ReceiveStartup, Inv, ColdInv
<1>6. CASE ReceivePricing \/ ReceivePersistence \/ JoinTasks \/ ReachRetry
  BY <1>1, <1>6 DEF ReceivePricing, ReceivePersistence, JoinTasks, ReachRetry,
                    TimePasses, WorldFrame, loopVars, taskVars
<1>7. CASE ReceiveAcquisition
  BY <1>7, ReceivedLoad
<1>8. CASE StartQueued \/ StartInitialWork
  <2>1. \/ UNCHANGED acquisitions
        \/ \E job : /\ acquisitions' = {job} /\ job.stage = "preparing"
                    /\ job.last = IF installed = None THEN None
                                  ELSE installed.fingerprint
    BY <1>8, Started, StartedLoad
  <2>2. UNCHANGED installed
    BY <1>8, Started
  <2> QED
    BY <1>1, <2>1, <2>2
<1>9. CASE AcquisitionStep
  BY <1>9, WorkerStep DEF loopVars
<1> QED
  BY <1>2, <1>3, <1>4, <1>5, <1>6, <1>7, <1>8, <1>9, Steps

-----------------------------------------------------------------------------
(* A context the display does not have is on its way.                       *)

\* Whatever moves the engine to another context queues a manual request or
\* starts a forced load under it.
LEMMA ContextStep == Inv /\ ContextInv /\ [Next]_vars => ContextInv'
<1> SUFFICES ASSUME Inv, ContextInv, [Next]_vars PROVE ContextInv'
  OBVIOUS
<1> USE DEF ContextInv, NoSilentMismatch
<1>1. ASSUME UNCHANGED <<status, installed, engine, active>>,
             acquisitions' = acquisitions \/ cancelled',
             startup' = "sent" => startup = "sent" /\ UNCHANGED startupLoad,
             pending = "manual" => pending' = "manual",
             cancelled' \/ UNCHANGED cancelled
      PROVE  ContextInv'
  BY <1>1
<1>2. CASE QuietStep
  BY <1>1, <1>2, Quiet
<1>3. CASE \/ Leave \/ FailStartup \/ ConsumeAppIntents \/ ClockTick
           \/ StartPersistence
  BY <1>1, <1>3, Calm
<1>4. CASE FinishStartup
  BY <1>4, StartupAnswer
<1>5. CASE ReceiveStartup
  BY <1>5 DEF ReceiveStartup, Inv, ColdInv
<1>6. CASE ReceivePricing
  <2>1. UNCHANGED <<status, installed, startup, active, acquisitions, cancelled>>
    BY <1>6 DEF ReceivePricing, loopVars, stopVars
  <2>2. pending = "manual" => pending' = "manual"
    BY <1>6 DEF ReceivePricing, Queue
  <2>3. engine' # engine => pending' = "manual"
    BY <1>6 DEF ReceivePricing, ReloadAfterPricing, Queue
  <2>4. startup # "sent"
    BY <1>6 DEF ReceivePricing, Inv, ColdInv, StopSteps
  <2> QED
    BY <2>1, <2>2, <2>3, <2>4
<1>7. CASE ReceiveAcquisition
  <2>1. PICK job \in acquisitions :
          /\ active # None /\ Done(job, AcquisitionResults)
          /\ CASE job.stage = "loaded" -> InstallLoaded(job) \/ RejectLoaded
               [] job.stage = "failed" -> FailLoad
               [] job.stage = "unchanged" /\ active.force -> FailLoad
               [] OTHER -> KeepUnchanged
    BY <1>7, ReceivedLoad
  <2>2. /\ UNCHANGED <<startup, startupLoad, engine, pending>>
        /\ acquisitions' = {} /\ ~cancelled /\ ~cancelled'
    BY <1>7, ReceivedLoad
  <2>3. CASE RejectLoaded \/ FailLoad
    <3>1. status' # "ready" /\ UNCHANGED installed
      BY <2>3 DEF RejectLoaded, FailLoad, FailedStatus
    <3> QED
      BY <2>2, <3>1
  <2>4. CASE KeepUnchanged /\ ~active.force
    BY <2>2, <2>4 DEF KeepUnchanged
  <2>5. CASE job.stage = "loaded" /\ InstallLoaded(job)
    <3>1. installed'.context = job.context
      BY <2>5 DEF InstallLoaded, BuiltGeneration
    <3>2. installed' # None
      BY <2>5, BuiltGenerationType, NoneAssumption
         DEF Inv, TypeOK, JobInv, InstallLoaded
    <3> QED
      BY <2>2, <3>1, <3>2
  <2> QED
    BY <2>1, <2>3, <2>4, <2>5 DEF Done, AcquisitionResults
<1>8. CASE ReceivePersistence \/ ReachRetry
  BY <1>1, <1>8 DEF ReceivePersistence, ReachRetry, TimePasses, WorldFrame,
                    loopVars, taskVars, stopVars
<1>9. CASE JoinTasks
  <2>1. cancelled
    BY <1>9 DEF JoinTasks, Inv, StopInv, StopSteps
  <2> QED
    BY <1>1, <1>9, <2>1
       DEF JoinTasks, loopVars, controllerVars, stopVars
<1>10. CASE StartQueued \/ StartInitialWork
  <2>1. /\ ~cancelled
        /\ UNCHANGED <<status, installed, startup, startupLoad, cancelled>>
        /\ startup # "sent"
    BY <1>10, Started
  <2>2. CASE UNCHANGED <<engine, pending, active, acquisitions>>
    BY <1>1, <2>1, <2>2
  <2>3. ASSUME NEW queued, pending = "manual" => queued = "manual",
               StartPending(queued)
        PROVE  ContextInv'
    <3>1. CASE /\ pending' = queued
               /\ UNCHANGED <<engine, backoff, active, acquisitions>>
      BY <1>1, <2>1, <2>3, <3>1
    <3>2. CASE /\ active = None /\ active' # None
               /\ queued = "manual" \/ engine' # engine => active'.force
               /\ \E job : acquisitions' = {job} /\ job.context = engine'
      BY <2>1, <2>3, <3>2
    <3> QED
      BY <2>1, <2>3, <3>1, <3>2, StartedLoad
  <2> QED
    BY <1>10, <2>2, <2>3, Started
<1>11. CASE AcquisitionStep
  BY <1>11, WorkerStep DEF loopVars, controllerVars, stopVars
<1> QED
  BY <1>2, <1>3, <1>4, <1>5, <1>6, <1>7, <1>8, <1>9, <1>10, <1>11, Steps

-----------------------------------------------------------------------------
(* The theorems.                                                           *)

\* Nothing is installed, loaded or queued when the session starts.
LEMMA InitKnown == Init => KnownInv
BY DEF Init, KnownInv, ScheduleInv, CompareInv, ContextInv, BackoffOfInstalled,
       NoSilentMismatch

\* What the controller knows of the installed generation holds of every
\* reachable state.
THEOREM KnownInvariance == Spec => []KnownInv
<1>1. Inv /\ KnownInv /\ [Next]_vars => KnownInv'
  BY ScheduleStep, CompareStep, ContextStep DEF KnownInv
<1> QED
  BY <1>1, InitKnown, Invariance, PTL DEF Spec

\* The retry schedule start_pending consults is that of the installed
\* generation, whatever was rejected, reset, saved or failed before.
THEOREM ScheduleOfInstalled == Spec => []BackoffOfInstalled
<1>1. KnownInv => BackoffOfInstalled
  BY DEF KnownInv, ScheduleInv
<1> QED
  BY <1>1, KnownInvariance, PTL

\* An "unchanged" answer was compared with the generation that is installed
\* when the answer is read, however long it waited in its channel.
THEOREM UnchangedAnswers == Spec => []UnchangedIsCurrent
<1>1. Inv /\ KnownInv => UnchangedIsCurrent
  <2> SUFFICES ASSUME Inv, KnownInv, NEW job \in acquisitions,
                      job.stage = "unchanged"
               PROVE  installed # None /\ installed.fingerprint = job.fingerprint
    BY DEF UnchangedIsCurrent
  <2>1. job.fingerprint # None
    BY DEF Inv, JobInv
  <2>2. /\ job.last = IF installed = None THEN None ELSE installed.fingerprint
        /\ job.fingerprint = job.last
    BY DEF KnownInv, CompareInv
  <2> QED
    BY <2>1, <2>2
<1> QED
  BY <1>1, Invariance, KnownInvariance, PTL

\* A generation shown as ready under a context the engine has left is about to
\* be replaced by a forced load, for any interleaving of pricing results,
\* order changes, date changes and loads.
THEOREM MismatchIsRepaired == Spec => []NoSilentMismatch
<1>1. KnownInv => NoSilentMismatch
  BY DEF KnownInv, ContextInv
<1> QED
  BY <1>1, KnownInvariance, PTL
=============================================================================
