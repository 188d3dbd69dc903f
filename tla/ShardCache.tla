----------------------------- MODULE ShardCache -----------------------------
(***************************************************************************)
(* The input-record cache of tokenx-engine (input_record_cache/) and the     *)
(* acquisitions that go through it (acquisition.rs, integrations/mod.rs and  *)
(* integrations/cache.rs).  Every input has one shard file, replaced by an   *)
(* atomic rename and shared by all processes without a lock.                 *)
(*                                                                         *)
(* An acquisition takes an inventory of file stamps, plans every unit of an  *)
(* integration against the shard headers, then parses and folds the units in *)
(* batches: a planned hit reads the shard's body only when it is folded, and *)
(* falls back on the input itself when the shard is no longer what was       *)
(* planned.  Between any two steps inputs change, other processes replace or *)
(* unlink shards, `tokenx cache prune` runs, and system calls fail.          *)
(*                                                                         *)
(* Abstractions: a stamp (size, mtime, file identity) is a version number    *)
(* that every change of the input increases; the records of a version are    *)
(* the version itself, and None those of a scan that straddled a change;     *)
(* reading a shard through one open handle is one step.                      *)
(***************************************************************************)
EXTENDS Naturals, Sequences, FiniteSets

CONSTANTS
    Acquirers,   \* processes that acquire
    Inputs,      \* the inputs they discover
    BatchWidth,  \* inputs parsed in parallel: the rayon thread count
    Settings,    \* which processes run and what they discover: the inputs of each
                 \* integration, in discovery order; versions without usage; whether
                 \* `tokenx cache prune` runs; and bounds: failing system calls,
                 \* cancelled acquisitions and killed processes
    MaxVersion,  \* bound: the last version of an input
    MaxDamage,   \* bound: shards damaged from outside
    None

Versions == 0 .. MaxVersion
Statuses == {"complete", "partial", "unavailable"}

\* An input is a file and its decoder, as the key of a shard has it; discovery keeps
\* the first of two paths to one file.
Distinct(groups) ==
    \A g, h \in DOMAIN groups : \A k \in DOMAIN groups[g], l \in DOMAIN groups[h] :
        groups[g][k] = groups[h][l] => g = h /\ k = l

ASSUME ShardAssumption ==
    /\ BatchWidth \in Nat \ {0} /\ {MaxVersion, MaxDamage} \subseteq Nat
    /\ None \notin Versions /\ None \notin [status : Statuses, records : Versions \cup {None}]
    /\ Settings \subseteq [users : SUBSET Acquirers, groups : Seq(Seq(Inputs)),
                           empty : SUBSET Versions, prunes : BOOLEAN,
                           faults : Nat, cancels : Nat]
    /\ \A x \in Settings : x.groups # <<>> /\ Distinct(x.groups)

VARIABLES
    version, present,  \* the inputs
    shard,             \* the shard file of each input
    acquirer,          \* the acquisition each process is in
    prune,             \* the explicit maintenance command
    setting, faults, damage, cancels

bounds == <<setting, faults, damage, cancels>>
vars == <<version, present, shard, acquirer, prune, bounds>>

\* A shard file as its readers classify it: intact; intact header, damaged
\* body; damaged envelope or header digest; a header they do not understand;
\* a header of another input or decoder.
Shard ==
    [kind : {"intact", "body", "envelope", "unsupported", "misplaced"},
     stamp : Versions, records : Versions \cup {None}]

Intact(stamp, records) == [kind |-> "intact", stamp |-> stamp, records |-> records]
HeaderReadable(s) == s.kind \in {"intact", "body"}

\* One discovered input on its way through an acquisition.
Unit ==
    [stage : {"prepared", "hit", "recover", "miss", "read", "ready", "folded"},
     origin : {"shard", "scan", "bypass"},  \* a hit, a lookup miss, CacheMiss::Bypass
     snapshot : Versions \cup {None},
     records : Versions \cup {None},
     status : Statuses,
     removal : BOOLEAN,                 \* recovery_requires_removal
     failed : BOOLEAN]                  \* a system call on the input failed

\* InputRecordShardStore.  dirty_entries is filled by tests only.
Store ==
    [enabled : BOOLEAN, dirty : BOOLEAN,
     deleted : SUBSET Inputs, invalidated : SUBSET Inputs,
     taken : SUBSET Inputs, protected : SUBSET Inputs]

Acquirer ==
    [step : {"idle", "open", "plan", "batch", "parse", "fold", "save", "done", "broken"},
     cancelled : BOOLEAN,
     inventory : [Inputs -> Versions \cup {None}],
     unit : [Inputs -> Unit],
     group : Nat \ {0},
     planned : SUBSET Nat,    \* places in the group of units not yet in a batch
     batch : SUBSET Nat,      \* and of those of the batch not yet folded
     store : Store,
     diagnosed : SUBSET Inputs]  \* inputs with a cache diagnostic

NewUnit ==
    [stage |-> "prepared", origin |-> "scan", snapshot |-> None, records |-> None,
     status |-> "complete", removal |-> FALSE, failed |-> FALSE]

OpenedStore(opened) ==
    [enabled |-> opened, dirty |-> FALSE, deleted |-> {}, invalidated |-> {},
     taken |-> {}, protected |-> {}]

Resting ==
    [step |-> "idle", cancelled |-> FALSE,
     inventory |-> [i \in Inputs |-> None], unit |-> [i \in Inputs |-> NewUnit],
     group |-> 1, planned |-> {}, batch |-> {},
     store |-> OpenedStore(TRUE), diagnosed |-> {}]

ResumedPrune == [step |-> "idle", listed |-> {}, doomed |-> {}]

Discovered ==
    {i \in Inputs : \E g \in DOMAIN setting.groups :
        \E u \in DOMAIN setting.groups[g] : setting.groups[g][u] = i}

Init ==
    /\ setting \in Settings
    /\ version = [i \in Inputs |-> 0]
    /\ present \in [Inputs -> BOOLEAN] /\ \A i \in Inputs : present[i] => i \in Discovered
    /\ shard = [i \in Inputs |-> None]
    /\ acquirer = [a \in Acquirers |-> Resting]
    /\ prune = ResumedPrune
    /\ faults = 0 /\ damage = 0 /\ cancels = 0

Fault == faults < setting.faults /\ faults' = faults + 1
NoFault == UNCHANGED faults
Set(a, q) == acquirer' = [acquirer EXCEPT ![a] = q]
InputsAndPrune == <<setting, version, present, prune, damage, cancels>>

-----------------------------------------------------------------------------
(* InputRecordShardStore: what each call does to the store's own state.     *)

Disabled(store) == [store EXCEPT !.enabled = FALSE]

Remove(store, i) ==
    IF i \in store.protected THEN store
    ELSE [store EXCEPT !.invalidated = @ \ {i}, !.taken = @ \ {i},
                       !.deleted = @ \cup {i}, !.dirty = TRUE]

InvalidateRead(store, i) ==
    [store EXCEPT !.invalidated = @ \cup {i}, !.taken = @ \cup {i}]

Written(store, i) ==
    [store EXCEPT !.deleted = @ \ {i}, !.invalidated = @ \ {i},
                  !.taken = @ \ {i}, !.protected = @ \ {i}]

Protect(store, i) == [store EXCEPT !.protected = @ \cup {i}]

\* read_shard_entry_with_plan, in the order of its checks.
ReadFailure(i, stamp) ==
    LET s == shard[i]
    IN  IF s = None THEN "missing"
        ELSE IF s.kind \in {"unsupported", "misplaced"} THEN "unrecognized"
        ELSE IF s.kind = "envelope" THEN "corrupt"
        ELSE IF s.stamp # stamp THEN "replaced"
        ELSE IF s.kind = "body" THEN "corrupt"
        ELSE "none"

\* Mutant: a shard that was replaced since planning counts as corrupt.
RemoveReplaced == {"corrupt", "replaced"}

\* preserves_shard_until_replacement and requires_shard_removal.
Preserving == {"missing", "unrecognized"}
RequiresRemoval == {"corrupt"}

-----------------------------------------------------------------------------
(* One acquisition.                                                        *)

With(q, i, u) == [q EXCEPT !.unit[i] = u]
Current(i, snapshot) == present[i] /\ version[i] = snapshot

\* prepare_inventory: a snapshot of every discovered input.
Begin(a) ==
    /\ acquirer[a].step \in {"idle", "done"}
    /\ \E unread \in {u \in SUBSET Inputs : Cardinality(u) <= 1} :
        LET found == {i \in Inputs : present[i]} \ unread
            snapshot(i) == IF i \in found THEN version[i] ELSE None
        IN  /\ IF unread = {} THEN NoFault ELSE Fault
            /\ Set(a, [Resting EXCEPT
                   !.step = "open",
                   !.inventory = [i \in Inputs |-> snapshot(i)],
                   !.unit = [i \in Inputs |-> [NewUnit EXCEPT
                       !.snapshot = snapshot(i), !.failed = i \in unread]]])
    /\ UNCHANGED <<shard, InputsAndPrune>>

OpenStore(a) ==
    LET q == acquirer[a]
    IN  /\ q.step = "open" /\ ~q.cancelled
        /\ \/ Set(a, [q EXCEPT !.step = "plan"]) /\ NoFault
           \/ Set(a, [q EXCEPT !.step = "plan", !.store = OpenedStore(FALSE)]) /\ Fault
        /\ UNCHANGED <<shard, InputsAndPrune>>

\* The units of the integration that is being run.
InputAt(q, k) == setting.groups[q.group][k]
GroupUnits(q) ==
    {k \in DOMAIN setting.groups[q.group] : q.inventory[InputAt(q, k)] # None}

\* Mutant: a shard that cannot be looked up makes its input bypass the cache.
PlanErrorAsBypass(q, i) ==
    LET u == q.unit[i]
    IN  IF ~q.store.enabled \/ (shard[i] # None /\ ~HeaderReadable(shard[i]))
        THEN [u EXCEPT !.stage = "miss", !.origin = "bypass"]
        ELSE IF i \notin q.store.deleted \cup q.store.taken
                /\ shard[i] # None /\ shard[i].stamp = u.snapshot
        THEN [u EXCEPT !.stage = "hit", !.origin = "shard"]
        ELSE [u EXCEPT !.stage = "miss"]

\* Mutant: a hit is planned from the shard alone.
PlanAnyHeader(q, i) ==
    LET u == q.unit[i]
    IN  IF ~q.store.enabled THEN [u EXCEPT !.stage = "miss", !.origin = "bypass"]
        ELSE IF shard[i] # None /\ HeaderReadable(shard[i])
        THEN [u EXCEPT !.stage = "hit", !.origin = "shard",
                       !.snapshot = shard[i].stamp]
        ELSE [u EXCEPT !.stage = "miss"]

\* plan_cache_hit: only the shard's header is read.
Plan(q, i) ==
    LET u == q.unit[i]
    IN  IF ~q.store.enabled THEN [u EXCEPT !.stage = "miss", !.origin = "bypass"]
        ELSE IF /\ i \notin q.store.deleted \cup q.store.taken
                /\ shard[i] # None /\ HeaderReadable(shard[i])
                /\ shard[i].stamp = u.snapshot
        THEN [u EXCEPT !.stage = "hit", !.origin = "shard"]
        ELSE [u EXCEPT !.stage = "miss"]

PlanUnit(a) ==
    LET q == acquirer[a]
    IN  /\ q.step = "plan" /\ ~q.cancelled
        /\ \E k \in GroupUnits(q) :
            LET i == InputAt(q, k)
            IN  /\ q.unit[i].stage = "prepared"
                /\ \/ Set(a, With(q, i, Plan(q, i))) /\ NoFault
                   \/ /\ q.store.enabled /\ Fault
                      /\ LET off == [q EXCEPT !.store = Disabled(@)]
                         IN  Set(a, With(off, i, Plan(off, i)))
        /\ UNCHANGED <<shard, InputsAndPrune>>

EndPlanning(a) ==
    LET q == acquirer[a]
    IN  /\ q.step = "plan" /\ ~q.cancelled
        /\ \A k \in GroupUnits(q) : q.unit[InputAt(q, k)].stage # "prepared"
        /\ Set(a, [q EXCEPT !.step = "batch", !.planned = GroupUnits(q)])
        /\ UNCHANGED <<shard, faults, InputsAndPrune>>

UpTo(q, n) == {k \in q.planned : k <= n}
Misses(q, places) == {k \in places : q.unit[InputAt(q, k)].stage = "miss"}

\* Mutant: the miss that exceeds the width is still taken.
FitsOneMore(q, n) == Cardinality(Misses(q, UpTo(q, n) \ {n})) <= BatchWidth

Fits(q, n) == Cardinality(Misses(q, UpTo(q, n))) <= BatchWidth

\* ParsedBatchInput::next: units up to the miss that would exceed the width.
NextBatch(a) ==
    LET q == acquirer[a]
    IN  /\ q.step = "batch" /\ ~q.cancelled
        /\ \E n \in q.planned :
            /\ Fits(q, n) /\ \A m \in q.planned : Fits(q, m) => m <= n
            /\ Set(a, [q EXCEPT !.step = "parse", !.batch = UpTo(q, n),
                                !.planned = @ \ UpTo(q, n)])
        /\ UNCHANGED <<shard, faults, InputsAndPrune>>

NextGroup(a) ==
    LET q == acquirer[a]
    IN  /\ q.step = "batch" /\ ~q.cancelled /\ q.planned = {}
        /\ IF q.group < Len(setting.groups)
           THEN Set(a, [q EXCEPT !.step = "plan", !.group = @ + 1])
           ELSE Set(a, [q EXCEPT !.step = "save", !.group = @ + 1])
        /\ UNCHANGED <<shard, faults, InputsAndPrune>>

\* The unit of the batch that is folded next.
Foremost(q, i) ==
    \E k \in q.batch : InputAt(q, k) = i /\ \A j \in q.batch : k <= j

\* A unit is scanned with its batch, or alone when its shard failed it.
Scanning(q, i, stage) ==
    /\ q.unit[i].stage = stage
    /\ \/ q.step = "parse" /\ \E k \in q.batch : InputAt(q, k) = i
       \/ q.step = "fold" /\ Foremost(q, i)

\* load_or_scan_unit_cacheable, until the input is open.  A scan that is
\* interrupted keeps its confirmed records; one that fails has none.
ScanUnit(a) ==
    LET q == acquirer[a]
    IN  /\ \E i \in Inputs :
            LET u == q.unit[i]
                scanned == [u EXCEPT !.stage = "read", !.records = version[i]]
                unavailable == [u EXCEPT !.stage = "ready", !.status = "unavailable"]
            IN  /\ Scanning(q, i, "miss")
                /\ \/ /\ q.cancelled \/ ~present[i]
                      /\ Set(a, With(q, i, unavailable)) /\ NoFault
                   \/ /\ ~q.cancelled /\ present[i]
                      /\ \/ Set(a, With(q, i, scanned)) /\ NoFault
                         \/ /\ \/ Set(a, With(q, i, [unavailable EXCEPT !.failed = TRUE]))
                               \/ Set(a, With(q, i, [scanned EXCEPT !.status = "partial",
                                                                    !.failed = TRUE]))
                            /\ Fault
        /\ UNCHANGED <<shard, InputsAndPrune>>

Scanned(u, i) ==
    [u EXCEPT !.stage = "ready", !.records = IF version[i] = @ THEN @ ELSE None]

\* Mutant: what was scanned is not compared with the snapshot again.
AcceptScan(u, i) == Scanned(u, i)

\* The rest of it: an input that is no longer what the snapshot says makes a
\* complete scan partial.
Validated(u, i) ==
    IF Current(i, u.snapshot) THEN Scanned(u, i)
    ELSE [Scanned(u, i) EXCEPT !.status = "partial"]

ValidateUnit(a) ==
    LET q == acquirer[a]
    IN  /\ \E i \in Inputs :
            LET u == q.unit[i]
            IN  /\ Scanning(q, i, "read")
                /\ \/ Set(a, With(q, i, Validated(u, i))) /\ NoFault
                   \/ /\ Set(a, With(q, i, [Scanned(u, i) EXCEPT !.status = "partial",
                                                                !.failed = TRUE]))
                      /\ Fault
        /\ UNCHANGED <<shard, InputsAndPrune>>

Parsed(q) == \A k \in q.batch : q.unit[InputAt(q, k)].stage \in {"hit", "ready"}

StartFold(a) ==
    LET q == acquirer[a]
    IN  /\ q.step = "parse" /\ ~q.cancelled /\ Parsed(q)
        /\ Set(a, [q EXCEPT !.step = "fold"])
        /\ UNCHANGED <<shard, faults, InputsAndPrune>>

-----------------------------------------------------------------------------
(* Folding a batch, one unit after another: resolve_unit and                *)
(* fold_units_with_filter.                                                  *)

Folding(q, i, stage) == q.step = "fold" /\ Foremost(q, i) /\ q.unit[i].stage = stage

\* The store after a failed read of i.
AfterFailure(store, i, reason) ==
    LET kept == IF reason \in Preserving THEN Protect(store, i) ELSE store
    IN  IF reason \in RequiresRemoval THEN Remove(kept, i)
        ELSE InvalidateRead(kept, i)

\* Mutant: the unit of a failed read is reported unavailable.
GiveUp(u, reason) == [u EXCEPT !.stage = "ready", !.status = "unavailable"]

Recovering(u, reason) ==
    [u EXCEPT !.stage = "recover", !.origin = "scan",
              !.removal = @ \/ reason \in RequiresRemoval]

\* take_records on a planned hit.  A disabled store is not diagnosed again.
TakeRecords(a) ==
    LET q == acquirer[a]
    IN  /\ \E i \in Inputs :
            LET u == q.unit[i]
                reason == ReadFailure(i, u.snapshot)
                off == [q EXCEPT !.store = InvalidateRead(Protect(Disabled(@), i), i)]
            IN  /\ Folding(q, i, "hit")
                /\ IF ~q.store.enabled
                   THEN /\ Set(a, With([q EXCEPT !.store = InvalidateRead(@, i)], i,
                                       Recovering(u, "disabled")))
                        /\ NoFault
                   ELSE IF i \in q.store.deleted \cup q.store.taken
                   THEN Set(a, [q EXCEPT !.step = "broken"]) /\ NoFault
                   ELSE \/ /\ reason = "none"
                           /\ Set(a, With([q EXCEPT !.store.taken = @ \cup {i}], i,
                                          [u EXCEPT !.stage = "ready",
                                                    !.records = shard[i].records]))
                           /\ NoFault
                        \/ /\ reason # "none"
                           /\ Set(a, With([q EXCEPT !.store = AfterFailure(@, i, reason),
                                                    !.diagnosed = @ \cup {i}], i,
                                          Recovering(u, reason)))
                           /\ NoFault
                        \/ Set(a, With(off, i, Recovering(u, "disabled"))) /\ Fault
        /\ UNCHANGED <<shard, InputsAndPrune>>

\* recover_after_cache_failure: the input is snapshotted anew and scanned.
RecoverUnit(a) ==
    LET q == acquirer[a]
    IN  /\ \E i \in Inputs :
            LET u == q.unit[i]
                unavailable == [u EXCEPT !.stage = "ready", !.status = "unavailable"]
            IN  /\ Folding(q, i, "recover")
                /\ \/ /\ present[i] /\ NoFault
                      /\ Set(a, With(q, i, [u EXCEPT !.stage = "miss",
                                                    !.snapshot = version[i]]))
                   \/ /\ ~present[i] /\ NoFault
                      /\ Set(a, With(q, i, unavailable))
                   \/ Set(a, With(q, i, [unavailable EXCEPT !.failed = TRUE])) /\ Fault
        /\ UNCHANGED <<shard, InputsAndPrune>>

WritePlanned(u) == u.origin = "scan" /\ u.status = "complete" /\ u.records \notin setting.empty
Doubted(u) == u.removal \/ (u.origin = "scan" /\ u.status = "partial")

Folded(q, i) ==
    [q EXCEPT !.unit[i].stage = "folded", !.batch = {k \in @ : InputAt(q, k) # i}]

Writes(q, i) == q.store.enabled /\ WritePlanned(q.unit[i])

\* The shard is replaced, or what is doubted is remembered for the end.
FoldUnit(a) ==
    LET q == acquirer[a]
    IN  /\ \E i \in Inputs :
            LET u == q.unit[i]
                doubt(store) == IF Doubted(u) THEN Remove(store, i) ELSE store
            IN  /\ Folding(q, i, "ready")
                /\ \/ /\ Writes(q, i) /\ NoFault
                      /\ shard' = [shard EXCEPT ![i] = Intact(u.snapshot, u.records)]
                      /\ Set(a, Folded([q EXCEPT !.store = Written(@, i)], i))
                   \/ /\ Writes(q, i) /\ Fault
                      /\ Set(a, Folded([q EXCEPT !.store = doubt(Disabled(@))], i))
                      /\ UNCHANGED shard
                   \/ /\ ~Writes(q, i) /\ NoFault
                      /\ Set(a, Folded([q EXCEPT !.store = doubt(@)], i))
                      /\ UNCHANGED shard
        /\ UNCHANGED InputsAndPrune

EndBatch(a) ==
    LET q == acquirer[a]
    IN  /\ q.step = "fold" /\ q.batch = {} /\ ~q.cancelled
        /\ Set(a, [q EXCEPT !.step = "batch"])
        /\ UNCHANGED <<shard, faults, InputsAndPrune>>

-----------------------------------------------------------------------------
(* save_if_dirty, after the last cancellation check.                       *)

Condemned(store) ==
    IF store.enabled /\ store.dirty THEN store.deleted \ store.protected ELSE {}

Unlink(a) ==
    LET q == acquirer[a]
    IN  /\ q.step = "save"
        /\ \E i \in Condemned(q.store) :
            \/ /\ shard' = [shard EXCEPT ![i] = None] /\ NoFault
               /\ Set(a, [q EXCEPT !.store.deleted = @ \ {i}])
            \/ /\ Set(a, [q EXCEPT !.store = Disabled(@)]) /\ Fault
               /\ UNCHANGED shard
        /\ UNCHANGED InputsAndPrune

FinishAcquisition(a) ==
    LET q == acquirer[a]
    IN  /\ q.step = "save" /\ Condemned(q.store) = {}
        /\ Set(a, [q EXCEPT !.step = "done"])
        /\ UNCHANGED <<shard, faults, InputsAndPrune>>

\* The token is looked at between units and between batches.
Cancel(a) ==
    /\ acquirer[a].step \notin {"idle", "save", "done", "broken"}
    /\ ~acquirer[a].cancelled /\ cancels < setting.cancels
    /\ cancels' = cancels + 1
    /\ acquirer' = [acquirer EXCEPT ![a].cancelled = TRUE]
    /\ UNCHANGED <<setting, version, present, shard, prune, faults, damage>>

Abandon(a) ==
    LET q == acquirer[a]
    IN  /\ q.cancelled
        /\ \/ q.step \in {"open", "plan", "batch"}
           \/ q.step = "parse" /\ Parsed(q)
           \/ q.step = "fold" /\ q.batch = {}
        /\ Set(a, Resting)
        /\ UNCHANGED <<shard, faults, InputsAndPrune>>

Kill(a) ==
    /\ acquirer[a].step \notin {"idle", "done"} /\ cancels < setting.cancels
    /\ cancels' = cancels + 1
    /\ Set(a, Resting)
    /\ UNCHANGED <<setting, version, present, shard, prune, faults, damage>>

-----------------------------------------------------------------------------
(* prune_input_record_cache: the whole directory is classified before the    *)
(* first file is removed; any file that cannot be classified ends it.        *)

Acquiring == UNCHANGED <<version, present, acquirer, bounds>>

StartPrune ==
    /\ setting.prunes /\ prune.step = "idle"
    /\ prune' = [step |-> "classify", listed |-> {i \in Inputs : shard[i] # None},
                 doomed |-> {}]
    /\ UNCHANGED shard /\ Acquiring

Classify(i) ==
    /\ prune.step = "classify" /\ i \in prune.listed
    /\ prune' =
           IF shard[i] = None \/ shard[i].kind \notin {"intact", "misplaced"}
           THEN ResumedPrune
           ELSE [prune EXCEPT !.listed = @ \ {i},
                              !.doomed = IF shard[i].kind = "misplaced" \/ ~present[i]
                                         THEN @ \cup {i} ELSE @]
    /\ UNCHANGED shard /\ Acquiring

EndClassification ==
    /\ prune.step = "classify" /\ prune.listed = {}
    /\ prune' = [prune EXCEPT !.step = "delete"]
    /\ UNCHANGED shard /\ Acquiring

\* A file that is already gone is an error that ends the command.
Prune(i) ==
    /\ prune.step = "delete" /\ i \in prune.doomed
    /\ prune' = IF shard[i] = None THEN ResumedPrune
                ELSE [prune EXCEPT !.doomed = @ \ {i}]
    /\ shard' = [shard EXCEPT ![i] = None]
    /\ Acquiring

EndPrune ==
    /\ prune.step = "delete" /\ prune.doomed = {}
    /\ prune' = ResumedPrune
    /\ UNCHANGED shard /\ Acquiring

-----------------------------------------------------------------------------
(* The world.                                                              *)

\* A client writes, replaces or deletes its file.
Change(i) ==
    /\ version[i] < MaxVersion
    /\ version' = [version EXCEPT ![i] = @ + 1]
    /\ \E p \in BOOLEAN : present' = [present EXCEPT ![i] = p]
    /\ UNCHANGED <<shard, acquirer, prune, bounds>>

\* A disk error, a crash without a sync, another release's file.
Damage(i) ==
    /\ damage < MaxDamage /\ damage' = damage + 1
    /\ \/ /\ shard[i] # None
          /\ shard' = [shard EXCEPT ![i].kind = "body"]
       \/ \E kind \in {"envelope", "unsupported", "misplaced"} :
              shard' = [shard EXCEPT ![i] = [kind |-> kind, stamp |-> 0, records |-> 0]]
    /\ UNCHANGED <<setting, version, present, acquirer, prune, faults, cancels>>

\* What an acquisition that has begun does next.
Proceed(a) ==
    \/ OpenStore(a) \/ PlanUnit(a) \/ EndPlanning(a)
    \/ NextBatch(a) \/ NextGroup(a) \/ ScanUnit(a) \/ ValidateUnit(a)
    \/ StartFold(a) \/ TakeRecords(a) \/ RecoverUnit(a) \/ FoldUnit(a)
    \/ EndBatch(a) \/ Unlink(a) \/ FinishAcquisition(a) \/ Abandon(a)

AcquirerStep(a) == Begin(a) \/ Proceed(a)

PruneStep ==
    \/ StartPrune \/ EndClassification \/ EndPrune
    \/ \E i \in Inputs : Classify(i) \/ Prune(i)

Next ==
    \/ \E a \in setting.users : AcquirerStep(a) \/ Cancel(a) \/ Kill(a)
    \/ PruneStep
    \/ \E i \in Discovered : Change(i) \/ Damage(i)

Spec == Init /\ [][Next]_vars

\* The engine runs an acquisition that has begun to its end.  Nothing makes one
\* begin: an automatic refresh of unchanged inputs answers Unchanged without
\* folding them (tui/generation_controller.rs:677).
FairSpec == Spec /\ \A a \in Acquirers : WF_vars(Proceed(a))

-----------------------------------------------------------------------------
(* Properties.                                                             *)

\* Every variable keeps its type, and no more inputs are parsed at a time than
\* there are threads (integrations/mod.rs:839-844).
TypeOK ==
    /\ version \in [Inputs -> Versions] /\ present \in [Inputs -> BOOLEAN]
    /\ DOMAIN shard = Inputs
    /\ \A i \in Inputs : shard[i] = None \/ shard[i] \in Shard
    /\ setting \in Settings /\ DOMAIN acquirer = Acquirers
    /\ \A a \in Acquirers :
           /\ acquirer[a] \in Acquirer
           /\ acquirer[a].step = "parse" =>
                  Cardinality({k \in acquirer[a].batch :
                      acquirer[a].unit[InputAt(acquirer[a], k)].stage # "hit"}) <= BatchWidth
    /\ prune \in [step : {"idle", "classify", "delete"},
                  listed : SUBSET Inputs, doomed : SUBSET Inputs]
    /\ faults \in 0 .. setting.faults /\ cancels \in 0 .. setting.cancels
    /\ damage \in 0 .. MaxDamage

\* An intact shard holds the records of the version it is stamped with,
\* whatever the input did while it was scanned and whoever wrote the shard
\* (integrations/cache.rs:244-284).
SealedShards ==
    \A i \in Inputs :
        shard[i] # None /\ shard[i].kind = "intact" => shard[i].records = shard[i].stamp

\* An acquisition only comes to unlink a shard it found corrupt or whose input
\* it could not read through: a shard another process replaced since planning
\* is bypassed and survives (integrations/cache.rs:425 and 484-490).
ReplacementSpared ==
    [][\A a \in Acquirers :
           \A i \in acquirer'[a].store.deleted \ acquirer[a].store.deleted :
               \/ acquirer[a].unit[i].status = "partial"
               \/ shard[i] # None /\ shard[i].kind \in {"body", "envelope"}]_vars

\* The cache is invisible: with shards replaced, damaged and unlinked under
\* it, an acquisition reports exactly what it could have reported without one,
\* and a cache failure never fails it (README.md:57).
ReportOf(u) ==
    IF u.stage # "folded" THEN None
    ELSE [status |-> u.status, records |-> IF u.status = "complete" THEN u.records ELSE None]

Answer(q) ==
    [phase |-> IF q.step \in {"idle", "done", "broken"} THEN q.step ELSE "running",
     cancelled |-> q.cancelled, inventory |-> q.inventory,
     unreadable |-> {i \in Inputs : q.unit[i].failed},
     report |-> [i \in Inputs |-> ReportOf(q.unit[i])]]

Cacheless == INSTANCE CachelessAcquisition WITH
    acquisition <- [a \in Acquirers |-> Answer(acquirer[a])]

CacheIsInvisible == Cacheless!Spec

\* While acquisitions recur (the inputs of others change, manual refreshes,
\* restarts, warm), an input with usage that is left alone ends up with an intact
\* shard of its current version, whatever was damaged, raced or unlinked before.
Recurring == []<>(\E a \in Acquirers : acquirer[a].step = "open")

Converges ==
    \A i \in Inputs :
        <>[](present[i] /\ version[i] \notin setting.empty) /\ Recurring
            => <>[](shard[i] = Intact(version[i], version[i]))
=============================================================================
