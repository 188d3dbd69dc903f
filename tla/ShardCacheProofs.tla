-------------------------- MODULE ShardCacheProofs --------------------------
(***************************************************************************)
(* Proofs about ShardCache for any acquirers, inputs, groups and bounds: the   *)
(* type invariant with the batch width, that shards are sealed, and that       *)
(* replaced shards are spared, all from one inductive invariant Inv, and that   *)
(* ShardCache implements CachelessAcquisition: whatever happens to the shards,   *)
(* an acquisition only tells what one that reads every input itself could have   *)
(* told.                                                                   *)
(***************************************************************************)
EXTENDS ShardCache, TLAPS

\* What has become of a unit whose input had the version "listed" in the inventory,
\* has the version "now", and is there or not.  Its snapshot lies between the two,
\* and what it read between the snapshot and now; it is only complete if it read what
\* its snapshot says, and it is not complete for a reason.
UnitOK(u, listed, now, there, cancelled) ==
    /\ u.snapshot = None <=> listed = None
    /\ u.stage # "prepared" => listed # None
    /\ listed # None =>
           /\ listed <= u.snapshot /\ u.snapshot <= now
           /\ now = listed => there
    /\ u.stage \in {"prepared", "hit"} => u.snapshot = listed /\ ~u.removal
    /\ u.stage = "hit" => u.origin = "shard"
    /\ u.stage \in {"prepared", "hit", "recover", "miss"} => u.status = "complete"
    /\ u.stage = "read" =>
           /\ u.records # None /\ u.snapshot <= u.records /\ u.records <= now
           /\ u.status # "complete" => u.failed
    /\ u.stage \in {"ready", "folded"} =>
           IF u.status = "complete"
           THEN /\ u.records # None /\ listed <= u.records /\ u.records <= now
                /\ u.origin = "scan" => u.records = u.snapshot
           ELSE u.failed \/ cancelled \/ now # listed

\* What the store may hold against its input: nothing before it is taken; and a
\* unit that demands a removal has already got it, unless the shard is protected.
StoreOK(u, store, i) ==
    /\ u.stage \in {"prepared", "hit"} => i \notin store.deleted \cup store.taken
    /\ u.removal /\ u.stage # "folded" => i \in store.deleted \cup store.protected

\* The unit of every input that was found has been folded, is in the batch, or is
\* still planned.
Acquires == {"open", "plan", "batch", "parse", "fold"}
Batches == {"batch", "parse", "fold"}
FoldedBefore(q, groups) ==
    \A g \in 1 .. q.group - 1 : \A k \in DOMAIN groups[g] :
        q.inventory[groups[g][k]] # None => q.unit[groups[g][k]].stage = "folded"

PreparedAfter(q, groups) ==
    \A g \in DOMAIN groups : g > q.group =>
        \A k \in DOMAIN groups[g] : q.unit[groups[g][k]].stage = "prepared"

Unread(q) == {k \in q.batch : q.unit[InputAt(q, k)].stage # "hit"}

CourseOK(q) ==
    /\ q.step # "broken"
    /\ q.step \in {"save", "done"} =>
           /\ ~q.cancelled
           /\ \A i \in Inputs : q.inventory[i] # None => q.unit[i].stage = "folded"
    /\ q.step \in Acquires =>
           /\ q.group \in DOMAIN setting.groups
           /\ FoldedBefore(q, setting.groups) /\ PreparedAfter(q, setting.groups)
    /\ q.step = "open" => \A i \in Inputs : q.unit[i].stage = "prepared"
    /\ q.step = "plan" =>
           \A k \in GroupUnits(q) :
               q.unit[InputAt(q, k)].stage \in {"prepared", "hit", "miss"}
    /\ q.step \in Batches =>
           /\ q.planned \cup q.batch \subseteq GroupUnits(q) /\ q.planned \cap q.batch = {}
           /\ \A k \in GroupUnits(q) \ (q.planned \cup q.batch) :
                  q.unit[InputAt(q, k)].stage = "folded"
           /\ \A k \in q.planned : q.unit[InputAt(q, k)].stage \in {"hit", "miss"}
    /\ q.step \in {"open", "plan", "batch"} => q.batch = {}
    /\ q.step = "parse" => Cardinality(Unread(q)) <= BatchWidth

AcquirerOK(q) ==
    /\ q \in Acquirer
    /\ \A i \in Inputs :
           /\ UnitOK(q.unit[i], q.inventory[i], version[i], present[i], q.cancelled)
           /\ StoreOK(q.unit[i], q.store, i)
           /\ q.inventory[i] # None => i \in Discovered
    /\ CourseOK(q)

WorldOK ==
    /\ version \in [Inputs -> Versions] /\ present \in [Inputs -> BOOLEAN]
    /\ \A i \in Inputs : present[i] => i \in Discovered
    /\ setting \in Settings

ShardsOK == shard \in [Inputs -> Shard \cup {None}] /\ SealedShards

RestOK ==
    /\ prune \in [step : {"idle", "classify", "delete"},
                  listed : SUBSET Inputs, doomed : SUBSET Inputs]
    /\ faults \in 0 .. setting.faults /\ damage \in 0 .. MaxDamage
    /\ cancels \in 0 .. setting.cancels

Inv ==
    /\ WorldOK /\ ShardsOK /\ RestOK
    /\ DOMAIN acquirer = Acquirers /\ \A a \in Acquirers : AcquirerOK(acquirer[a])

-----------------------------------------------------------------------------
(* Values.                                                                 *)

\* The types of the parts of an acquisition.
LEMMA AcquirerType ==
    ASSUME NEW q \in Acquirer, NEW i \in Inputs
    PROVE  /\ q.unit[i] \in Unit /\ q.inventory[i] \in Versions \cup {None}
           /\ q.store \in Store /\ q.group \in Nat \ {0}
           /\ q.planned \subseteq Nat /\ q.batch \subseteq Nat
BY DEF Acquirer

\* The types of the parts of a unit.
LEMMA UnitType ==
    ASSUME NEW u \in Unit
    PROVE  /\ u.snapshot \in Versions \cup {None} /\ u.records \in Versions \cup {None}
           /\ u.status \in Statuses
           /\ u.removal \in BOOLEAN /\ u.failed \in BOOLEAN
BY DEF Unit

\* What has become of a unit stays so when its input changes.
LEMMA UnitLater ==
    ASSUME NEW u \in Unit, NEW listed \in Versions \cup {None}, NEW now \in Versions,
           NEW then \in BOOLEAN, NEW there \in BOOLEAN, NEW cancelled \in BOOLEAN,
           UnitOK(u, listed, now, then, cancelled)
    PROVE  UnitOK(u, listed, now + 1, there, cancelled)
<1>1. /\ u.snapshot \in Versions \cup {None} /\ u.records \in Versions \cup {None}
      /\ Versions \subseteq Nat /\ now \in Nat
  BY UnitType, ShardAssumption DEF Versions
<1>2. \A v \in Nat : v <= now => v <= now + 1 /\ now + 1 # v
  BY <1>1
<1>3. \A v, w \in Nat : v <= w /\ w <= now => v <= now
  BY <1>1
<1>4. ASSUME listed # None
      PROVE  listed <= u.snapshot /\ u.snapshot <= now + 1 /\ now + 1 # listed
  <2>1. listed <= u.snapshot /\ u.snapshot <= now /\ u.snapshot # None
    BY <1>4 DEF UnitOK
  <2>2. listed \in Nat /\ u.snapshot \in Nat
    BY <1>1, <1>4, <2>1
  <2>3. listed <= now
    BY <1>3, <2>1, <2>2
  <2> QED
    BY <1>2, <2>1, <2>2, <2>3
<1>5. ASSUME u.records # None, u.records <= now
      PROVE  u.records <= now + 1
  <2>1. u.records \in Nat
    BY <1>1, <1>5
  <2> QED
    BY <1>2, <1>5, <2>1
<1>6. ASSUME u.stage \in {"ready", "folded"}
      PROVE  IF u.status = "complete"
             THEN /\ u.records # None /\ listed <= u.records /\ u.records <= now + 1
                  /\ u.origin = "scan" => u.records = u.snapshot
             ELSE u.failed \/ cancelled \/ now + 1 # listed
  <2>1. CASE u.status = "complete"
    BY <1>5, <1>6, <2>1 DEF UnitOK
  <2>2. CASE u.status # "complete"
    <3>1. listed # None
      BY <1>6 DEF UnitOK
    <3> QED
      BY <1>4, <2>2, <3>1
  <2> QED
    BY <2>1, <2>2
<1>7. ASSUME u.stage = "read"
      PROVE  /\ u.records # None /\ u.snapshot <= u.records /\ u.records <= now + 1
             /\ u.status # "complete" => u.failed
  BY <1>5, <1>7 DEF UnitOK
<1> DEFINE later == now + 1
<1> HIDE DEF later
<1>8. /\ listed # None => listed <= u.snapshot /\ u.snapshot <= later /\ later # listed
      /\ u.stage = "read" =>
             /\ u.records # None /\ u.snapshot <= u.records /\ u.records <= later
             /\ u.status # "complete" => u.failed
      /\ u.stage \in {"ready", "folded"} =>
             IF u.status = "complete"
             THEN /\ u.records # None /\ listed <= u.records /\ u.records <= later
                  /\ u.origin = "scan" => u.records = u.snapshot
             ELSE u.failed \/ cancelled \/ later # listed
  BY <1>4, <1>6, <1>7 DEF later
<1>9. UnitOK(u, listed, later, there, cancelled)
  BY <1>8 DEF UnitOK
<1> QED
  BY <1>9 DEF later

\* An acquisition that nothing has happened to.
LEMMA RestingOK == ASSUME WorldOK PROVE AcquirerOK(Resting)
<1>1. NewUnit \in Unit /\ OpenedStore(TRUE) \in Store
  BY DEF NewUnit, Unit, OpenedStore, Store, Statuses
<1>2. Resting \in Acquirer
  <2>0. 1 \in Nat \ {0} /\ {} \in SUBSET Nat /\ {} \in SUBSET Inputs
    OBVIOUS
  <2>1. [i \in Inputs |-> None] \in [Inputs -> Versions \cup {None}]
    OBVIOUS
  <2>2. [i \in Inputs |-> NewUnit] \in [Inputs -> Unit]
    BY <1>1
  <2> QED
    BY <1>1, <2>0, <2>1, <2>2, Zenon DEF Resting, Acquirer
<1>3. ASSUME NEW i \in Inputs
      PROVE  /\ UnitOK(Resting.unit[i], Resting.inventory[i], version[i], present[i],
                       Resting.cancelled)
             /\ StoreOK(Resting.unit[i], Resting.store, i)
             /\ Resting.inventory[i] = None
  BY DEF Resting, NewUnit, OpenedStore, UnitOK, StoreOK
<1>4. CourseOK(Resting)
  BY DEF CourseOK, Resting, Acquires, Batches
<1> QED
  BY <1>2, <1>3, <1>4 DEF AcquirerOK

-----------------------------------------------------------------------------
(* Steps of one acquisition.                                               *)

\* An acquisition stays what it is while the inputs and the setting do.
LEMMA SameCourse ==
    ASSUME UNCHANGED setting, NEW a \in Acquirers, CourseOK(acquirer'[a])
    PROVE  CourseOK(acquirer[a])'
<1>1. \A k : InputAt(acquirer[a], k)' = InputAt(acquirer'[a], k)
  BY DEF InputAt
<1>2. GroupUnits(acquirer[a])' = GroupUnits(acquirer'[a])
  BY DEF GroupUnits, InputAt
<1>3. Unread(acquirer[a])' = Unread(acquirer'[a])
  BY DEF Unread, InputAt
<1>4. /\ FoldedBefore(acquirer[a], setting.groups)' = FoldedBefore(acquirer'[a], setting.groups)
      /\ PreparedAfter(acquirer[a], setting.groups)' = PreparedAfter(acquirer'[a], setting.groups)
  BY DEF FoldedBefore, PreparedAfter
<1> QED
  BY <1>1, <1>2, <1>3, <1>4 DEF CourseOK

\* The same, with what has become of its units.
LEMMA SameWorld ==
    ASSUME UNCHANGED <<version, present, setting>>, NEW a \in Acquirers,
           AcquirerOK(acquirer'[a])
    PROVE  AcquirerOK(acquirer[a])'
<1>1. CourseOK(acquirer[a])'
  BY SameCourse DEF AcquirerOK
<1>2. Discovered' = Discovered
  BY DEF Discovered
<1> QED
  BY <1>1, <1>2 DEF AcquirerOK

\* It stays what it is while the world does.
LEMMA SetOK ==
    ASSUME Inv, NEW a \in Acquirers, NEW STATE r, Set(a, r), AcquirerOK(r),
           UNCHANGED <<version, present, setting>>
    PROVE  /\ DOMAIN acquirer' = Acquirers
           /\ \A b \in Acquirers : AcquirerOK(acquirer[b])'
<1>1. DOMAIN acquirer' = Acquirers /\ \A b \in Acquirers : AcquirerOK(acquirer'[b])
  BY DEF Inv, Set
<1> QED
  BY <1>1, SameWorld

\* Every place of every group holds an input of its own.
LEMMA GroupType ==
    ASSUME WorldOK, NEW STATE q, q.group \in DOMAIN setting.groups
    PROVE  /\ \A g \in DOMAIN setting.groups : \A k \in DOMAIN setting.groups[g] :
                  setting.groups[g][k] \in Inputs
           /\ \A n \in GroupUnits(q) :
                  /\ InputAt(q, n) \in Inputs
                  /\ \A k \in GroupUnits(q) : InputAt(q, k) = InputAt(q, n) => k = n
                  /\ \A g \in DOMAIN setting.groups : \A k \in DOMAIN setting.groups[g] :
                         g # q.group => setting.groups[g][k] # InputAt(q, n)
<1>1. setting.groups \in Seq(Seq(Inputs)) /\ Distinct(setting.groups)
  BY ShardAssumption DEF WorldOK
<1>2. \A g \in DOMAIN setting.groups : setting.groups[g] \in Seq(Inputs)
  BY <1>1
<1>3. \A g \in DOMAIN setting.groups : \A k \in DOMAIN setting.groups[g] :
          setting.groups[g][k] \in Inputs
  BY <1>2
<1>4. \A n \in GroupUnits(q) :
          n \in DOMAIN setting.groups[q.group] /\ InputAt(q, n) = setting.groups[q.group][n]
  BY DEF GroupUnits, InputAt
<1> QED
  BY <1>1, <1>3, <1>4 DEF Distinct

\* One unit goes on, and the store with it.
LEMMA UnitStep ==
    ASSUME WorldOK, NEW STATE q, AcquirerOK(q), NEW STATE r, r \in Acquirer,
           NEW i \in Inputs,
           r.step = q.step, r.cancelled = q.cancelled, r.inventory = q.inventory,
           r.group = q.group, r.planned = q.planned, r.batch = q.batch,
           \A j \in Inputs \ {i} : r.unit[j] = q.unit[j],
           \A j \in Inputs : StoreOK(r.unit[j], r.store, j),
           UnitOK(r.unit[i], q.inventory[i], version[i], present[i], q.cancelled),
           NEW n \in GroupUnits(q), InputAt(q, n) = i, q.step \in {"plan", "parse", "fold"},
           q.unit[i].stage # "folded", q.step \in {"parse", "fold"} => n \in q.batch,
           q.step = "plan" => r.unit[i].stage \in {"hit", "miss"},
           q.step = "parse" => (q.unit[i].stage = "hit" <=> r.unit[i].stage = "hit")
    PROVE  AcquirerOK(r)
<1>1. \A k : InputAt(r, k) = InputAt(q, k)
  BY DEF InputAt
<1>2. GroupUnits(r) = GroupUnits(q)
  BY <1>1 DEF GroupUnits
<1>3. CourseOK(q) /\ q \in Acquirer
  BY DEF AcquirerOK
<1>4. \A j \in Inputs : q.unit[j].stage = "folded" => r.unit[j].stage = "folded"
  OBVIOUS
<1>5. setting.groups \in Seq(Seq(Inputs))
  BY ShardAssumption DEF WorldOK
<1>6. q.step \in Acquires
  BY DEF Acquires
<1>7. FoldedBefore(r, setting.groups)
  <2>1. ASSUME NEW g \in 1 .. r.group - 1, NEW k \in DOMAIN setting.groups[g],
               r.inventory[setting.groups[g][k]] # None
        PROVE  r.unit[setting.groups[g][k]].stage = "folded"
    <3>1. q.unit[setting.groups[g][k]].stage = "folded"
      BY <1>3, <1>6, <2>1 DEF CourseOK, FoldedBefore
    <3>2. g \in DOMAIN setting.groups
      BY <1>3, <1>5, <1>6 DEF CourseOK, Acquirer
    <3>3. setting.groups[g][k] \in Inputs
      BY <1>5, <3>2
    <3> QED
      BY <1>4, <3>1, <3>3
  <2> QED
    BY <2>1 DEF FoldedBefore
<1>8. \A k \in GroupUnits(q) : InputAt(q, k) \in Inputs /\ (InputAt(q, k) = i => k = n)
  <2>1. q.group \in DOMAIN setting.groups
    BY <1>3, <1>6 DEF CourseOK
  <2> QED
    BY <2>1, GroupType
<1>9. ASSUME q.step \in Batches
      PROVE  /\ r.planned \cup r.batch \subseteq GroupUnits(r) /\ r.planned \cap r.batch = {}
             /\ \A k \in GroupUnits(r) \ (r.planned \cup r.batch) :
                    r.unit[InputAt(r, k)].stage = "folded"
             /\ \A k \in r.planned : r.unit[InputAt(r, k)].stage \in {"hit", "miss"}
  <2>1. /\ q.planned \cup q.batch \subseteq GroupUnits(q) /\ q.planned \cap q.batch = {}
        /\ \A k \in GroupUnits(q) \ (q.planned \cup q.batch) :
               q.unit[InputAt(q, k)].stage = "folded"
        /\ \A k \in q.planned : q.unit[InputAt(q, k)].stage \in {"hit", "miss"}
    BY <1>3, <1>9 DEF CourseOK
  <2>2. q.step \in {"parse", "fold"}
    BY <1>9 DEF Batches
  <2> QED
    BY <1>1, <1>2, <1>4, <1>8, <2>1, <2>2
<1>10. PreparedAfter(r, setting.groups)
  <2>1. ASSUME NEW g \in DOMAIN setting.groups, g > r.group, NEW k \in DOMAIN setting.groups[g]
        PROVE  r.unit[setting.groups[g][k]].stage = "prepared"
    <3>1. q.unit[setting.groups[g][k]].stage = "prepared"
      BY <1>3, <1>6, <2>1 DEF CourseOK, PreparedAfter
    <3>2. setting.groups[g][k] \in Inputs /\ setting.groups[g][k] # i
      <4>1. q.group \in DOMAIN setting.groups /\ q.group \in Nat /\ g # q.group
        BY <1>3, <1>6, <2>1 DEF CourseOK, Acquirer
      <4> QED
        BY <2>1, <4>1, GroupType
    <3> QED
      BY <3>1, <3>2
  <2> QED
    BY <2>1 DEF PreparedAfter
<1>11. ASSUME q.step = "plan"
       PROVE  \A k \in GroupUnits(r) :
                  r.unit[InputAt(r, k)].stage \in {"prepared", "hit", "miss"}
  <2>1. \A k \in GroupUnits(q) : q.unit[InputAt(q, k)].stage \in {"prepared", "hit", "miss"}
    BY <1>3, <1>11 DEF CourseOK
  <2> QED
    BY <1>1, <1>2, <1>8, <1>11, <2>1
<1>12. ASSUME q.step = "parse"
       PROVE  Cardinality(Unread(r)) <= BatchWidth
  <2>1. q.batch \subseteq GroupUnits(q)
    BY <1>3, <1>12 DEF CourseOK, Batches
  <2>2. Unread(r) = Unread(q)
    BY <1>1, <1>8, <1>12, <2>1 DEF Unread
  <2> QED
    BY <1>3, <1>12, <2>2 DEF CourseOK
<1>13. CourseOK(r)
  BY <1>3, <1>6, <1>7, <1>9, <1>12, <1>10, <1>11 DEF CourseOK, Batches
<1>14. ASSUME NEW j \in Inputs
       PROVE  /\ UnitOK(r.unit[j], r.inventory[j], version[j], present[j], r.cancelled)
              /\ r.inventory[j] # None => j \in Discovered
  BY DEF AcquirerOK
<1> QED
  BY <1>13, <1>14 DEF AcquirerOK

\* The rest of the world is left alone.
LEMMA AcquirerMoves ==
    ASSUME Inv, NEW a \in Acquirers, NEW STATE r, Set(a, r), AcquirerOK(r),
           Fault \/ NoFault, UNCHANGED InputsAndPrune, UNCHANGED shard \/ ShardsOK'
    PROVE  Inv'
<1>1. UNCHANGED <<version, present, setting, prune, damage, cancels>>
  BY DEF InputsAndPrune
<1>2. setting \in Settings /\ setting.faults \in Nat /\ faults \in 0 .. setting.faults
  BY ShardAssumption DEF Inv, WorldOK, RestOK
<1>3. faults' \in 0 .. setting.faults
  BY <1>2 DEF Fault, NoFault
<1>4. RestOK'
  BY <1>1, <1>3 DEF Inv, RestOK
<1>5. Discovered' = Discovered
  BY <1>1 DEF Discovered
<1>6. WorldOK'
  BY <1>1, <1>5 DEF Inv, WorldOK
<1>7. ShardsOK'
  BY DEF Inv, ShardsOK, SealedShards
<1> QED
  BY <1>1, <1>4, <1>6, <1>7, SetOK DEF Inv

\* What a call of the store made for one input leaves of the others.
StoreLater(s, t, i) ==
    /\ t \in Store
    /\ \A j \in Inputs \ {i} :
           /\ j \in t.deleted <=> j \in s.deleted
           /\ j \in t.taken <=> j \in s.taken
           /\ j \in t.protected <=> j \in s.protected

\* What the calls of InputRecordShardStore keep of the deleted, taken and
\* protected inputs.
LEMMA StoreCalls ==
    ASSUME NEW s \in Store, NEW i \in Inputs, NEW reason
    PROVE  /\ StoreLater(s, s, i) /\ StoreLater(s, Disabled(s), i)
           /\ StoreLater(s, Remove(s, i), i) /\ StoreLater(s, Written(s, i), i)
           /\ StoreLater(s, Remove(Disabled(s), i), i)
           /\ StoreLater(s, InvalidateRead(s, i), i)
           /\ StoreLater(s, InvalidateRead(Protect(Disabled(s), i), i), i)
           /\ StoreLater(s, [s EXCEPT !.taken = @ \cup {i}], i)
           /\ StoreLater(s, AfterFailure(s, i, reason), i)
<1>1. ASSUME NEW t \in Store
      PROVE  /\ StoreLater(t, t, i) /\ StoreLater(t, Disabled(t), i)
             /\ StoreLater(t, Remove(t, i), i) /\ StoreLater(t, Written(t, i), i)
             /\ StoreLater(t, InvalidateRead(t, i), i) /\ StoreLater(t, Protect(t, i), i)
             /\ StoreLater(t, [t EXCEPT !.taken = @ \cup {i}], i)
  <2>1. t.taken \cup {i} \in SUBSET Inputs
    BY DEF Store
  <2>2. StoreLater(t, t, i) /\ StoreLater(t, Disabled(t), i)
    BY DEF StoreLater, Store, Disabled
  <2>3. StoreLater(t, Remove(t, i), i)
    BY DEF StoreLater, Store, Remove
  <2>4. StoreLater(t, Written(t, i), i)
    BY DEF StoreLater, Store, Written
  <2>5. StoreLater(t, InvalidateRead(t, i), i)
    BY DEF StoreLater, Store, InvalidateRead
  <2>6. StoreLater(t, Protect(t, i), i)
    BY DEF StoreLater, Store, Protect
  <2>7. StoreLater(t, [t EXCEPT !.taken = @ \cup {i}], i)
    BY DEF StoreLater, Store
  <2> QED
    BY <2>2, <2>3, <2>4, <2>5, <2>6, <2>7
<1>2. \A t, v, w : StoreLater(t, v, i) /\ StoreLater(v, w, i) => StoreLater(t, w, i)
  BY DEF StoreLater
<1>3. \A t, v : StoreLater(t, v, i) => v \in Store
  BY DEF StoreLater
<1>4. StoreLater(s, Disabled(s), i) /\ StoreLater(s, Protect(s, i), i)
  BY <1>1
<1>5. StoreLater(s, Remove(Disabled(s), i), i)
  BY <1>1, <1>2, <1>3, <1>4
<1>6. StoreLater(s, InvalidateRead(Protect(Disabled(s), i), i), i)
  <2>1. StoreLater(Disabled(s), Protect(Disabled(s), i), i)
    BY <1>1, <1>3, <1>4
  <2>2. StoreLater(Protect(Disabled(s), i), InvalidateRead(Protect(Disabled(s), i), i), i)
    BY <1>1, <1>3, <2>1
  <2> QED
    BY <1>2, <1>4, <2>1, <2>2
<1>7. StoreLater(s, AfterFailure(s, i, reason), i)
  <2> DEFINE kept == IF reason \in Preserving THEN Protect(s, i) ELSE s
  <2>1. StoreLater(s, kept, i)
    BY <1>1
  <2> HIDE DEF kept
  <2>2. StoreLater(kept, Remove(kept, i), i) /\ StoreLater(kept, InvalidateRead(kept, i), i)
    BY <1>1, <1>3, <2>1
  <2>3. StoreLater(s, IF reason \in RequiresRemoval THEN Remove(kept, i)
                     ELSE InvalidateRead(kept, i), i)
    BY <1>2, <2>1, <2>2
  <2> QED
    BY <2>3 DEF AfterFailure, kept
<1> QED
  BY <1>1, <1>5, <1>6, <1>7

\* An acquisition in which one unit has gone on, and the store with it.
Moved(q, i, u, store, diagnosed) ==
    [q EXCEPT !.unit[i] = u, !.store = store, !.diagnosed = diagnosed]

\* The parts of an acquisition whose unit and store have gone on together.
LEMMA MovedIs ==
    ASSUME NEW q \in Acquirer, NEW i \in Inputs, NEW u, NEW store, NEW diagnosed
    PROVE  /\ With(q, i, u) = Moved(q, i, u, q.store, q.diagnosed)
           /\ With([q EXCEPT !.store = store], i, u) = Moved(q, i, u, store, q.diagnosed)
           /\ With([q EXCEPT !.store = store, !.diagnosed = diagnosed], i, u)
                  = Moved(q, i, u, store, diagnosed)
BY DEF With, Moved, Acquirer

\* Such an acquisition is what it should be if its unit and its store are.
LEMMA MovedOK ==
    ASSUME WorldOK, NEW STATE q, AcquirerOK(q), NEW i \in Inputs, NEW STATE u, u \in Unit,
           NEW STATE store, StoreLater(q.store, store, i), StoreOK(u, store, i),
           NEW STATE diagnosed, diagnosed \in SUBSET Inputs,
           UnitOK(u, q.inventory[i], version[i], present[i], q.cancelled),
           NEW n \in GroupUnits(q), InputAt(q, n) = i, q.step \in {"plan", "parse", "fold"},
           q.unit[i].stage # "folded", q.step \in {"parse", "fold"} => n \in q.batch,
           q.step = "plan" => u.stage \in {"hit", "miss"},
           q.step = "parse" => (q.unit[i].stage = "hit" <=> u.stage = "hit")
    PROVE  AcquirerOK(Moved(q, i, u, store, diagnosed))
<1> DEFINE r == Moved(q, i, u, store, diagnosed)
<1>1. q \in Acquirer /\ store \in Store
  BY DEF AcquirerOK, StoreLater
<1>2. r \in Acquirer
  BY <1>1 DEF Moved, Acquirer
<1>3. /\ r.step = q.step /\ r.cancelled = q.cancelled /\ r.inventory = q.inventory
      /\ r.group = q.group /\ r.planned = q.planned /\ r.batch = q.batch
      /\ r.store = store /\ r.unit[i] = u
      /\ \A j \in Inputs \ {i} : r.unit[j] = q.unit[j]
  BY <1>1 DEF Moved, Acquirer
<1>4. ASSUME NEW j \in Inputs PROVE StoreOK(r.unit[j], r.store, j)
  <2>1. CASE j = i
    BY <1>3, <2>1
  <2>2. CASE j # i
    BY <1>3, <2>2 DEF AcquirerOK, StoreOK, StoreLater
  <2> QED
    BY <2>1, <2>2
<1> HIDE DEF r
<1>5. UnitOK(r.unit[i], q.inventory[i], version[i], present[i], q.cancelled)
  BY <1>3
<1>6. AcquirerOK(r)
  BY <1>2, <1>3, <1>4, <1>5, UnitStep
<1> QED
  BY <1>6 DEF r

-----------------------------------------------------------------------------
(* Every step keeps the invariant.                                         *)

\* plan_cache_hit reads a header: a hit has the snapshot of the unit.
LEMMA PlanUnitKeeps == ASSUME Inv, NEW a \in Acquirers, PlanUnit(a) PROVE Inv'
<1> DEFINE q == acquirer[a]
<1>1. WorldOK /\ AcquirerOK(q) /\ q \in Acquirer /\ q.step = "plan"
  BY DEF Inv, AcquirerOK, PlanUnit
<1>2. PICK n \in GroupUnits(q) :
          LET i == InputAt(q, n)
          IN  /\ q.unit[i].stage = "prepared"
              /\ \/ Set(a, With(q, i, Plan(q, i))) /\ NoFault
                 \/ LET off == [q EXCEPT !.store = Disabled(@)]
                    IN  Fault /\ Set(a, With(off, i, Plan(off, i)))
  BY DEF PlanUnit
<1> DEFINE i == InputAt(q, n)
           off == [q EXCEPT !.store = Disabled(q.store)]
<1>3. i \in Inputs /\ q.inventory[i] # None
  BY <1>1, GroupType DEF AcquirerOK, CourseOK, Acquires, GroupUnits
<1>4. /\ q.unit[i] \in Unit /\ q.store \in Store /\ q.diagnosed \in SUBSET Inputs
      /\ UnitOK(q.unit[i], q.inventory[i], version[i], present[i], q.cancelled)
      /\ StoreOK(q.unit[i], q.store, i)
  BY <1>1, <1>3 DEF Acquirer, AcquirerOK
<1>5. ASSUME NEW u, u \in {[q.unit[i] EXCEPT !.stage = "miss", !.origin = "bypass"],
                           [q.unit[i] EXCEPT !.stage = "hit", !.origin = "shard"],
                           [q.unit[i] EXCEPT !.stage = "miss"]},
             NEW store, store \in {q.store, Disabled(q.store)}
      PROVE  /\ u \in Unit /\ StoreLater(q.store, store, i) /\ StoreOK(u, store, i)
             /\ u.stage \in {"hit", "miss"}
             /\ UnitOK(u, q.inventory[i], version[i], present[i], q.cancelled)
  <2>1. u \in Unit /\ u.stage \in {"hit", "miss"}
    BY <1>4, <1>5 DEF Unit
  <2>2. StoreLater(q.store, store, i)
    BY <1>3, <1>4, <1>5, StoreCalls
  <2>3. StoreOK(u, store, i)
    BY <1>2, <1>4, <1>5 DEF StoreOK, Disabled, Unit, Store
  <2>4. UnitOK(u, q.inventory[i], version[i], present[i], q.cancelled)
    BY <1>2, <1>3, <1>4, <1>5 DEF UnitOK, Unit
  <2> QED
    BY <2>1, <2>2, <2>3, <2>4
<1>6. \A v \in {q, off} :
          Plan(v, i) \in {[q.unit[i] EXCEPT !.stage = "miss", !.origin = "bypass"],
                         [q.unit[i] EXCEPT !.stage = "hit", !.origin = "shard"],
                         [q.unit[i] EXCEPT !.stage = "miss"]}
  <2>1. q.unit = off.unit
    BY <1>1 DEF Acquirer
  <2> QED
    BY <2>1 DEF Plan
<1>7. \E store \in {q.store, Disabled(q.store)}, u \in {Plan(q, i), Plan(off, i)} :
          Set(a, Moved(q, i, u, store, q.diagnosed)) /\ (Fault \/ NoFault)
  BY <1>1, <1>2, <1>3, MovedIs
<1>8. \A u \in {Plan(q, i), Plan(off, i)}, store \in {q.store, Disabled(q.store)} :
          AcquirerOK(Moved(q, i, u, store, q.diagnosed))
  BY <1>1, <1>2, <1>3, <1>4, <1>5, <1>6, MovedOK
<1>9. UNCHANGED shard /\ UNCHANGED InputsAndPrune
  BY DEF PlanUnit
<1> QED
  BY <1>7, <1>8, <1>9, AcquirerMoves

\* prepare_inventory takes every snapshot anew, and nothing is yet read.
LEMMA BeginKeeps == ASSUME Inv, NEW a \in Acquirers, Begin(a) PROVE Inv'
<1>1. PICK unread \in SUBSET Inputs :
          LET found == {i \in Inputs : present[i]} \ unread
              snapshot(i) == IF i \in found THEN version[i] ELSE None
          IN  /\ Fault \/ NoFault
              /\ Set(a, [Resting EXCEPT
                     !.step = "open",
                     !.inventory = [i \in Inputs |-> snapshot(i)],
                     !.unit = [i \in Inputs |-> [NewUnit EXCEPT
                         !.snapshot = snapshot(i), !.failed = i \in unread]]])
  BY DEF Begin
<1> DEFINE snapshot(i) == IF i \in {j \in Inputs : present[j]} \ unread
                          THEN version[i] ELSE None
           listing == [i \in Inputs |-> snapshot(i)]
           unit == [i \in Inputs |-> [NewUnit EXCEPT !.snapshot = snapshot(i),
                                                     !.failed = i \in unread]]
           r == [Resting EXCEPT !.step = "open", !.inventory = listing, !.unit = unit]
<1>2. WorldOK /\ version \in [Inputs -> Versions] /\ None \notin Versions
  BY ShardAssumption DEF Inv, WorldOK
<1>3. listing \in [Inputs -> Versions \cup {None}] /\ unit \in [Inputs -> Unit]
  <2>1. listing \in [Inputs -> Versions \cup {None}]
    BY <1>2
  <2>2. \A i \in Inputs : (i \in unread) \in BOOLEAN /\ snapshot(i) \in Versions \cup {None}
    BY <1>2
  <2> HIDE DEF snapshot
  <2>3. unit \in [Inputs -> Unit]
    BY <2>2 DEF NewUnit, Unit, Statuses
  <2> QED
    BY <2>1, <2>3
<1>4. \A i \in Inputs :
          /\ unit[i].stage = "prepared" /\ unit[i].status = "complete" /\ ~unit[i].removal
          /\ unit[i].snapshot = listing[i]
          /\ listing[i] # None => present[i] /\ listing[i] = version[i]
  BY DEF NewUnit
<1>5. Resting \in Acquirer
  BY <1>2, RestingOK DEF AcquirerOK
<1> HIDE DEF listing, unit
<1>6. /\ r \in Acquirer /\ r.step = "open" /\ r.inventory = listing /\ r.unit = unit
      /\ r.group = 1 /\ r.batch = {} /\ r.store = OpenedStore(TRUE)
  BY <1>3, <1>5 DEF Acquirer, Resting
<1>7. ASSUME NEW i \in Inputs
      PROVE  /\ UnitOK(r.unit[i], r.inventory[i], version[i], present[i], r.cancelled)
             /\ StoreOK(r.unit[i], r.store, i)
             /\ r.inventory[i] # None => i \in Discovered
  <2>1. version[i] \in Nat /\ (listing[i] = version[i] => listing[i] <= version[i])
    BY <1>2, ShardAssumption DEF Versions
  <2>2. UnitOK(unit[i], listing[i], version[i], present[i], r.cancelled)
    BY <1>4, <2>1 DEF UnitOK
  <2>3. StoreOK(unit[i], OpenedStore(TRUE), i)
    BY <1>4 DEF StoreOK, OpenedStore
  <2>4. listing[i] # None => i \in Discovered
    BY <1>4 DEF Inv, WorldOK
  <2> QED
    BY <1>6, <2>2, <2>3, <2>4
<1> HIDE DEF r
<1>8. CourseOK(r)
  <2>1. setting.groups # <<>> /\ setting.groups \in Seq(Seq(Inputs))
    BY <1>2, ShardAssumption DEF WorldOK
  <2>2. r.group \in DOMAIN setting.groups
    BY <1>6, <2>1
  <2>3. FoldedBefore(r, setting.groups)
    BY <1>6 DEF FoldedBefore
  <2>4. \A i \in Inputs : r.unit[i].stage = "prepared"
    BY <1>4, <1>6
  <2>5. PreparedAfter(r, setting.groups)
    BY <1>2, <2>2, <2>4, GroupType DEF PreparedAfter
  <2> QED
    BY <1>6, <2>2, <2>3, <2>4, <2>5 DEF CourseOK, Acquires, Batches
<1>9. AcquirerOK(r)
  BY <1>6, <1>7, <1>8 DEF AcquirerOK
<1>10. Set(a, r) /\ (Fault \/ NoFault) /\ UNCHANGED shard /\ UNCHANGED InputsAndPrune
  BY <1>1 DEF Begin, r, listing, unit
<1> QED
  BY <1>9, <1>10, AcquirerMoves

\* What is known of the groups, when neither the group nor the units have changed.
LEMMA SameGroup ==
    ASSUME NEW STATE q, NEW STATE r, r.group = q.group, r.inventory = q.inventory,
           r.unit = q.unit
    PROVE  /\ \A k : InputAt(r, k) = InputAt(q, k)
           /\ GroupUnits(r) = GroupUnits(q)
           /\ FoldedBefore(q, setting.groups) => FoldedBefore(r, setting.groups)
           /\ PreparedAfter(q, setting.groups) => PreparedAfter(r, setting.groups)
BY DEF InputAt, GroupUnits, FoldedBefore, PreparedAfter

\* An acquisition that only goes on to its next step, or to its next group or batch.
LEMMA CourseStep ==
    ASSUME WorldOK, NEW STATE q, AcquirerOK(q), NEW STATE r, r \in Acquirer,
           r.cancelled = q.cancelled, r.inventory = q.inventory, r.unit = q.unit,
           \A i \in Inputs : StoreOK(r.unit[i], r.store, i), CourseOK(r)
    PROVE  AcquirerOK(r)
BY DEF AcquirerOK

\* A store that opens, or fails to, has forgotten all inputs.
LEMMA OpenStoreKeeps == ASSUME Inv, NEW a \in Acquirers, OpenStore(a) PROVE Inv'
<1> DEFINE q == acquirer[a]
           r(store) == [q EXCEPT !.step = "plan", !.store = store]
<1>1. WorldOK /\ AcquirerOK(q) /\ q \in Acquirer /\ q.step = "open"
  BY DEF Inv, AcquirerOK, OpenStore
<1>2. OpenedStore(FALSE) \in Store /\ q.store \in Store
  BY <1>1 DEF OpenedStore, Store, Acquirer
<1>3. ASSUME NEW store, store \in {q.store, OpenedStore(FALSE)} PROVE AcquirerOK(r(store))
  <2>1. /\ r(store) \in Acquirer /\ r(store).step = "plan" /\ r(store).store = store
        /\ r(store).cancelled = q.cancelled /\ r(store).inventory = q.inventory
        /\ r(store).unit = q.unit /\ r(store).group = q.group /\ r(store).batch = q.batch
    BY <1>1, <1>2, <1>3 DEF Acquirer
  <2>2. \A i \in Inputs : StoreOK(q.unit[i], store, i)
    <3>1. \A i \in Inputs : StoreOK(q.unit[i], q.store, i)
      BY <1>1 DEF AcquirerOK
    <3>2. \A i \in Inputs : q.unit[i].stage = "prepared" /\ ~q.unit[i].removal
      BY <1>1 DEF AcquirerOK, CourseOK, UnitOK
    <3> QED
      BY <1>3, <3>1, <3>2 DEF StoreOK, OpenedStore
  <2> HIDE DEF r
  <2>3. CourseOK(r(store))
    <3>1. /\ q.group \in DOMAIN setting.groups /\ \A i \in Inputs : q.unit[i].stage = "prepared"
          /\ FoldedBefore(q, setting.groups) /\ PreparedAfter(q, setting.groups)
          /\ q.batch = {}
      BY <1>1 DEF AcquirerOK, CourseOK, Acquires
    <3>2. FoldedBefore(r(store), setting.groups) /\ PreparedAfter(r(store), setting.groups)
      BY <2>1, <3>1, SameGroup
    <3>3. r(store).group \in DOMAIN setting.groups
      BY <2>1, <3>1
    <3>4. \A k \in GroupUnits(r(store)) : r(store).unit[InputAt(r(store), k)].stage = "prepared"
      BY <1>1, <2>1, <3>1, <3>3, GroupType
    <3> QED
      BY <2>1, <3>1, <3>2, <3>3, <3>4 DEF CourseOK, Acquires, Batches
  <2> QED
    BY <1>1, <2>1, <2>2, <2>3, CourseStep
<1>4. \/ Set(a, r(q.store))
      \/ Set(a, r(OpenedStore(FALSE)))
  BY <1>1 DEF OpenStore, Acquirer
<1>5. (Fault \/ NoFault) /\ UNCHANGED shard /\ UNCHANGED InputsAndPrune
  BY DEF OpenStore
<1> HIDE DEF r
<1> QED
  BY <1>3, <1>4, <1>5, AcquirerMoves

\* Once every unit is a hit or a miss, all of them wait for a batch.
LEMMA EndPlanningKeeps == ASSUME Inv, NEW a \in Acquirers, EndPlanning(a) PROVE Inv'
<1> DEFINE q == acquirer[a]
           r == [q EXCEPT !.step = "batch", !.planned = GroupUnits(q)]
<1>1. WorldOK /\ AcquirerOK(q) /\ q \in Acquirer /\ CourseOK(q) /\ q.step = "plan"
  BY DEF Inv, AcquirerOK, EndPlanning
<1>2. q.group \in DOMAIN setting.groups /\ setting.groups \in Seq(Seq(Inputs))
  BY <1>1, ShardAssumption DEF CourseOK, Acquires, WorldOK
<1>3. GroupUnits(q) \subseteq Nat
  <2>1. setting.groups[q.group] \in Seq(Inputs)
    BY <1>2
  <2> QED
    BY <2>1 DEF GroupUnits
<1>4. /\ r \in Acquirer /\ r.step = "batch" /\ r.group = q.group /\ r.unit = q.unit
      /\ r.inventory = q.inventory /\ r.cancelled = q.cancelled /\ r.store = q.store
      /\ r.planned = GroupUnits(q) /\ r.batch = q.batch
  BY <1>1, <1>3 DEF Acquirer
<1>5. \A k \in GroupUnits(q) : q.unit[InputAt(q, k)].stage \in {"hit", "miss"}
  <2>1. \A k \in GroupUnits(q) : q.unit[InputAt(q, k)].stage \in {"prepared", "hit", "miss"}
    BY <1>1 DEF CourseOK
  <2> QED
    BY <2>1 DEF EndPlanning
<1>6. Set(a, r) /\ NoFault /\ UNCHANGED shard /\ UNCHANGED InputsAndPrune
  BY DEF EndPlanning, NoFault
<1> HIDE DEF r
<1>7. q.batch = {}
  BY <1>1 DEF CourseOK
<1>8. CourseOK(r)
  <2>1. FoldedBefore(r, setting.groups) /\ PreparedAfter(r, setting.groups)
    BY <1>1, <1>4, SameGroup DEF CourseOK, Acquires
  <2>2. GroupUnits(r) = GroupUnits(q) /\ \A k : InputAt(r, k) = InputAt(q, k)
    BY <1>4, SameGroup
  <2> QED
    BY <1>2, <1>4, <1>5, <1>7, <2>1, <2>2 DEF CourseOK, Acquires, Batches
<1>9. AcquirerOK(r)
  BY <1>1, <1>4, <1>8, CourseStep DEF AcquirerOK
<1> QED
  BY <1>6, <1>9, AcquirerMoves

\* A batch takes the first waiting units, and no more misses than the width.
LEMMA NextBatchKeeps == ASSUME Inv, NEW a \in Acquirers, NextBatch(a) PROVE Inv'
<1> DEFINE q == acquirer[a]
<1>1. WorldOK /\ AcquirerOK(q) /\ q \in Acquirer /\ CourseOK(q) /\ q.step = "batch"
  BY DEF Inv, AcquirerOK, NextBatch
<1>2. PICK n \in q.planned :
          /\ Fits(q, n)
          /\ Set(a, [q EXCEPT !.step = "parse", !.batch = UpTo(q, n),
                              !.planned = q.planned \ UpTo(q, n)])
  BY DEF NextBatch
<1> DEFINE r == [q EXCEPT !.step = "parse", !.batch = UpTo(q, n),
                          !.planned = q.planned \ UpTo(q, n)]
<1>3. UpTo(q, n) \subseteq q.planned /\ q.planned \subseteq Nat
  BY <1>1 DEF UpTo, Acquirer
<1>4. /\ r \in Acquirer /\ r.step = "parse" /\ r.group = q.group /\ r.unit = q.unit
      /\ r.inventory = q.inventory /\ r.cancelled = q.cancelled /\ r.store = q.store
      /\ r.planned = q.planned \ UpTo(q, n) /\ r.batch = UpTo(q, n)
  BY <1>1, <1>3 DEF Acquirer
<1>5. Set(a, r) /\ NoFault /\ UNCHANGED shard /\ UNCHANGED InputsAndPrune
  BY <1>2 DEF NextBatch, NoFault
<1> HIDE DEF r
<1>6. /\ q.batch = {} /\ q.planned \subseteq GroupUnits(q) /\ q.group \in DOMAIN setting.groups
      /\ \A k \in GroupUnits(q) \ q.planned : q.unit[InputAt(q, k)].stage = "folded"
      /\ \A k \in q.planned : q.unit[InputAt(q, k)].stage \in {"hit", "miss"}
      /\ FoldedBefore(q, setting.groups) /\ PreparedAfter(q, setting.groups)
  BY <1>1 DEF CourseOK, Acquires, Batches
<1>7. GroupUnits(r) = GroupUnits(q) /\ \A k : InputAt(r, k) = InputAt(q, k)
  BY <1>4, SameGroup
<1>8. Cardinality(Unread(r)) <= BatchWidth
  <2>1. Unread(r) = Misses(q, UpTo(q, n))
    BY <1>3, <1>4, <1>6, <1>7 DEF Unread, Misses
  <2> QED
    BY <1>2, <2>1 DEF Fits
<1>9. FoldedBefore(r, setting.groups) /\ PreparedAfter(r, setting.groups)
  BY <1>4, <1>6, SameGroup
<1>10. /\ r.planned \cup r.batch = q.planned /\ r.planned \cap r.batch = {}
       /\ r.planned \subseteq q.planned
  BY <1>3, <1>4
<1>11. CourseOK(r)
  BY <1>4, <1>6, <1>7, <1>8, <1>9, <1>10 DEF CourseOK, Acquires, Batches
<1>12. AcquirerOK(r)
  BY <1>1, <1>4, <1>11, CourseStep DEF AcquirerOK
<1> QED
  BY <1>5, <1>12, AcquirerMoves

\* The next integration starts when nothing waits and nothing is in a batch.
LEMMA NextGroupKeeps == ASSUME Inv, NEW a \in Acquirers, NextGroup(a) PROVE Inv'
<1> DEFINE q == acquirer[a]
           r(step) == [q EXCEPT !.step = step, !.group = q.group + 1]
<1>1. /\ WorldOK /\ AcquirerOK(q) /\ q \in Acquirer /\ CourseOK(q)
      /\ q.step = "batch" /\ ~q.cancelled /\ q.planned = {}
  BY DEF Inv, AcquirerOK, NextGroup
<1>2. /\ q.batch = {} /\ q.group \in DOMAIN setting.groups
      /\ \A k \in GroupUnits(q) : q.unit[InputAt(q, k)].stage = "folded"
      /\ FoldedBefore(q, setting.groups) /\ PreparedAfter(q, setting.groups)
  BY <1>1 DEF CourseOK, Acquires, Batches
<1>3. q.group \in Nat \ {0} /\ q.group + 1 \in Nat \ {0}
  <2>1. q.group \in Nat \ {0}
    BY <1>1 DEF Acquirer
  <2> QED
    BY <2>1
<1>4. ASSUME NEW step, step \in {"plan", "save"}
      PROVE  /\ r(step) \in Acquirer /\ r(step).step = step /\ r(step).group = q.group + 1
             /\ r(step).unit = q.unit /\ r(step).inventory = q.inventory
             /\ r(step).cancelled = q.cancelled /\ r(step).store = q.store
             /\ r(step).batch = q.batch
  BY <1>1, <1>3, <1>4 DEF Acquirer
<1>5. ASSUME NEW step, step \in {"plan", "save"}
      PROVE  FoldedBefore(r(step), setting.groups)
  <2>0. r(step).group - 1 = q.group
    <3>1. r(step).group = q.group + 1
      BY <1>4, <1>5
    <3>2. \A x \in Nat : x + 1 - 1 = x
      OBVIOUS
    <3> HIDE DEF r
    <3> QED
      BY <1>3, <3>1, <3>2
  <2> SUFFICES ASSUME NEW g \in 1 .. q.group, NEW k \in DOMAIN setting.groups[g],
                      q.inventory[setting.groups[g][k]] # None
               PROVE  q.unit[setting.groups[g][k]].stage = "folded"
    <3> HIDE DEF r
    <3> QED
      BY <1>4, <1>5, <2>0 DEF FoldedBefore
  <2>1. CASE g = q.group
    <3>1. k \in GroupUnits(q) /\ InputAt(q, k) = setting.groups[g][k]
      BY <2>1 DEF GroupUnits, InputAt
    <3> QED
      BY <1>2, <3>1
  <2>2. CASE g # q.group
    <3>1. g \in 1 .. q.group - 1
      BY <1>3, <2>2
    <3> QED
      BY <1>2, <3>1 DEF FoldedBefore
  <2> QED
    BY <2>1, <2>2
<1>6. setting.groups \in Seq(Seq(Inputs)) /\ DOMAIN setting.groups = 1 .. Len(setting.groups)
      /\ Len(setting.groups) \in Nat
  BY <1>1, ShardAssumption DEF WorldOK
<1> DEFINE groups == setting.groups
<1>7. ASSUME q.group < Len(setting.groups)
      PROVE  AcquirerOK(r("plan"))
  <2> DEFINE s == r("plan")
  <2>1. /\ s \in Acquirer /\ s.step = "plan" /\ s.group = q.group + 1 /\ s.unit = q.unit
        /\ s.inventory = q.inventory /\ s.cancelled = q.cancelled /\ s.store = q.store
        /\ s.batch = q.batch
    BY <1>4
  <2>2. FoldedBefore(s, setting.groups)
    BY <1>5
  <2> HIDE DEF s
  <2>3. s.group \in DOMAIN setting.groups /\ s.group > q.group
    BY <1>3, <1>6, <1>7, <2>1
  <2>4. PreparedAfter(s, setting.groups)
    BY <1>2, <1>3, <1>6, <2>1 DEF PreparedAfter
  <2>5. \A k \in GroupUnits(s) : s.unit[InputAt(s, k)].stage = "prepared"
    BY <1>2, <2>1, <2>3 DEF PreparedAfter, GroupUnits, InputAt
  <2>6. CourseOK(s)
    BY <1>2, <2>1, <2>2, <2>3, <2>4, <2>5 DEF CourseOK, Acquires, Batches
  <2>7. AcquirerOK(s)
    BY <1>1, <2>1, <2>6, CourseStep DEF AcquirerOK
  <2> QED
    BY <2>7 DEF s
<1>8. ASSUME ~(q.group < Len(setting.groups))
      PROVE  AcquirerOK(r("save"))
  <2> DEFINE s == r("save")
  <2>1. /\ s \in Acquirer /\ s.step = "save" /\ s.group = q.group + 1 /\ s.unit = q.unit
        /\ s.inventory = q.inventory /\ s.cancelled = q.cancelled /\ s.store = q.store
    BY <1>4
  <2>2. FoldedBefore(s, setting.groups)
    BY <1>5
  <2> HIDE DEF s
  <2>3. s.group - 1 = Len(setting.groups)
    BY <1>2, <1>3, <1>6, <1>8, <2>1
  <2>4. ASSUME NEW i \in Inputs, s.inventory[i] # None PROVE s.unit[i].stage = "folded"
    <3>1. PICK g \in DOMAIN setting.groups : \E k \in DOMAIN setting.groups[g] :
              setting.groups[g][k] = i
      BY <1>1, <2>1, <2>4 DEF AcquirerOK, Discovered
    <3> QED
      BY <1>6, <2>2, <2>3, <2>4, <3>1 DEF FoldedBefore
  <2>5. CourseOK(s)
    BY <1>1, <2>1, <2>4 DEF CourseOK, Acquires, Batches
  <2>6. AcquirerOK(s)
    BY <1>1, <2>1, <2>5, CourseStep DEF AcquirerOK
  <2> QED
    BY <2>6 DEF s
<1>9. IF q.group < Len(setting.groups) THEN Set(a, r("plan")) ELSE Set(a, r("save"))
  BY DEF NextGroup
<1>10. NoFault /\ UNCHANGED shard /\ UNCHANGED InputsAndPrune
  BY DEF NextGroup, NoFault
<1> HIDE DEF r
<1> QED
  BY <1>7, <1>8, <1>9, <1>10, AcquirerMoves

\* Folding starts when every unit of the batch is a hit or has been read.
LEMMA StartFoldKeeps == ASSUME Inv, NEW a \in Acquirers, StartFold(a) PROVE Inv'
<1> DEFINE q == acquirer[a]
           r == [q EXCEPT !.step = "fold"]
<1>1. WorldOK /\ AcquirerOK(q) /\ q \in Acquirer /\ CourseOK(q) /\ q.step = "parse"
  BY DEF Inv, AcquirerOK, StartFold
<1>2. /\ r \in Acquirer /\ r.step = "fold" /\ r.group = q.group /\ r.unit = q.unit
      /\ r.inventory = q.inventory /\ r.cancelled = q.cancelled /\ r.store = q.store
      /\ r.planned = q.planned /\ r.batch = q.batch
  BY <1>1 DEF Acquirer
<1>3. Set(a, r) /\ NoFault /\ UNCHANGED shard /\ UNCHANGED InputsAndPrune
  BY DEF StartFold, NoFault
<1> HIDE DEF r
<1>4. CourseOK(r)
  BY <1>1, <1>2, SameGroup DEF CourseOK, Acquires, Batches
<1>5. AcquirerOK(r)
  BY <1>1, <1>2, <1>4, CourseStep DEF AcquirerOK
<1> QED
  BY <1>3, <1>5, AcquirerMoves

\* A batch ends when its last unit is folded.
LEMMA EndBatchKeeps == ASSUME Inv, NEW a \in Acquirers, EndBatch(a) PROVE Inv'
<1> DEFINE q == acquirer[a]
           r == [q EXCEPT !.step = "batch"]
<1>1. /\ WorldOK /\ AcquirerOK(q) /\ q \in Acquirer /\ CourseOK(q) /\ q.step = "fold"
      /\ q.batch = {}
  BY DEF Inv, AcquirerOK, EndBatch
<1>2. /\ r \in Acquirer /\ r.step = "batch" /\ r.group = q.group /\ r.unit = q.unit
      /\ r.inventory = q.inventory /\ r.cancelled = q.cancelled /\ r.store = q.store
      /\ r.planned = q.planned /\ r.batch = q.batch
  BY <1>1 DEF Acquirer
<1>3. Set(a, r) /\ NoFault /\ UNCHANGED shard /\ UNCHANGED InputsAndPrune
  BY DEF EndBatch, NoFault
<1> HIDE DEF r
<1>4. CourseOK(r)
  BY <1>1, <1>2, SameGroup DEF CourseOK, Acquires, Batches
<1>5. AcquirerOK(r)
  BY <1>1, <1>2, <1>4, CourseStep DEF AcquirerOK
<1> QED
  BY <1>3, <1>5, AcquirerMoves

\* An acquisition ends when the last condemned shard is gone.
LEMMA FinishAcquisitionKeeps ==
    ASSUME Inv, NEW a \in Acquirers, FinishAcquisition(a) PROVE Inv'
<1> DEFINE q == acquirer[a]
           r == [q EXCEPT !.step = "done"]
<1>1. WorldOK /\ AcquirerOK(q) /\ q \in Acquirer /\ CourseOK(q) /\ q.step = "save"
  BY DEF Inv, AcquirerOK, FinishAcquisition
<1>2. /\ r \in Acquirer /\ r.step = "done" /\ r.unit = q.unit
      /\ r.inventory = q.inventory /\ r.cancelled = q.cancelled /\ r.store = q.store
  BY <1>1 DEF Acquirer
<1>3. Set(a, r) /\ NoFault /\ UNCHANGED shard /\ UNCHANGED InputsAndPrune
  BY DEF FinishAcquisition, NoFault
<1> HIDE DEF r
<1>4. CourseOK(r)
  BY <1>1, <1>2 DEF CourseOK, Acquires, Batches
<1>5. AcquirerOK(r)
  BY <1>1, <1>2, <1>4, CourseStep DEF AcquirerOK
<1> QED
  BY <1>3, <1>5, AcquirerMoves

\* save_if_dirty unlinks a condemned shard, or disables the store.
LEMMA UnlinkKeeps == ASSUME Inv, NEW a \in Acquirers, Unlink(a) PROVE Inv'
<1> DEFINE q == acquirer[a]
           r(store) == [q EXCEPT !.store = store]
<1>1. WorldOK /\ AcquirerOK(q) /\ q \in Acquirer /\ CourseOK(q) /\ q.step = "save"
  BY DEF Inv, AcquirerOK, Unlink
<1>2. PICK i \in Inputs :
          \/ /\ shard' = [shard EXCEPT ![i] = None] /\ NoFault
             /\ Set(a, r([q.store EXCEPT !.deleted = @ \ {i}]))
          \/ /\ Set(a, r(Disabled(q.store))) /\ Fault
             /\ UNCHANGED shard
  <2>1. Condemned(q.store) \subseteq Inputs
    BY <1>1 DEF Condemned, Acquirer, Store
  <2> QED
    BY <2>1 DEF Unlink
<1>3. ASSUME NEW store,
             store \in {[q.store EXCEPT !.deleted = @ \ {i}], Disabled(q.store)}
      PROVE  AcquirerOK(r(store))
  <2>1. /\ q.store \in Store /\ store \in Store /\ store.deleted \subseteq q.store.deleted
        /\ store.taken = q.store.taken
    <3>1. q.store \in Store /\ q.store.deleted \ {i} \in SUBSET Inputs
      BY <1>1 DEF Acquirer, Store
    <3>2. CASE store = [q.store EXCEPT !.deleted = @ \ {i}]
      BY <3>1, <3>2 DEF Store
    <3>3. CASE store = Disabled(q.store)
      BY <3>1, <3>3 DEF Store, Disabled
    <3> QED
      BY <1>3, <3>2, <3>3
  <2>2. /\ r(store) \in Acquirer /\ r(store).step = "save" /\ r(store).unit = q.unit
        /\ r(store).inventory = q.inventory /\ r(store).cancelled = q.cancelled
        /\ r(store).store = store
    BY <1>1, <2>1 DEF Acquirer
  <2> HIDE DEF r
  <2>3. CourseOK(r(store))
    BY <1>1, <2>2 DEF CourseOK, Acquires, Batches
  <2>4. ASSUME NEW j \in Inputs PROVE StoreOK(q.unit[j], store, j)
    <3>1. /\ StoreOK(q.unit[j], q.store, j)
          /\ UnitOK(q.unit[j], q.inventory[j], version[j], present[j], q.cancelled)
          /\ q.inventory[j] # None => q.unit[j].stage = "folded"
      BY <1>1 DEF AcquirerOK, CourseOK
    <3>2. q.unit[j].stage \in {"prepared", "folded"}
      BY <3>1 DEF UnitOK
    <3>3. q.unit[j].removal => q.unit[j].stage = "folded"
      BY <3>1, <3>2 DEF UnitOK
    <3> QED
      BY <2>1, <3>1, <3>3 DEF StoreOK
  <2> QED
    BY <1>1, <2>2, <2>3, <2>4, CourseStep
<1>4. ASSUME shard' = [shard EXCEPT ![i] = None] PROVE ShardsOK'
  BY <1>4 DEF Inv, ShardsOK, SealedShards
<1>5. UNCHANGED InputsAndPrune
  BY DEF Unlink
<1> HIDE DEF r
<1> QED
  BY <1>2, <1>3, <1>4, <1>5, AcquirerMoves

\* Cancellations and deaths leave all but the acquisition alone.
LEMMA AcquirerStops ==
    ASSUME Inv, NEW a \in Acquirers, NEW STATE r, Set(a, r), AcquirerOK(r),
           cancels < setting.cancels, cancels' = cancels + 1,
           UNCHANGED <<setting, version, present, shard, prune, faults, damage>>
    PROVE  Inv'
<1>1. cancels' \in 0 .. setting.cancels
  <2>1. setting.cancels \in Nat /\ cancels \in 0 .. setting.cancels
    BY ShardAssumption DEF Inv, WorldOK, RestOK
  <2> QED
    BY <2>1
<1>2. RestOK'
  BY <1>1 DEF Inv, RestOK
<1>3. Discovered' = Discovered
  BY DEF Discovered
<1>4. WorldOK'
  BY <1>3 DEF Inv, WorldOK
<1>5. ShardsOK'
  BY DEF Inv, ShardsOK, SealedShards
<1> QED
  BY <1>2, <1>4, <1>5, SetOK DEF Inv

\* A cancelled acquisition may report less of its inputs from then on.
LEMMA CancelKeeps == ASSUME Inv, NEW a \in Acquirers, Cancel(a) PROVE Inv'
<1> DEFINE q == acquirer[a]
           r == [q EXCEPT !.cancelled = TRUE]
<1>1. WorldOK /\ AcquirerOK(q) /\ q \in Acquirer /\ CourseOK(q)
  BY DEF Inv, AcquirerOK
<1>2. /\ r \in Acquirer /\ r.step = q.step /\ r.group = q.group /\ r.unit = q.unit
      /\ r.inventory = q.inventory /\ r.cancelled = TRUE /\ r.store = q.store
      /\ r.planned = q.planned /\ r.batch = q.batch
  BY <1>1 DEF Acquirer
<1>3. Set(a, r) /\ q.step \notin {"save", "done"}
  BY DEF Cancel, Set
<1> HIDE DEF r
<1>4. CourseOK(r)
  <2>1. Unread(r) = Unread(q)
    BY <1>2, SameGroup DEF Unread
  <2> QED
    BY <1>1, <1>2, <1>3, <2>1, SameGroup DEF CourseOK
<1>5. ASSUME NEW i \in Inputs
      PROVE  UnitOK(r.unit[i], r.inventory[i], version[i], present[i], r.cancelled)
  BY <1>1, <1>2 DEF AcquirerOK, UnitOK
<1>6. AcquirerOK(r)
  BY <1>1, <1>2, <1>4, <1>5 DEF AcquirerOK
<1> QED
  BY <1>3, <1>6, AcquirerStops DEF Cancel

\* An abandoned acquisition leaves nothing behind.
LEMMA AbandonKeeps == ASSUME Inv, NEW a \in Acquirers, Abandon(a) PROVE Inv'
<1>1. AcquirerOK(Resting) /\ Set(a, Resting) /\ NoFault
  BY RestingOK DEF Inv, Abandon, NoFault
<1> QED
  BY <1>1, AcquirerMoves DEF Abandon

\* Neither does one whose process dies.
LEMMA KillKeeps == ASSUME Inv, NEW a \in Acquirers, Kill(a) PROVE Inv'
<1>1. AcquirerOK(Resting) /\ Set(a, Resting)
  BY RestingOK DEF Inv, Kill
<1> QED
  BY <1>1, AcquirerStops DEF Kill

\* The unit of a batch that is being read or folded.
LEMMA BatchPlace ==
    ASSUME WorldOK, NEW STATE q, AcquirerOK(q), q.step \in {"parse", "fold"},
           NEW k \in q.batch
    PROVE  k \in GroupUnits(q) /\ q.inventory[InputAt(q, k)] # None
<1>1. q.batch \subseteq GroupUnits(q)
  BY DEF AcquirerOK, CourseOK, Batches
<1> QED
  BY <1>1 DEF GroupUnits

\* The unit of a batch goes on by itself.
LEMMA ReadKeeps ==
    ASSUME Inv, NEW a \in Acquirers, NEW i \in Inputs, NEW k \in acquirer[a].batch,
           InputAt(acquirer[a], k) = i, acquirer[a].step \in {"parse", "fold"},
           NEW STATE u, u \in Unit, u.removal = acquirer[a].unit[i].removal,
           u.stage \notin {"prepared", "hit", "folded"},
           acquirer[a].unit[i].stage \notin {"hit", "folded"},
           UnitOK(u, acquirer[a].inventory[i], version[i], present[i], acquirer[a].cancelled),
           Set(a, With(acquirer[a], i, u)), Fault \/ NoFault, UNCHANGED shard,
           UNCHANGED InputsAndPrune
    PROVE  Inv'
<1> DEFINE q == acquirer[a]
<1>1. WorldOK /\ AcquirerOK(q) /\ q \in Acquirer
  BY DEF Inv, AcquirerOK
<1>2. k \in GroupUnits(q)
  BY <1>1, BatchPlace
<1>3. q.store \in Store /\ q.diagnosed \in SUBSET Inputs
  BY <1>1 DEF Acquirer
<1>4. StoreLater(q.store, q.store, i)
  BY <1>3, StoreCalls
<1>5. StoreOK(u, q.store, i)
  BY <1>1 DEF AcquirerOK, StoreOK
<1>6. With(q, i, u) = Moved(q, i, u, q.store, q.diagnosed)
  BY <1>1, MovedIs
<1> HIDE DEF q
<1>7. AcquirerOK(Moved(q, i, u, q.store, q.diagnosed))
  BY <1>1, <1>2, <1>3, <1>4, <1>5, MovedOK DEF q
<1>8. AcquirerOK(With(q, i, u))
  BY <1>6, <1>7
<1> QED
  BY <1>8, AcquirerMoves DEF q

\* A unit that cannot be read is unavailable for a reason.
LEMMA Unavailable ==
    ASSUME WorldOK, NEW STATE q, AcquirerOK(q), NEW i \in Inputs, q.inventory[i] # None,
           NEW failed \in BOOLEAN, q.cancelled \/ ~present[i] \/ failed,
           NEW STATE u, u = [q.unit[i] EXCEPT !.stage = "ready", !.status = "unavailable",
                                              !.failed = @ \/ failed]
    PROVE  /\ u \in Unit
           /\ UnitOK(u, q.inventory[i], version[i], present[i], q.cancelled)
<1>1. /\ q.unit[i] \in Unit
      /\ UnitOK(q.unit[i], q.inventory[i], version[i], present[i], q.cancelled)
  BY DEF AcquirerOK, Acquirer
<1>2. q.unit[i].failed \in BOOLEAN
  BY <1>1, UnitType
<1>3. u \in Unit
  BY <1>1, <1>2 DEF Unit, Statuses
<1>4. /\ u.stage = "ready" /\ u.status = "unavailable" /\ u.snapshot = q.unit[i].snapshot
      /\ u.failed = (q.unit[i].failed \/ failed)
  BY <1>1 DEF Unit
<1>5. u.failed \/ q.cancelled \/ version[i] # q.inventory[i]
  BY <1>1, <1>4 DEF UnitOK
<1> QED
  BY <1>1, <1>3, <1>4, <1>5 DEF UnitOK

\* What a scan reads lies between the snapshot and what the input is now.
LEMMA ScanUnitKeeps == ASSUME Inv, NEW a \in Acquirers, ScanUnit(a) PROVE Inv'
<1> DEFINE q == acquirer[a]
<1>1. PICK i \in Inputs :
          LET u == q.unit[i]
              scanned == [u EXCEPT !.stage = "read", !.records = version[i]]
              unavailable == [u EXCEPT !.stage = "ready", !.status = "unavailable"]
          IN  /\ Scanning(q, i, "miss")
              /\ \/ /\ q.cancelled \/ ~present[i]
                    /\ Set(a, With(q, i, unavailable)) /\ NoFault
                 \/ /\ Set(a, With(q, i, scanned)) /\ NoFault
                 \/ /\ \/ Set(a, With(q, i, [unavailable EXCEPT !.failed = TRUE]))
                       \/ Set(a, With(q, i, [scanned EXCEPT !.status = "partial",
                                                            !.failed = TRUE]))
                    /\ Fault
  BY DEF ScanUnit
<1> DEFINE u == q.unit[i]
           scanned == [u EXCEPT !.stage = "read", !.records = version[i]]
           partly == [scanned EXCEPT !.status = "partial", !.failed = TRUE]
           unavailable == [u EXCEPT !.stage = "ready", !.status = "unavailable"]
           broken == [unavailable EXCEPT !.failed = TRUE]
<1>2. PICK k \in q.batch : InputAt(q, k) = i
  BY <1>1 DEF Scanning, Foremost
<1>3. WorldOK /\ AcquirerOK(q) /\ q \in Acquirer /\ q.step \in {"parse", "fold"}
  BY <1>1 DEF Inv, AcquirerOK, Scanning
<1>4. q.inventory[i] # None
  BY <1>2, <1>3, BatchPlace
<1>5. /\ u \in Unit /\ u.stage = "miss" /\ u.removal \in BOOLEAN /\ u.failed \in BOOLEAN
      /\ UnitOK(u, q.inventory[i], version[i], present[i], q.cancelled)
      /\ version[i] \in Versions
  BY <1>1, <1>3, UnitType DEF AcquirerOK, Acquirer, Scanning, WorldOK
<1>6. ASSUME q.cancelled \/ ~present[i]
      PROVE  /\ unavailable \in Unit
             /\ UnitOK(unavailable, q.inventory[i], version[i], present[i], q.cancelled)
  <2>1. unavailable = [u EXCEPT !.stage = "ready", !.status = "unavailable",
                                !.failed = @ \/ FALSE]
    BY <1>5 DEF Unit
  <2> QED
    BY <1>3, <1>4, <1>6, <2>1, Unavailable
<1>7. /\ broken \in Unit
      /\ UnitOK(broken, q.inventory[i], version[i], present[i], q.cancelled)
  <2>1. broken = [u EXCEPT !.stage = "ready", !.status = "unavailable", !.failed = @ \/ TRUE]
    BY <1>5 DEF Unit
  <2> QED
    BY <1>3, <1>4, <2>1, Unavailable
<1>8. ASSUME NEW v, v \in {scanned, partly}
      PROVE  /\ v \in Unit /\ v.stage = "read" /\ v.removal = u.removal
             /\ UnitOK(v, q.inventory[i], version[i], present[i], q.cancelled)
  <2>1. /\ v \in Unit /\ v.stage = "read" /\ v.records = version[i]
        /\ v.snapshot = u.snapshot /\ v.removal = u.removal
        /\ v.status # "complete" => v.failed
    <3>1. u.status = "complete"
      BY <1>5 DEF UnitOK
    <3> QED
      BY <1>5, <1>8, <3>1 DEF Unit, Statuses
  <2>2. version[i] # None /\ version[i] <= version[i]
    BY <1>5, ShardAssumption DEF Versions
  <2> QED
    BY <1>4, <1>5, <2>1, <2>2 DEF UnitOK
<1>9. \A v \in {unavailable, broken} : v.stage = "ready" /\ v.removal = u.removal
  BY <1>5 DEF Unit
<1>10. UNCHANGED shard /\ UNCHANGED InputsAndPrune
  BY DEF ScanUnit
<1>11. \/ (q.cancelled \/ ~present[i]) /\ Set(a, With(q, i, unavailable)) /\ NoFault
       \/ \E v \in {scanned, partly, broken} : Set(a, With(q, i, v)) /\ (Fault \/ NoFault)
  BY <1>1
<1> HIDE DEF scanned, partly, unavailable, broken
<1> QED
  BY <1>2, <1>3, <1>5, <1>6, <1>7, <1>8, <1>9, <1>10, <1>11, ReadKeeps

\* A scan is complete if the input still has the snapshot, so its records
\* are those of the snapshot.
LEMMA ValidateUnitKeeps == ASSUME Inv, NEW a \in Acquirers, ValidateUnit(a) PROVE Inv'
<1> DEFINE q == acquirer[a]
<1>1. PICK i \in Inputs :
          LET u == q.unit[i]
          IN  /\ Scanning(q, i, "read")
              /\ \/ Set(a, With(q, i, Validated(u, i))) /\ NoFault
                 \/ /\ Set(a, With(q, i, [Scanned(u, i) EXCEPT !.status = "partial",
                                                              !.failed = TRUE]))
                    /\ Fault
  BY DEF ValidateUnit
<1> DEFINE u == q.unit[i]
           broken == [Scanned(u, i) EXCEPT !.status = "partial", !.failed = TRUE]
<1>2. PICK k \in q.batch : InputAt(q, k) = i
  BY <1>1 DEF Scanning, Foremost
<1>3. WorldOK /\ AcquirerOK(q) /\ q \in Acquirer /\ q.step \in {"parse", "fold"}
  BY <1>1 DEF Inv, AcquirerOK, Scanning
<1>4. q.inventory[i] # None
  BY <1>2, <1>3, BatchPlace
<1>5. /\ u \in Unit /\ u.stage = "read"
      /\ UnitOK(u, q.inventory[i], version[i], present[i], q.cancelled)
      /\ version[i] \in Versions /\ q.inventory[i] \in Versions
  BY <1>1, <1>3, <1>4 DEF AcquirerOK, Acquirer, Scanning, WorldOK
<1>6. /\ u.snapshot \in Nat /\ version[i] \in Nat /\ q.inventory[i] \in Nat
      /\ u.records \in Nat /\ u.records # None
      /\ q.inventory[i] <= u.snapshot /\ u.snapshot <= u.records /\ u.records <= version[i]
  <2>1. /\ u.snapshot # None /\ u.records # None
        /\ q.inventory[i] <= u.snapshot /\ u.snapshot <= u.records /\ u.records <= version[i]
    BY <1>4, <1>5 DEF UnitOK
  <2> QED
    BY <1>5, <2>1, UnitType, ShardAssumption DEF Versions
<1>7. ASSUME NEW v, v \in {Validated(u, i), broken}
      PROVE  /\ v \in Unit /\ v.stage = "ready" /\ v.removal = u.removal
             /\ UnitOK(v, q.inventory[i], version[i], present[i], q.cancelled)
  <2>1. /\ Scanned(u, i) \in Unit /\ Scanned(u, i).stage = "ready"
        /\ Scanned(u, i).snapshot = u.snapshot /\ Scanned(u, i).status = u.status
        /\ Scanned(u, i).removal = u.removal /\ Scanned(u, i).failed = u.failed
        /\ version[i] = u.records => Scanned(u, i).records = u.records
    BY <1>5 DEF Scanned, Unit
  <2>2. v \in Unit /\ v.stage = "ready" /\ v.removal = u.removal /\ v.snapshot = u.snapshot
    BY <1>7, <2>1 DEF Validated, Unit, Statuses
  <2>3. ASSUME v.status = "complete"
        PROVE  /\ v.records = u.records /\ u.records = u.snapshot
               /\ q.inventory[i] <= u.records /\ u.records <= version[i]
    <3>1. v = Scanned(u, i) /\ Current(i, u.snapshot)
      <4>1. [Scanned(u, i) EXCEPT !.status = "partial"].status = "partial"
            /\ broken.status = "partial"
        BY <2>1 DEF Unit
      <4> QED
        BY <1>7, <2>3, <4>1 DEF Validated
    <3>2. version[i] = u.snapshot
      BY <3>1 DEF Current
    <3> QED
      BY <1>6, <2>1, <3>1, <3>2
  <2>4. ASSUME v.status # "complete"
        PROVE  v.failed \/ version[i] # q.inventory[i]
    <3>1. CASE v = broken
      BY <2>1, <3>1 DEF Unit
    <3>2. CASE v = Validated(u, i) /\ Current(i, u.snapshot)
      BY <1>5, <2>1, <2>4, <3>2 DEF Validated, UnitOK
    <3>3. CASE v = Validated(u, i) /\ ~Current(i, u.snapshot)
      <4>1. present[i] \/ version[i] # q.inventory[i]
        BY <1>4, <1>5 DEF UnitOK
      <4>2. version[i] # u.snapshot => version[i] # q.inventory[i]
        BY <1>6
      <4> QED
        BY <3>3, <4>1, <4>2 DEF Current
    <3> QED
      BY <1>7, <3>1, <3>2, <3>3
  <2>5. UnitOK(v, q.inventory[i], version[i], present[i], q.cancelled)
    BY <1>4, <1>5, <1>6, <2>2, <2>3, <2>4 DEF UnitOK
  <2> QED
    BY <2>2, <2>5
<1>8. \E v \in {Validated(u, i), broken} : Set(a, With(q, i, v)) /\ (Fault \/ NoFault)
  BY <1>1
<1>9. UNCHANGED shard /\ UNCHANGED InputsAndPrune
  BY DEF ValidateUnit
<1> HIDE DEF broken
<1> QED
  BY <1>2, <1>3, <1>5, <1>7, <1>8, <1>9, ReadKeeps

\* The input is snapshotted anew, which is no older than the inventory.
LEMMA RecoverUnitKeeps == ASSUME Inv, NEW a \in Acquirers, RecoverUnit(a) PROVE Inv'
<1> DEFINE q == acquirer[a]
<1>1. PICK i \in Inputs :
          LET u == q.unit[i]
              unavailable == [u EXCEPT !.stage = "ready", !.status = "unavailable"]
          IN  /\ Folding(q, i, "recover")
              /\ \/ /\ present[i] /\ NoFault
                    /\ Set(a, With(q, i, [u EXCEPT !.stage = "miss",
                                                  !.snapshot = version[i]]))
                 \/ /\ ~present[i] /\ NoFault
                    /\ Set(a, With(q, i, unavailable))
                 \/ Set(a, With(q, i, [unavailable EXCEPT !.failed = TRUE])) /\ Fault
  BY DEF RecoverUnit
<1> DEFINE u == q.unit[i]
           anew == [u EXCEPT !.stage = "miss", !.snapshot = version[i]]
           unavailable == [u EXCEPT !.stage = "ready", !.status = "unavailable"]
           broken == [unavailable EXCEPT !.failed = TRUE]
<1>2. PICK k \in q.batch : InputAt(q, k) = i
  BY <1>1 DEF Folding, Foremost
<1>3. WorldOK /\ AcquirerOK(q) /\ q \in Acquirer /\ q.step \in {"parse", "fold"}
  BY <1>1 DEF Inv, AcquirerOK, Folding
<1>4. q.inventory[i] # None
  BY <1>2, <1>3, BatchPlace
<1>5. /\ u \in Unit /\ u.stage = "recover" /\ u.removal \in BOOLEAN /\ u.failed \in BOOLEAN
      /\ UnitOK(u, q.inventory[i], version[i], present[i], q.cancelled)
      /\ version[i] \in Versions /\ q.inventory[i] \in Versions
  BY <1>1, <1>3, <1>4, UnitType DEF AcquirerOK, Acquirer, Folding, WorldOK
<1>6. ASSUME ~present[i]
      PROVE  /\ unavailable \in Unit
             /\ UnitOK(unavailable, q.inventory[i], version[i], present[i], q.cancelled)
  <2>1. unavailable = [u EXCEPT !.stage = "ready", !.status = "unavailable",
                                !.failed = @ \/ FALSE]
    BY <1>5 DEF Unit
  <2> QED
    BY <1>3, <1>4, <1>6, <2>1, Unavailable
<1>7. /\ broken \in Unit
      /\ UnitOK(broken, q.inventory[i], version[i], present[i], q.cancelled)
  <2>1. broken = [u EXCEPT !.stage = "ready", !.status = "unavailable", !.failed = @ \/ TRUE]
    BY <1>5 DEF Unit
  <2> QED
    BY <1>3, <1>4, <2>1, Unavailable
<1>8. /\ anew \in Unit /\ anew.stage = "miss" /\ anew.removal = u.removal
      /\ UnitOK(anew, q.inventory[i], version[i], present[i], q.cancelled)
  <2>1. /\ anew \in Unit /\ anew.stage = "miss" /\ anew.snapshot = version[i]
        /\ anew.removal = u.removal /\ anew.status = u.status
    BY <1>5 DEF Unit
  <2>2. /\ version[i] # None /\ q.inventory[i] <= version[i] /\ version[i] <= version[i]
    <3>1. u.snapshot # None /\ q.inventory[i] <= u.snapshot /\ u.snapshot <= version[i]
      BY <1>4, <1>5 DEF UnitOK
    <3>2. u.snapshot \in Nat /\ version[i] \in Nat /\ q.inventory[i] \in Nat
      BY <1>5, <3>1, UnitType, ShardAssumption DEF Versions
    <3> QED
      BY <1>5, <3>1, <3>2, ShardAssumption
  <2> QED
    BY <1>4, <1>5, <2>1, <2>2 DEF UnitOK
<1>9. \A v \in {unavailable, broken} : v.stage = "ready" /\ v.removal = u.removal
  BY <1>5 DEF Unit
<1>10. UNCHANGED shard /\ UNCHANGED InputsAndPrune
  BY DEF RecoverUnit
<1>11. \/ ~present[i] /\ Set(a, With(q, i, unavailable)) /\ NoFault
       \/ \E v \in {anew, broken} : Set(a, With(q, i, v)) /\ (Fault \/ NoFault)
  BY <1>1
<1> HIDE DEF anew, unavailable, broken
<1> QED
  BY <1>2, <1>3, <1>5, <1>6, <1>7, <1>8, <1>9, <1>10, <1>11, ReadKeeps

\* A shard that is intact and has the planned stamp has the records of the
\* snapshot; any other makes its unit recover, and only a corrupt one is condemned.
LEMMA TakeRecordsKeeps == ASSUME Inv, NEW a \in Acquirers, TakeRecords(a) PROVE Inv'
<1> DEFINE q == acquirer[a]
<1>1. PICK i \in Inputs :
          LET u == q.unit[i]
              reason == ReadFailure(i, u.snapshot)
              off == [q EXCEPT !.store = InvalidateRead(Protect(Disabled(@), i), i)]
          IN  /\ Folding(q, i, "hit")
              /\ \/ Set(a, With([q EXCEPT !.store = InvalidateRead(@, i)], i,
                                Recovering(u, "disabled"))) /\ NoFault
                 \/ i \in q.store.deleted \cup q.store.taken
                 \/ /\ reason = "none"
                    /\ Set(a, With([q EXCEPT !.store.taken = @ \cup {i}], i,
                                   [u EXCEPT !.stage = "ready",
                                             !.records = shard[i].records]))
                    /\ NoFault
                 \/ /\ reason # "none"
                    /\ Set(a, With([q EXCEPT !.store = AfterFailure(@, i, reason),
                                             !.diagnosed = @ \cup {i}], i,
                                   Recovering(u, reason)))
                    /\ NoFault
                 \/ Set(a, With(off, i, Recovering(u, "disabled"))) /\ Fault
  BY DEF TakeRecords
<1> DEFINE u == q.unit[i]
           reason == ReadFailure(i, u.snapshot)
           taken == [q.store EXCEPT !.taken = q.store.taken \cup {i}]
           off == InvalidateRead(Protect(Disabled(q.store), i), i)
           read == [u EXCEPT !.stage = "ready", !.records = shard[i].records]
<1>2. PICK k \in q.batch : InputAt(q, k) = i
  BY <1>1 DEF Folding, Foremost
<1>3. WorldOK /\ ShardsOK /\ AcquirerOK(q) /\ q \in Acquirer /\ q.step = "fold"
  BY <1>1 DEF Inv, AcquirerOK, Folding
<1>4. k \in GroupUnits(q) /\ q.inventory[i] # None
  BY <1>2, <1>3, BatchPlace
<1>5. /\ u \in Unit /\ u.stage = "hit" /\ q.store \in Store /\ q.diagnosed \in SUBSET Inputs
      /\ UnitOK(u, q.inventory[i], version[i], present[i], q.cancelled)
      /\ StoreOK(u, q.store, i)
      /\ version[i] \in Versions /\ q.inventory[i] \in Versions
  BY <1>1, <1>3, <1>4 DEF AcquirerOK, Acquirer, Folding, WorldOK
<1>6. i \notin q.store.deleted \cup q.store.taken
  BY <1>5 DEF StoreOK
<1>7. /\ StoreLater(q.store, InvalidateRead(q.store, i), i) /\ StoreLater(q.store, off, i)
      /\ StoreLater(q.store, taken, i) /\ StoreLater(q.store, AfterFailure(q.store, i, reason), i)
  BY <1>5, StoreCalls
<1>8. ASSUME NEW r, NEW store, r = "disabled" \/ store = AfterFailure(q.store, i, r)
      PROVE  /\ Recovering(u, r) \in Unit /\ Recovering(u, r).stage = "recover"
             /\ UnitOK(Recovering(u, r), q.inventory[i], version[i], present[i], q.cancelled)
             /\ StoreOK(Recovering(u, r), store, i)
  <2>1. u.removal \in BOOLEAN /\ (r \in RequiresRemoval) \in BOOLEAN /\ ~u.removal
        /\ u.status = "complete"
    BY <1>5, UnitType DEF UnitOK
  <2>2. /\ Recovering(u, r) \in Unit /\ Recovering(u, r).stage = "recover"
        /\ Recovering(u, r).snapshot = u.snapshot /\ Recovering(u, r).status = "complete"
        /\ Recovering(u, r).removal = (r \in RequiresRemoval)
    BY <1>5, <2>1 DEF Recovering, Unit
  <2>3. UnitOK(Recovering(u, r), q.inventory[i], version[i], present[i], q.cancelled)
    BY <1>4, <1>5, <2>2 DEF UnitOK
  <2>4. ASSUME r \in RequiresRemoval
        PROVE  i \in store.deleted \cup store.protected
    <3>1. r = "corrupt" /\ store = Remove(q.store, i)
      BY <1>8, <2>4 DEF RequiresRemoval, Preserving, AfterFailure
    <3> QED
      BY <1>5, <3>1 DEF Remove, Store
  <2>5. StoreOK(Recovering(u, r), store, i)
    BY <2>2, <2>4 DEF StoreOK
  <2> QED
    BY <2>2, <2>3, <2>5
<1>9. ASSUME reason = "none"
      PROVE  /\ read \in Unit /\ read.stage = "ready" /\ StoreOK(read, taken, i)
             /\ UnitOK(read, q.inventory[i], version[i], present[i], q.cancelled)
  <2>1. shard[i] # None /\ shard[i].kind = "intact" /\ shard[i].stamp = u.snapshot
    <3>1. shard[i] # None => shard[i] \in Shard
      BY <1>3 DEF ShardsOK
    <3> QED
      BY <1>9, <3>1 DEF ReadFailure, Shard
  <2>2. u.snapshot = q.inventory[i] /\ u.origin = "shard" /\ ~u.removal /\ u.status = "complete"
    BY <1>5 DEF UnitOK
  <2>3. shard[i].records = q.inventory[i]
    BY <1>3, <2>1, <2>2 DEF ShardsOK, SealedShards
  <2>4. /\ read \in Unit /\ read.stage = "ready" /\ read.records = q.inventory[i]
        /\ read.snapshot = u.snapshot /\ read.origin = "shard" /\ read.removal = u.removal
        /\ read.status = "complete"
    BY <1>5, <2>2, <2>3 DEF Unit
  <2>5. q.inventory[i] <= q.inventory[i] /\ q.inventory[i] <= version[i]
    <3>1. q.inventory[i] \in Nat
      BY <1>5, ShardAssumption DEF Versions
    <3>2. u.snapshot <= version[i]
      BY <1>4, <1>5 DEF UnitOK
    <3> QED
      BY <2>2, <3>1, <3>2
  <2>6. UnitOK(read, q.inventory[i], version[i], present[i], q.cancelled)
    BY <1>4, <1>5, <2>2, <2>4, <2>5 DEF UnitOK
  <2>7. StoreOK(read, taken, i)
    BY <2>2, <2>4 DEF StoreOK
  <2> QED
    BY <2>4, <2>6, <2>7
<1>10. /\ q.diagnosed \cup {i} \in SUBSET Inputs
       /\ UNCHANGED shard /\ UNCHANGED InputsAndPrune
  BY <1>5 DEF TakeRecords
<1>11. \/ /\ Set(a, Moved(q, i, Recovering(u, "disabled"), InvalidateRead(q.store, i),
                            q.diagnosed))
          /\ NoFault
       \/ /\ reason = "none"
          /\ Set(a, Moved(q, i, read, taken, q.diagnosed))
          /\ NoFault
       \/ /\ Set(a, Moved(q, i, Recovering(u, reason), AfterFailure(q.store, i, reason),
                            q.diagnosed \cup {i}))
          /\ NoFault
       \/ Set(a, Moved(q, i, Recovering(u, "disabled"), off, q.diagnosed)) /\ Fault
  <2>1. With([q EXCEPT !.store.taken = @ \cup {i}], i, read)
            = Moved(q, i, read, taken, q.diagnosed)
    BY <1>3, MovedIs
  <2>2. With([q EXCEPT !.store = InvalidateRead(@, i)], i, Recovering(u, "disabled"))
            = Moved(q, i, Recovering(u, "disabled"), InvalidateRead(q.store, i), q.diagnosed)
    BY <1>3, MovedIs
  <2>3. With([q EXCEPT !.store = AfterFailure(@, i, reason), !.diagnosed = @ \cup {i}], i,
             Recovering(u, reason))
            = Moved(q, i, Recovering(u, reason), AfterFailure(q.store, i, reason),
                    q.diagnosed \cup {i})
    <3> DEFINE store == AfterFailure(q.store, i, reason)
               diagnosed == q.diagnosed \cup {i}
               v == Recovering(u, reason)
    <3> HIDE DEF store, diagnosed, v
    <3>1. With([q EXCEPT !.store = store, !.diagnosed = diagnosed], i, v)
              = Moved(q, i, v, store, diagnosed)
      BY <1>3 DEF With, Moved, Acquirer
    <3> QED
      BY <3>1 DEF store, diagnosed, v
  <2>4. With([q EXCEPT !.store = InvalidateRead(Protect(Disabled(@), i), i)], i,
             Recovering(u, "disabled"))
            = Moved(q, i, Recovering(u, "disabled"), off, q.diagnosed)
    BY <1>3, MovedIs
  <2> QED
    BY <1>1, <1>6, <2>1, <2>2, <2>3, <2>4
<1> HIDE DEF read, taken, off, reason
<1>12. ASSUME NEW v \in Unit, NEW store, StoreLater(q.store, store, i), StoreOK(v, store, i),
              UnitOK(v, q.inventory[i], version[i], present[i], q.cancelled),
              NEW diagnosed \in SUBSET Inputs
       PROVE  AcquirerOK(Moved(q, i, v, store, diagnosed))
  BY <1>2, <1>3, <1>4, <1>5, <1>12, MovedOK
<1>13. AcquirerOK(Moved(q, i, Recovering(u, "disabled"), InvalidateRead(q.store, i),
                        q.diagnosed))
  BY <1>5, <1>7, <1>8, <1>12
<1>14. reason = "none" => AcquirerOK(Moved(q, i, read, taken, q.diagnosed))
  BY <1>5, <1>7, <1>9, <1>12
<1>15. AcquirerOK(Moved(q, i, Recovering(u, reason), AfterFailure(q.store, i, reason),
                        q.diagnosed \cup {i}))
  BY <1>7, <1>8, <1>10, <1>12
<1>16. AcquirerOK(Moved(q, i, Recovering(u, "disabled"), off, q.diagnosed))
  BY <1>5, <1>7, <1>8, <1>12
<1> QED
  BY <1>10, <1>11, <1>13, <1>14, <1>15, <1>16, AcquirerMoves

\* A unit that has been folded leaves the batch.
LEMMA FoldStep ==
    ASSUME WorldOK, NEW STATE q, AcquirerOK(q), q.step = "fold", NEW i \in Inputs,
           NEW k \in q.batch, InputAt(q, k) = i, q.unit[i].stage = "ready",
           NEW STATE store, StoreLater(q.store, store, i)
    PROVE  AcquirerOK(Folded([q EXCEPT !.store = store], i))
<1> DEFINE u == [q.unit[i] EXCEPT !.stage = "folded"]
           r == Folded([q EXCEPT !.store = store], i)
<1>1. q \in Acquirer /\ store \in Store /\ q.unit[i] \in Unit /\ CourseOK(q)
  BY DEF AcquirerOK, StoreLater, Acquirer
<1>2. u \in Unit /\ u.stage = "folded" /\ u.removal = q.unit[i].removal
  BY <1>1 DEF Unit
<1>3. {n \in q.batch : InputAt(q, n) # i} \in SUBSET Nat
  BY <1>1 DEF Acquirer
<1>4. /\ r \in Acquirer /\ r.step = "fold" /\ r.cancelled = q.cancelled
      /\ r.inventory = q.inventory /\ r.group = q.group /\ r.planned = q.planned
      /\ r.batch = {n \in q.batch : InputAt(q, n) # i} /\ r.store = store
      /\ r.unit[i] = u /\ \A j \in Inputs \ {i} : r.unit[j] = q.unit[j]
  <2>1. \A n : InputAt([q EXCEPT !.store = store], n) = InputAt(q, n)
    BY <1>1 DEF InputAt, Acquirer
  <2>2. r = [q EXCEPT !.store = store, !.unit[i] = u, !.batch = {n \in q.batch : InputAt(q, n) # i}]
    BY <1>1, <2>1 DEF Folded, Acquirer
  <2> DEFINE batch == {n \in q.batch : InputAt(q, n) # i}
  <2> HIDE DEF u, r, batch
  <2>3. r = [q EXCEPT !.store = store, !.unit[i] = u, !.batch = batch] /\ batch \in SUBSET Nat
    BY <1>3, <2>2 DEF batch
  <2>4. r \in Acquirer
    BY <1>1, <1>2, <2>3 DEF Acquirer
  <2>5. /\ r.step = "fold" /\ r.cancelled = q.cancelled
        /\ r.inventory = q.inventory /\ r.group = q.group /\ r.planned = q.planned
        /\ r.batch = batch /\ r.store = store
        /\ r.unit[i] = u /\ \A j \in Inputs \ {i} : r.unit[j] = q.unit[j]
    BY <1>1, <1>2, <2>3 DEF Acquirer
  <2> QED
    BY <2>4, <2>5 DEF batch
<1>5. UnitOK(u, q.inventory[i], version[i], present[i], q.cancelled)
  <2>1. UnitOK(q.unit[i], q.inventory[i], version[i], present[i], q.cancelled)
    BY DEF AcquirerOK
  <2> QED
    BY <1>1, <2>1 DEF UnitOK, Unit
<1> HIDE DEF r, u
<1>6. ASSUME NEW j \in Inputs
      PROVE  /\ UnitOK(r.unit[j], r.inventory[j], version[j], present[j], r.cancelled)
             /\ StoreOK(r.unit[j], r.store, j)
             /\ r.inventory[j] # None => j \in Discovered
  <2>1. CASE j = i
    BY <1>2, <1>4, <1>5, <2>1 DEF AcquirerOK, StoreOK
  <2>2. CASE j # i
    BY <1>4, <2>2 DEF AcquirerOK, StoreOK, StoreLater
  <2> QED
    BY <2>1, <2>2
<1>7. k \in GroupUnits(q) /\ q.group \in DOMAIN setting.groups
  BY <1>1, BatchPlace DEF CourseOK, Acquires
<1>8. GroupUnits(r) = GroupUnits(q) /\ \A n : InputAt(r, n) = InputAt(q, n)
  BY <1>4 DEF GroupUnits, InputAt
<1>9. \A n \in GroupUnits(q) : InputAt(q, n) \in Inputs /\ (InputAt(q, n) = i => n = k)
  BY <1>7, GroupType
<1>10. \A j \in Inputs : q.unit[j].stage = "folded" => r.unit[j].stage = "folded"
  BY <1>2, <1>4
<1>11. FoldedBefore(r, setting.groups) /\ PreparedAfter(r, setting.groups)
  <2>1. FoldedBefore(q, setting.groups) /\ PreparedAfter(q, setting.groups)
    BY <1>1 DEF CourseOK, Acquires
  <2>2. ASSUME NEW g \in 1 .. r.group - 1, NEW n \in DOMAIN setting.groups[g],
               r.inventory[setting.groups[g][n]] # None
        PROVE  r.unit[setting.groups[g][n]].stage = "folded"
    <3>1. g \in DOMAIN setting.groups
      <4>1. setting.groups \in Seq(Seq(Inputs))
        BY ShardAssumption DEF WorldOK
      <4> QED
        BY <1>4, <1>7, <2>2, <4>1
    <3>2. setting.groups[g][n] \in Inputs
      BY <1>7, <3>1, <2>2, GroupType
    <3> QED
      BY <1>4, <1>10, <2>1, <2>2, <3>2 DEF FoldedBefore
  <2>3. ASSUME NEW g \in DOMAIN setting.groups, g > r.group, NEW n \in DOMAIN setting.groups[g]
        PROVE  r.unit[setting.groups[g][n]].stage = "prepared"
    <3>1. g # q.group
      BY <1>1, <1>4, <2>3 DEF Acquirer
    <3>2. setting.groups[g][n] \in Inputs /\ setting.groups[g][n] # i
      BY <1>7, <2>3, <3>1, GroupType
    <3> QED
      BY <1>4, <2>1, <2>3, <3>2 DEF PreparedAfter
  <2> QED
    BY <2>2, <2>3 DEF FoldedBefore, PreparedAfter
<1>12. /\ r.planned \cup r.batch \subseteq GroupUnits(r) /\ r.planned \cap r.batch = {}
       /\ \A n \in GroupUnits(r) \ (r.planned \cup r.batch) :
              r.unit[InputAt(r, n)].stage = "folded"
       /\ \A n \in r.planned : r.unit[InputAt(r, n)].stage \in {"hit", "miss"}
  <2>1. /\ q.planned \cup q.batch \subseteq GroupUnits(q) /\ q.planned \cap q.batch = {}
        /\ \A n \in GroupUnits(q) \ (q.planned \cup q.batch) :
               q.unit[InputAt(q, n)].stage = "folded"
        /\ \A n \in q.planned : q.unit[InputAt(q, n)].stage \in {"hit", "miss"}
    BY <1>1 DEF CourseOK, Batches
  <2>2. r.planned \cup r.batch \subseteq GroupUnits(r) /\ r.planned \cap r.batch = {}
    BY <1>4, <1>8, <2>1
  <2>3. ASSUME NEW n \in GroupUnits(q), n \notin r.planned \cup r.batch
        PROVE  r.unit[InputAt(q, n)].stage = "folded"
    <3>1. CASE InputAt(q, n) = i
      BY <1>2, <1>4, <3>1
    <3>2. CASE InputAt(q, n) # i
      <4>1. n \notin q.planned \cup q.batch
        BY <1>4, <2>3, <3>2
      <4> QED
        BY <1>9, <1>10, <2>1, <4>1
    <3> QED
      BY <3>1, <3>2
  <2>4. ASSUME NEW n \in q.planned
        PROVE  r.unit[InputAt(q, n)].stage \in {"hit", "miss"}
    <3>1. n # k /\ n \in GroupUnits(q)
      BY <2>1
    <3>2. InputAt(q, n) \in Inputs \ {i}
      BY <1>9, <3>1
    <3> QED
      BY <1>4, <2>1, <3>2
  <2> QED
    BY <1>4, <1>8, <2>2, <2>3, <2>4
<1>13. CourseOK(r)
  BY <1>4, <1>7, <1>11, <1>12 DEF CourseOK, Acquires, Batches
<1>14. AcquirerOK(r)
  BY <1>4, <1>6, <1>13 DEF AcquirerOK
<1> QED
  BY <1>14 DEF r

\* A shard is written from complete records of the snapshot: it is sealed.
LEMMA FoldUnitKeeps == ASSUME Inv, NEW a \in Acquirers, FoldUnit(a) PROVE Inv'
<1> DEFINE q == acquirer[a]
<1>1. PICK i \in Inputs :
          LET u == q.unit[i]
              doubt(store) == IF Doubted(u) THEN Remove(store, i) ELSE store
          IN  /\ Folding(q, i, "ready")
              /\ \/ /\ Writes(q, i) /\ NoFault
                    /\ shard' = [shard EXCEPT ![i] = Intact(u.snapshot, u.records)]
                    /\ Set(a, Folded([q EXCEPT !.store = Written(@, i)], i))
                 \/ /\ Writes(q, i) /\ Fault
                    /\ Set(a, Folded([q EXCEPT !.store = doubt(Disabled(@))], i))
                    /\ UNCHANGED shard
                 \/ /\ ~Writes(q, i) /\ NoFault
                    /\ Set(a, Folded([q EXCEPT !.store = doubt(@)], i))
                    /\ UNCHANGED shard
  BY DEF FoldUnit
<1> DEFINE u == q.unit[i]
           store(x) == CASE x = "written" -> Written(q.store, i)
                         [] x = "disabled" -> Disabled(q.store)
                         [] x = "doubted" -> Remove(q.store, i)
                         [] x = "both" -> Remove(Disabled(q.store), i)
                         [] OTHER -> q.store
<1>2. PICK k \in q.batch : InputAt(q, k) = i
  BY <1>1 DEF Folding, Foremost
<1>3. WorldOK /\ ShardsOK /\ AcquirerOK(q) /\ q \in Acquirer /\ q.step = "fold"
  BY <1>1 DEF Inv, AcquirerOK, Folding
<1>4. q.inventory[i] # None /\ u.stage = "ready" /\ u \in Unit /\ q.store \in Store
      /\ UnitOK(u, q.inventory[i], version[i], present[i], q.cancelled)
  BY <1>1, <1>2, <1>3, BatchPlace DEF Folding, Acquirer, AcquirerOK
<1>5. ASSUME NEW x PROVE AcquirerOK(Folded([q EXCEPT !.store = store(x)], i))
  <2>1. StoreLater(q.store, store(x), i)
    BY <1>4, StoreCalls
  <2> HIDE DEF store
  <2> QED
    BY <1>2, <1>3, <1>4, <2>1, FoldStep
<1>6. ASSUME Writes(q, i), shard' = [shard EXCEPT ![i] = Intact(u.snapshot, u.records)]
      PROVE  ShardsOK'
  <2>1. u.records = u.snapshot /\ u.records # None /\ u.records \in Versions
    BY <1>4, <1>6, UnitType DEF Writes, WritePlanned, UnitOK
  <2>2. Intact(u.snapshot, u.records) \in Shard
    BY <2>1 DEF Intact, Shard
  <2> QED
    BY <1>3, <1>6, <2>1, <2>2 DEF ShardsOK, SealedShards, Intact
<1>7. \E x : Set(a, Folded([q EXCEPT !.store = store(x)], i))
  <2>1. /\ store("written") = Written(q.store, i) /\ store("disabled") = Disabled(q.store)
        /\ store("doubted") = Remove(q.store, i) /\ store("none") = q.store
        /\ store("both") = Remove(Disabled(q.store), i)
    OBVIOUS
  <2> HIDE DEF store
  <2> QED
    BY <1>1, <2>1
<1>8. (Fault \/ NoFault) /\ (UNCHANGED shard \/ ShardsOK') /\ UNCHANGED InputsAndPrune
  BY <1>1, <1>6 DEF FoldUnit
<1> HIDE DEF store
<1> QED
  BY <1>5, <1>7, <1>8, AcquirerMoves

\* `tokenx cache prune` only removes shards.
LEMMA PruneKeeps == ASSUME Inv, PruneStep PROVE Inv'
<1>1. UNCHANGED <<version, present, acquirer, setting, faults, damage, cancels>>
  BY DEF PruneStep, StartPrune, EndClassification, EndPrune, Classify, Prune, Acquiring, bounds
<1>2. prune' \in [step : {"idle", "classify", "delete"},
                  listed : SUBSET Inputs, doomed : SUBSET Inputs]
  <2>1. prune \in [step : {"idle", "classify", "delete"},
                   listed : SUBSET Inputs, doomed : SUBSET Inputs]
    BY DEF Inv, RestOK
  <2>2. ResumedPrune \in [step : {"idle", "classify", "delete"},
                          listed : SUBSET Inputs, doomed : SUBSET Inputs]
    BY DEF ResumedPrune
  <2>3. CASE StartPrune
    BY <2>3 DEF StartPrune
  <2>4. CASE EndClassification \/ EndPrune
    BY <2>1, <2>2, <2>4 DEF EndClassification, EndPrune
  <2>5. ASSUME NEW i \in Inputs, Classify(i)
        PROVE  prune' \in [step : {"idle", "classify", "delete"},
                           listed : SUBSET Inputs, doomed : SUBSET Inputs]
    <3>1. /\ prune.listed \ {i} \in SUBSET Inputs /\ prune.doomed \in SUBSET Inputs
          /\ prune.doomed \cup {i} \in SUBSET Inputs
      BY <2>1
    <3> QED
      BY <2>1, <2>2, <2>5, <3>1 DEF Classify
  <2>6. ASSUME NEW i \in Inputs, Prune(i)
        PROVE  prune' \in [step : {"idle", "classify", "delete"},
                           listed : SUBSET Inputs, doomed : SUBSET Inputs]
    <3>1. prune.doomed \ {i} \in SUBSET Inputs
      BY <2>1
    <3> QED
      BY <2>1, <2>2, <2>6, <3>1 DEF Prune
  <2> QED
    BY <2>3, <2>4, <2>5, <2>6 DEF PruneStep
<1>3. ShardsOK'
  BY DEF PruneStep, StartPrune, EndClassification, EndPrune, Classify, Prune, Inv, ShardsOK,
         SealedShards
<1>4. Discovered' = Discovered
  BY <1>1 DEF Discovered
<1>5. WorldOK' /\ RestOK'
  BY <1>1, <1>2, <1>4 DEF Inv, WorldOK, RestOK
<1>6. ASSUME NEW a \in Acquirers PROVE AcquirerOK(acquirer[a])'
  BY <1>1, <1>4, SameWorld DEF Inv
<1> QED
  BY <1>1, <1>3, <1>5, <1>6 DEF Inv

\* A change makes every snapshot of the input older than the input.
LEMMA ChangeKeeps == ASSUME Inv, NEW i \in Discovered, Change(i) PROVE Inv'
<1>1. /\ UNCHANGED <<shard, acquirer, prune, setting, faults, damage, cancels>>
      /\ i \in Inputs /\ version[i] \in Versions /\ version[i] + 1 \in Versions
      /\ version' = [version EXCEPT ![i] = version[i] + 1]
  <2>1. version[i] \in Versions /\ i \in Inputs
    BY DEF Inv, WorldOK, Discovered
  <2>2. version[i] + 1 \in Versions
    BY <2>1, ShardAssumption DEF Change, Versions
  <2> QED
    BY <2>1, <2>2 DEF Change, bounds
<1>2. PICK p \in BOOLEAN : present' = [present EXCEPT ![i] = p]
  BY DEF Change
<1>3. Discovered' = Discovered
  BY <1>1 DEF Discovered
<1>4. WorldOK'
  BY <1>1, <1>2, <1>3 DEF Inv, WorldOK
<1>5. ShardsOK' /\ RestOK'
  BY <1>1 DEF Inv, ShardsOK, SealedShards, RestOK
<1>6. ASSUME NEW a \in Acquirers
      PROVE  AcquirerOK(acquirer[a])'
  <2> DEFINE q == acquirer[a]
  <2>1. AcquirerOK(q) /\ acquirer' = acquirer /\ q \in Acquirer
    BY <1>1 DEF Inv, AcquirerOK
  <2>2. CourseOK(q)'
    BY <1>1, <2>1, SameCourse DEF AcquirerOK
  <2>3. ASSUME NEW j \in Inputs
        PROVE  UnitOK(q.unit[j], q.inventory[j], version'[j], present'[j], q.cancelled)
    <3>1. UnitOK(q.unit[j], q.inventory[j], version[j], present[j], q.cancelled)
      BY <2>1 DEF AcquirerOK
    <3>2. CASE j # i
      BY <1>1, <1>2, <3>1, <3>2 DEF Inv, WorldOK
    <3>3. CASE j = i
      <4>1. version'[i] = version[i] + 1 /\ present'[i] = p /\ present[i] \in BOOLEAN
        BY <1>1, <1>2 DEF Inv, WorldOK
      <4>2. /\ q.unit[i] \in Unit /\ q.inventory[i] \in Versions \cup {None}
            /\ q.cancelled \in BOOLEAN
        BY <1>1, <2>1 DEF Acquirer
      <4>3. UnitOK(q.unit[i], q.inventory[i], version[i] + 1, p, q.cancelled)
        BY <1>1, <3>1, <3>3, <4>1, <4>2, UnitLater
      <4> QED
        BY <3>3, <4>1, <4>3
    <3> QED
      BY <3>2, <3>3
  <2> QED
    BY <1>3, <2>1, <2>2, <2>3 DEF AcquirerOK
<1> QED
  BY <1>1, <1>4, <1>5, <1>6 DEF Inv

\* A damaged shard is not intact.
LEMMA DamageKeeps == ASSUME Inv, NEW i \in Discovered, Damage(i) PROVE Inv'
<1>1. UNCHANGED <<version, present, acquirer, prune, setting, faults, cancels>>
  BY DEF Damage
<1>2. damage' \in 0 .. MaxDamage
  BY ShardAssumption DEF Inv, RestOK, Damage
<1>3. ShardsOK'
  <2>1. ShardsOK /\ i \in Inputs /\ 0 \in Versions
    BY ShardAssumption DEF Inv, Discovered, Versions
  <2>2. CASE shard[i] # None /\ shard' = [shard EXCEPT ![i].kind = "body"]
    <3>1. shard[i] \in Shard
      BY <2>1, <2>2 DEF ShardsOK
    <3>2. [shard[i] EXCEPT !.kind = "body"] \in Shard
          /\ [shard[i] EXCEPT !.kind = "body"].kind = "body"
      BY <3>1 DEF Shard
    <3> QED
      BY <2>1, <2>2, <3>2 DEF ShardsOK, SealedShards
  <2>3. ASSUME NEW kind \in {"envelope", "unsupported", "misplaced"},
               shard' = [shard EXCEPT ![i] = [kind |-> kind, stamp |-> 0, records |-> 0]]
        PROVE  ShardsOK'
    <3>1. [kind |-> kind, stamp |-> 0, records |-> 0] \in Shard
      BY <2>1 DEF Shard
    <3> QED
      BY <2>1, <2>3, <3>1 DEF ShardsOK, SealedShards
  <2> QED
    BY <2>2, <2>3 DEF Damage
<1>4. Discovered' = Discovered
  BY <1>1 DEF Discovered
<1>5. WorldOK' /\ RestOK'
  BY <1>1, <1>2, <1>4 DEF Inv, WorldOK, RestOK
<1>6. ASSUME NEW a \in Acquirers PROVE AcquirerOK(acquirer[a])'
  BY <1>1, SameWorld DEF Inv
<1> QED
  BY <1>1, <1>3, <1>5, <1>6 DEF Inv

\* No acquisition has begun, and there are no shards.
LEMMA InitInv == Init => Inv
<1> SUFFICES ASSUME Init PROVE Inv
  OBVIOUS
<1>1. WorldOK
  <2>1. 0 \in Versions
    BY ShardAssumption DEF Versions
  <2> QED
    BY <2>1 DEF Init, WorldOK
<1>2. ShardsOK
  BY DEF Init, ShardsOK, SealedShards
<1>3. RestOK
  <2>1. {setting.faults, setting.cancels, MaxDamage} \subseteq Nat
    BY ShardAssumption DEF Init
  <2> QED
    BY <2>1 DEF Init, RestOK, ResumedPrune
<1>4. \A a \in Acquirers : AcquirerOK(acquirer[a])
  BY <1>1, RestingOK DEF Init
<1> QED
  BY <1>1, <1>2, <1>3, <1>4 DEF Init, Inv

\* Every step of an acquisition, of prune and of the world keeps the invariant.
LEMMA NextInv == Inv /\ [Next]_vars => Inv'
<1> SUFFICES ASSUME Inv, [Next]_vars PROVE Inv'
  OBVIOUS
<1>1. ASSUME NEW a \in Acquirers, AcquirerStep(a) \/ Cancel(a) \/ Kill(a)
      PROVE  Inv'
  BY <1>1, BeginKeeps, OpenStoreKeeps, PlanUnitKeeps, EndPlanningKeeps, NextBatchKeeps,
     NextGroupKeeps, ScanUnitKeeps, ValidateUnitKeeps, StartFoldKeeps, TakeRecordsKeeps,
     RecoverUnitKeeps, FoldUnitKeeps, EndBatchKeeps, UnlinkKeeps, FinishAcquisitionKeeps,
     AbandonKeeps, CancelKeeps, KillKeeps DEF AcquirerStep, Proceed
<1>2. setting.users \subseteq Acquirers
  BY ShardAssumption DEF Inv, WorldOK
<1>3. CASE PruneStep
  BY <1>3, PruneKeeps
<1>4. CASE \E i \in Discovered : Change(i) \/ Damage(i)
  BY <1>4, ChangeKeeps, DamageKeeps
<1>5. CASE UNCHANGED vars
  <2>1. UNCHANGED <<version, present, setting, shard, acquirer, prune, faults, damage, cancels>>
    BY <1>5 DEF vars, bounds
  <2>2. Discovered' = Discovered
    BY <2>1 DEF Discovered
  <2>3. WorldOK' /\ ShardsOK' /\ RestOK'
    BY <2>1, <2>2 DEF Inv, WorldOK, ShardsOK, SealedShards, RestOK
  <2>4. ASSUME NEW a \in Acquirers PROVE AcquirerOK(acquirer[a])'
    BY <2>1, SameWorld DEF Inv
  <2> QED
    BY <2>1, <2>3, <2>4 DEF Inv
<1> QED
  BY <1>1, <1>2, <1>3, <1>4, <1>5 DEF Next

\* Units, stores, the order of the units and the shards stay consistent, whatever
\* the processes, inputs, integrations and bounds (integrations/mod.rs:778-1010).
THEOREM ShardInvariant == Spec => []Inv
BY InitInv, NextInv, PTL DEF Spec

-----------------------------------------------------------------------------
(* What the invariant says.                                                *)

\* Every variable keeps its type, and no more inputs are parsed at a time than there
\* are threads (integrations/mod.rs:839-844).
THEOREM TypesOfAcquisitions == Spec => []TypeOK
<1>1. Inv => TypeOK
  <2> SUFFICES ASSUME Inv PROVE TypeOK
    OBVIOUS
  <2>1. /\ version \in [Inputs -> Versions] /\ present \in [Inputs -> BOOLEAN]
        /\ setting \in Settings /\ DOMAIN acquirer = Acquirers
    BY DEF Inv, WorldOK
  <2>2. DOMAIN shard = Inputs /\ \A i \in Inputs : shard[i] = None \/ shard[i] \in Shard
    BY DEF Inv, ShardsOK
  <2>3. ASSUME NEW a \in Acquirers
        PROVE  /\ acquirer[a] \in Acquirer
               /\ acquirer[a].step = "parse" =>
                      Cardinality({k \in acquirer[a].batch :
                          acquirer[a].unit[InputAt(acquirer[a], k)].stage # "hit"}) <= BatchWidth
    BY DEF Inv, AcquirerOK, CourseOK, Unread
  <2> QED
    BY <2>1, <2>2, <2>3 DEF Inv, RestOK, TypeOK
<1> QED
  BY <1>1, ShardInvariant, PTL

\* An intact shard holds the records of the version it is stamped with, although its
\* input changes while it is scanned and processes write it without a lock
\* (integrations/cache.rs:244-284).
THEOREM ShardsAreSealed == Spec => []SealedShards
<1>1. Inv => SealedShards
  BY DEF Inv, ShardsOK
<1> QED
  BY <1>1, ShardInvariant, PTL

\* Why an acquisition may condemn a shard.
Spared(a, i) ==
    \/ acquirer[a].unit[i].status = "partial"
    \/ shard[i] # None /\ shard[i].kind \in {"body", "envelope"}

Condemns(a, i) == i \in acquirer'[a].store.deleted \ acquirer[a].store.deleted

\* fold_units_with_filter condemns a shard for a partial scan only: what its
\* recovery condemns has been condemned when the shard was read.
LEMMA FoldSpares ==
    ASSUME Inv, NEW a \in Acquirers, FoldUnit(a), NEW j, Condemns(a, j)
    PROVE  Spared(a, j)
<1> DEFINE q == acquirer[a]
<1>1. PICK i \in Inputs :
          /\ q.unit[i].stage = "ready"
          /\ \/ \E store \in {Written(q.store, i), Disabled(q.store), q.store} :
                   Set(a, Folded([q EXCEPT !.store = store], i))
             \/ /\ Doubted(q.unit[i])
                /\ \E store \in {Remove(Disabled(q.store), i), Remove(q.store, i)} :
                      Set(a, Folded([q EXCEPT !.store = store], i))
  BY DEF FoldUnit, Folding
<1>2. q \in Acquirer /\ StoreOK(q.unit[i], q.store, i) /\ q.store \in Store
  BY DEF Inv, AcquirerOK, Acquirer
<1>3. ASSUME NEW store, Set(a, Folded([q EXCEPT !.store = store], i))
      PROVE  acquirer'[a].store = store
  <2>1. Folded([q EXCEPT !.store = store], i).store = store
    BY <1>2 DEF Folded, Acquirer
  <2> QED
    BY <1>3, <2>1 DEF Set, Inv
<1>4. \A store \in {Written(q.store, i), Disabled(q.store), q.store} :
          store.deleted \subseteq q.store.deleted
  BY <1>2 DEF Written, Disabled, Store
<1>5. \A store \in {Remove(Disabled(q.store), i), Remove(q.store, i)} :
          \/ store.deleted \subseteq q.store.deleted
          \/ i \notin q.store.protected /\ store.deleted = q.store.deleted \cup {i}
  BY <1>2 DEF Remove, Disabled, Store
<1>6. j = i /\ i \notin q.store.protected \cup q.store.deleted /\ Doubted(q.unit[i])
  BY <1>1, <1>3, <1>4, <1>5 DEF Condemns
<1>7. ~q.unit[i].removal
  BY <1>1, <1>2, <1>6 DEF StoreOK
<1> QED
  BY <1>6, <1>7 DEF Doubted, Spared

\* take_records condemns a shard it found corrupt only.
LEMMA TakeSpares ==
    ASSUME Inv, NEW a \in Acquirers, TakeRecords(a), NEW j, Condemns(a, j)
    PROVE  Spared(a, j)
<1> DEFINE q == acquirer[a]
           off(i) == InvalidateRead(Protect(Disabled(q.store), i), i)
           reason(i) == ReadFailure(i, q.unit[i].snapshot)
<1>1. PICK i \in Inputs :
          \/ Set(a, [q EXCEPT !.step = "broken"])
          \/ \E u : Set(a, With([q EXCEPT !.store = InvalidateRead(q.store, i)], i, u))
          \/ \E u : Set(a, With([q EXCEPT !.store.taken = @ \cup {i}], i, u))
          \/ \E u : Set(a, With([q EXCEPT !.store = AfterFailure(q.store, i, reason(i)),
                                         !.diagnosed = @ \cup {i}], i, u))
          \/ \E u : Set(a, With([q EXCEPT !.store = off(i)], i, u))
  BY DEF TakeRecords
<1>2. q \in Acquirer /\ q.store \in Store /\ DOMAIN acquirer = Acquirers
  BY DEF Inv, AcquirerOK, Acquirer
<1>3. ASSUME NEW r, Set(a, r) PROVE acquirer'[a].store = r.store
  BY <1>2, <1>3 DEF Set
<1>4. ASSUME NEW store, NEW u PROVE With([q EXCEPT !.store = store], i, u).store = store
  BY <1>2 DEF With, Acquirer
<1>5. /\ [q EXCEPT !.step = "broken"].store.deleted = q.store.deleted
      /\ [q.store EXCEPT !.taken = @ \cup {i}].deleted = q.store.deleted
      /\ InvalidateRead(q.store, i).deleted = q.store.deleted
      /\ off(i).deleted = q.store.deleted
  BY <1>2 DEF Acquirer, Store, InvalidateRead, Protect, Disabled
<1>6. /\ AfterFailure(q.store, i, reason(i)).deleted \subseteq q.store.deleted \cup {i}
      /\ reason(i) # "corrupt" => AfterFailure(q.store, i, reason(i)).deleted = q.store.deleted
  BY <1>2 DEF AfterFailure, Remove, InvalidateRead, Protect, RequiresRemoval, Store
<1> HIDE DEF off, reason
<1>7. acquirer'[a].store.deleted \in {q.store.deleted,
                                     AfterFailure(q.store, i, reason(i)).deleted}
  <2>1. CASE Set(a, [q EXCEPT !.step = "broken"])
    BY <1>3, <1>5, <2>1
  <2>2. ASSUME NEW u, NEW store, Set(a, With([q EXCEPT !.store = store], i, u))
        PROVE  acquirer'[a].store = store
    BY <1>3, <1>4, <2>2
  <2>3. ASSUME NEW u, NEW store, NEW diagnosed,
               Set(a, With([q EXCEPT !.store = store, !.diagnosed = diagnosed], i, u))
        PROVE  acquirer'[a].store = store
    <3> DEFINE r == With([q EXCEPT !.store = store, !.diagnosed = diagnosed], i, u)
    <3>1. r.store = store
      BY <1>2 DEF With, Acquirer
    <3>2. Set(a, r)
      BY <2>3
    <3> HIDE DEF r
    <3> QED
      BY <1>3, <3>1, <3>2
  <2>4. CASE \E u : Set(a, With([q EXCEPT !.store = InvalidateRead(q.store, i)], i, u))
    BY <1>5, <2>2, <2>4
  <2>5. CASE \E u : Set(a, With([q EXCEPT !.store.taken = @ \cup {i}], i, u))
    BY <1>5, <2>2, <2>5
  <2>6. CASE \E u : Set(a, With([q EXCEPT !.store = AfterFailure(q.store, i, reason(i)),
                                         !.diagnosed = @ \cup {i}], i, u))
    BY <2>3, <2>6
  <2>7. CASE \E u : Set(a, With([q EXCEPT !.store = off(i)], i, u))
    BY <1>5, <2>2, <2>7
  <2> QED
    BY <1>1, <2>1, <2>4, <2>5, <2>6, <2>7
<1>8. j = i /\ reason(i) = "corrupt"
  BY <1>6, <1>7 DEF Condemns
<1>9. shard[i] # None /\ shard[i].kind \in {"body", "envelope"}
  BY <1>8 DEF reason, ReadFailure
<1> QED
  BY <1>8, <1>9 DEF Spared

\* No other step condemns a shard.
LEMMA CondemnsNone ==
    ASSUME Inv, NEW a \in Acquirers, NEW STATE r, Set(a, r),
           r.store.deleted \subseteq acquirer[a].store.deleted
    PROVE  \A b \in Acquirers : \A i : ~Condemns(b, i)
BY DEF Set, Inv, Condemns

\* All other steps condemn nothing.
LEMMA NoneCondemned ==
    ASSUME Inv, NEW a \in Acquirers,
           (AcquirerStep(a) /\ ~FoldUnit(a) /\ ~TakeRecords(a)) \/ Cancel(a) \/ Kill(a)
    PROVE  \A b \in Acquirers : \A i : ~Condemns(b, i)
<1> DEFINE q == acquirer[a]
<1>1. q \in Acquirer /\ q.store \in Store /\ Resting.store.deleted = {}
  BY DEF Inv, AcquirerOK, Acquirer, Resting, OpenedStore
<1>2. \A i, u : With(q, i, u).store = q.store
               /\ With([q EXCEPT !.store = Disabled(q.store)], i, u).store = Disabled(q.store)
  BY <1>1 DEF With, Acquirer
<1>3. /\ Disabled(q.store).deleted = q.store.deleted /\ OpenedStore(FALSE).deleted = {}
      /\ \A i : [q.store EXCEPT !.deleted = @ \ {i}].deleted \subseteq q.store.deleted
  BY <1>1 DEF Disabled, OpenedStore, Store
<1>4. CASE Begin(a)
  <2>1. PICK listing, unit :
            Set(a, [Resting EXCEPT !.step = "open", !.inventory = listing, !.unit = unit])
    BY <1>4 DEF Begin
  <2> DEFINE r == [Resting EXCEPT !.step = "open", !.inventory = listing, !.unit = unit]
  <2>2. r.store.deleted = {}
    BY DEF Resting, OpenedStore
  <2> HIDE DEF r
  <2> QED
    BY <2>1, <2>2, CondemnsNone DEF r
<1>5. CASE OpenStore(a)
  BY <1>1, <1>3, <1>5, CondemnsNone DEF OpenStore, Acquirer
<1>6. CASE PlanUnit(a)
  BY <1>1, <1>2, <1>3, <1>6, CondemnsNone DEF PlanUnit
<1>7. CASE EndPlanning(a) \/ NextBatch(a) \/ NextGroup(a) \/ StartFold(a) \/ EndBatch(a)
               \/ FinishAcquisition(a)
  <2>1. CASE EndPlanning(a)
    BY <1>1, <2>1, CondemnsNone DEF EndPlanning, Acquirer
  <2>2. CASE NextBatch(a)
    BY <1>1, <2>2, CondemnsNone DEF NextBatch, Acquirer
  <2>3. CASE NextGroup(a)
    BY <1>1, <2>3, CondemnsNone DEF NextGroup, Acquirer
  <2>4. CASE StartFold(a) \/ EndBatch(a) \/ FinishAcquisition(a)
    BY <1>1, <2>4, CondemnsNone DEF StartFold, EndBatch, FinishAcquisition, Acquirer
  <2> QED
    BY <1>7, <2>1, <2>2, <2>3, <2>4
<1>8. CASE ScanUnit(a) \/ ValidateUnit(a) \/ RecoverUnit(a)
  <2>1. PICK i, u : Set(a, With(q, i, u))
    BY <1>8 DEF ScanUnit, ValidateUnit, RecoverUnit
  <2> QED
    BY <1>2, <2>1, CondemnsNone
<1>9. CASE Unlink(a)
  BY <1>1, <1>3, <1>9, CondemnsNone DEF Unlink, Acquirer
<1>10. CASE Cancel(a)
  BY <1>1, <1>10, CondemnsNone DEF Cancel, Set, Acquirer
<1>11. CASE Abandon(a) \/ Kill(a)
  BY <1>1, <1>11, CondemnsNone DEF Abandon, Kill
<1> QED
  BY <1>4, <1>5, <1>6, <1>7, <1>8, <1>9, <1>10, <1>11 DEF AcquirerStep, Proceed

\* An acquisition only comes to unlink a shard it found corrupt or whose input it
\* could not read through (integrations/cache.rs:425 and 484-490).
THEOREM ReplacementsAreSpared == Spec => ReplacementSpared
<1> DEFINE Kept == \A a \in Acquirers :
                       \A i \in acquirer'[a].store.deleted \ acquirer[a].store.deleted :
                           \/ acquirer[a].unit[i].status = "partial"
                           \/ shard[i] # None /\ shard[i].kind \in {"body", "envelope"}
<1>1. Inv /\ [Next]_vars => [Kept]_vars
  <2> SUFFICES ASSUME Inv, Next, NEW b \in Acquirers, NEW i, Condemns(b, i)
               PROVE  Spared(b, i)
    BY DEF Condemns, Spared
  <2>1. CASE acquirer' = acquirer
    BY <2>1 DEF Condemns
  <2>2. ASSUME NEW a \in Acquirers, AcquirerStep(a) \/ Cancel(a) \/ Kill(a)
        PROVE  Spared(b, i)
    <3>1. CASE ~FoldUnit(a) /\ ~TakeRecords(a)
      BY <2>2, <3>1, NoneCondemned
    <3>2. CASE FoldUnit(a) \/ TakeRecords(a)
      <4>1. \E r : Set(a, r)
        BY <3>2 DEF FoldUnit, TakeRecords
      <4>2. b = a
        BY <4>1 DEF Set, Inv, Condemns
      <4> QED
        BY <3>2, <4>2, FoldSpares, TakeSpares
    <3> QED
      BY <3>1, <3>2
  <2>3. CASE PruneStep \/ \E j \in Discovered : Change(j) \/ Damage(j)
    <3>1. acquirer' = acquirer
      BY <2>3 DEF PruneStep, StartPrune, EndClassification, EndPrune, Classify, Prune, Acquiring,
                  Change, Damage
    <3> QED
      BY <2>1, <3>1
  <2>4. setting.users \subseteq Acquirers
    BY ShardAssumption DEF Inv, WorldOK
  <2> QED
    BY <2>2, <2>3, <2>4 DEF Next
<1> QED
  BY <1>1, ShardInvariant, PTL DEF Spec, ReplacementSpared

-----------------------------------------------------------------------------
(* The cache is invisible.                                                 *)

\* The parts of what an acquisition tells.
Telling(q) ==
    q = [phase |-> q.phase, cancelled |-> q.cancelled, inventory |-> q.inventory,
         unreadable |-> q.unreadable, report |-> q.report]

\* An answer has these parts.
LEMMA AnswerTelling == \A q : Telling(Answer(q))
BY DEF Telling, Answer

\* What one acquisition tells goes on, or stays, while the inputs stay.
LEMMA AnswerStep ==
    ASSUME Inv, NEW a \in Acquirers, NEW STATE r, Set(a, r), UNCHANGED <<version, present>>,
           \/ Answer(r) = Answer(acquirer[a])
           \/ Cacheless!Step(Answer(acquirer[a]), Answer(r))
    PROVE  [Cacheless!Next]_Cacheless!vars
<1> DEFINE told == [b \in Acquirers |-> Answer(acquirer[b])]
<1>1. acquirer'[a] = r /\ \A b \in Acquirers \ {a} : acquirer'[b] = acquirer[b]
  BY DEF Set, Inv
<1>2. \A b \in Acquirers : Answer(acquirer[b])' = Answer(acquirer'[b])
  BY DEF Answer
<1>3. told' = [b \in Acquirers |-> IF b = a THEN Answer(r) ELSE Answer(acquirer[b])]
  BY <1>1, <1>2
<1>4. told'[a] = Answer(r) /\ told[a] = Answer(acquirer[a])
  BY <1>3
<1> HIDE DEF told
<1>5. told' = [told EXCEPT ![a] = told'[a]]
  BY <1>3, <1>4 DEF told
<1>6. CASE Answer(r) = Answer(acquirer[a])
  <2>1. told' = told
    BY <1>3, <1>6 DEF told
  <2> QED
    BY <2>1 DEF Cacheless!vars, told
<1>7. CASE Cacheless!Step(Answer(acquirer[a]), Answer(r))
  <2>1. Cacheless!Step(told[a], told'[a])
    BY <1>4, <1>7
  <2> QED
    BY <1>5, <2>1 DEF Cacheless!Next, told
<1> QED
  BY <1>6, <1>7

\* An acquisition goes on without a word.
LEMMA Silent ==
    ASSUME Inv, NEW a \in Acquirers, NEW STATE r, Set(a, r), UNCHANGED <<version, present>>,
           acquirer[a].step \notin {"idle", "done", "broken"},
           r.step \notin {"idle", "done", "broken"},
           r.cancelled = acquirer[a].cancelled, r.inventory = acquirer[a].inventory,
           r.unit = acquirer[a].unit
    PROVE  [Cacheless!Next]_Cacheless!vars
<1>1. Answer(r) = Answer(acquirer[a])
  BY DEF Answer
<1> QED
  BY <1>1, AnswerStep

\* A unit that is not folded says nothing, except that its input cannot be read.
LEMMA UnitSilent ==
    ASSUME Inv, NEW a \in Acquirers, NEW i \in Inputs, NEW STATE u, u \in Unit, NEW STATE r,
           Set(a, r), UNCHANGED <<version, present>>,
           acquirer[a].step \notin {"idle", "done", "broken"}, r.step = acquirer[a].step,
           r.cancelled = acquirer[a].cancelled, r.inventory = acquirer[a].inventory,
           r.unit = [acquirer[a].unit EXCEPT ![i] = u],
           u.stage # "folded", acquirer[a].unit[i].stage # "folded",
           u.failed \/ u.failed = acquirer[a].unit[i].failed
    PROVE  [Cacheless!Next]_Cacheless!vars
<1> DEFINE q == acquirer[a]
<1>1. q \in Acquirer /\ q.unit \in [Inputs -> Unit]
  BY DEF Inv, AcquirerOK, Acquirer
<1>2. \A j \in Inputs : r.unit[j] = IF j = i THEN u ELSE q.unit[j]
  BY <1>1
<1>3. \A j \in Inputs : ReportOf(r.unit[j]) = ReportOf(q.unit[j])
  BY <1>2 DEF ReportOf
<1>4. /\ Answer(r).phase = "running" /\ Answer(q).phase = "running"
      /\ Answer(r).report = Answer(q).report
  BY <1>3 DEF Answer
<1>5. CASE u.failed = q.unit[i].failed
  <2>1. {j \in Inputs : r.unit[j].failed} = {j \in Inputs : q.unit[j].failed}
    BY <1>2, <1>5
  <2>2. Answer(r) = Answer(q)
    BY <1>3, <2>1 DEF Answer
  <2> QED
    BY <2>2, AnswerStep
<1>6. CASE u.failed
  <2>1. {j \in Inputs : r.unit[j].failed} = {j \in Inputs : q.unit[j].failed} \cup {i}
    BY <1>2, <1>6
  <2>2. Answer(r) = [Answer(q) EXCEPT !.unreadable = @ \cup {i}]
    <3>1. /\ Answer(r).unreadable = Answer(q).unreadable \cup {i}
          /\ Answer(r).phase = Answer(q).phase /\ Answer(r).report = Answer(q).report
          /\ Answer(r).cancelled = Answer(q).cancelled
          /\ Answer(r).inventory = Answer(q).inventory
      BY <1>4, <2>1 DEF Answer
    <3>2. \A s, t : /\ Telling(s) /\ Telling(t)
                    /\ t.unreadable = s.unreadable \cup {i}
                    /\ t.phase = s.phase /\ t.cancelled = s.cancelled
                    /\ t.inventory = s.inventory /\ t.report = s.report
                    => t = [s EXCEPT !.unreadable = @ \cup {i}]
      BY DEF Telling
    <3> QED
      BY <3>1, <3>2, AnswerTelling
  <2>3. Cacheless!Fail(Answer(q), Answer(r))
    BY <1>4, <2>2 DEF Cacheless!Fail
  <2> QED
    BY <2>3, AnswerStep DEF Cacheless!Step
<1> QED
  BY <1>5, <1>6

\* The same, however the store and the diagnostics change.
LEMMA MovedSilent ==
    ASSUME Inv, NEW a \in Acquirers, NEW i \in Inputs, NEW STATE u, u \in Unit,
           NEW STATE store, NEW STATE diagnosed,
           Set(a, Moved(acquirer[a], i, u, store, diagnosed)), UNCHANGED <<version, present>>,
           acquirer[a].step \notin {"idle", "done", "broken"},
           u.stage # "folded", acquirer[a].unit[i].stage # "folded",
           u.failed \/ u.failed = acquirer[a].unit[i].failed
    PROVE  [Cacheless!Next]_Cacheless!vars
<1> DEFINE q == acquirer[a]
           r == Moved(q, i, u, store, diagnosed)
<1>1. q \in Acquirer
  BY DEF Inv, AcquirerOK
<1>2. /\ r.step = q.step /\ r.cancelled = q.cancelled /\ r.inventory = q.inventory
      /\ r.unit = [q.unit EXCEPT ![i] = u]
  BY <1>1 DEF Moved, Acquirer
<1>3. Set(a, r)
  OBVIOUS
<1> HIDE DEF r
<1> QED
  BY <1>2, <1>3, UnitSilent

\* Whether a unit is planned as a hit or a miss is told to no one.
LEMMA PlanUnitTells ==
    ASSUME Inv, NEW a \in Acquirers, PlanUnit(a) PROVE [Cacheless!Next]_Cacheless!vars
<1> DEFINE q == acquirer[a]
<1>1. WorldOK /\ AcquirerOK(q) /\ q \in Acquirer /\ q.step = "plan" /\ q.store \in Store
  BY DEF Inv, AcquirerOK, PlanUnit, Acquirer
<1>2. PICK n \in GroupUnits(q) :
          LET i == InputAt(q, n)
          IN  /\ q.unit[i].stage = "prepared"
              /\ \/ Set(a, With(q, i, Plan(q, i)))
                 \/ LET off == [q EXCEPT !.store = Disabled(@)]
                    IN  Set(a, With(off, i, Plan(off, i)))
  BY DEF PlanUnit
<1> DEFINE i == InputAt(q, n)
           off == [q EXCEPT !.store = Disabled(q.store)]
<1>3. i \in Inputs
  BY <1>1, GroupType DEF AcquirerOK, CourseOK, Acquires
<1>4. q.unit[i] \in Unit /\ off.unit = q.unit
  BY <1>1, <1>3 DEF Acquirer
<1>5. \A u \in {Plan(q, i), Plan(off, i)} :
          u \in Unit /\ u.stage # "folded" /\ u.failed = q.unit[i].failed
  <2>1. \A u \in {[q.unit[i] EXCEPT !.stage = "miss", !.origin = "bypass"],
                  [q.unit[i] EXCEPT !.stage = "hit", !.origin = "shard"],
                  [q.unit[i] EXCEPT !.stage = "miss"]} :
            u \in Unit /\ u.stage # "folded" /\ u.failed = q.unit[i].failed
    BY <1>4 DEF Unit
  <2>2. \A v : v.unit = q.unit =>
            Plan(v, i) \in {[q.unit[i] EXCEPT !.stage = "miss", !.origin = "bypass"],
                           [q.unit[i] EXCEPT !.stage = "hit", !.origin = "shard"],
                           [q.unit[i] EXCEPT !.stage = "miss"]}
    BY DEF Plan
  <2> QED
    BY <1>4, <2>1, <2>2
<1>6. \/ Set(a, Moved(q, i, Plan(q, i), q.store, q.diagnosed))
      \/ Set(a, Moved(q, i, Plan(off, i), Disabled(q.store), q.diagnosed))
  BY <1>1, <1>2, <1>3, MovedIs
<1>7. UNCHANGED <<version, present>>
  BY DEF PlanUnit, InputsAndPrune
<1> QED
  BY <1>1, <1>2, <1>3, <1>5, <1>6, <1>7, MovedSilent

\* Scanning, validating and recovering a unit only tell that its input cannot be read.
LEMMA ReadsTell ==
    ASSUME Inv, NEW a \in Acquirers, ScanUnit(a) \/ ValidateUnit(a) \/ RecoverUnit(a)
    PROVE  [Cacheless!Next]_Cacheless!vars
<1> DEFINE q == acquirer[a]
<1>1. q \in Acquirer /\ WorldOK
  BY DEF Inv, AcquirerOK
<1>2. PICK i, u :
          /\ i \in Inputs
          /\ Set(a, With(q, i, u)) /\ q.step \in {"parse", "fold"}
          /\ q.unit[i].stage # "folded"
          /\ u \in Unit /\ u.stage # "folded"
          /\ u.failed \/ u.failed = q.unit[i].failed
  <2>1. ASSUME NEW i \in Inputs
        PROVE  /\ q.unit[i] \in Unit /\ version[i] \in Versions
    BY <1>1 DEF Acquirer, WorldOK
  <2>2. CASE ScanUnit(a)
    <3>1. PICK i \in Inputs :
              LET u == q.unit[i]
                  scanned == [u EXCEPT !.stage = "read", !.records = version[i]]
                  unavailable == [u EXCEPT !.stage = "ready", !.status = "unavailable"]
              IN  /\ Scanning(q, i, "miss")
                  /\ \E v \in {unavailable, scanned, [unavailable EXCEPT !.failed = TRUE],
                               [scanned EXCEPT !.status = "partial", !.failed = TRUE]} :
                         Set(a, With(q, i, v))
      BY <2>2 DEF ScanUnit
    <3> DEFINE u == q.unit[i]
               scanned == [u EXCEPT !.stage = "read", !.records = version[i]]
               unavailable == [u EXCEPT !.stage = "ready", !.status = "unavailable"]
    <3>2. \A v \in {unavailable, scanned, [unavailable EXCEPT !.failed = TRUE],
                    [scanned EXCEPT !.status = "partial", !.failed = TRUE]} :
              v \in Unit /\ v.stage # "folded" /\ (v.failed \/ v.failed = u.failed)
      BY <2>1 DEF Unit, Statuses
    <3> QED
      BY <3>1, <3>2 DEF Scanning
  <2>3. CASE ValidateUnit(a)
    <3>1. PICK i \in Inputs :
              LET u == q.unit[i]
              IN  /\ Scanning(q, i, "read")
                  /\ \E v \in {Validated(u, i), [Scanned(u, i) EXCEPT !.status = "partial",
                                                                !.failed = TRUE]} :
                         Set(a, With(q, i, v))
      BY <2>3 DEF ValidateUnit
    <3> DEFINE u == q.unit[i]
    <3>2. /\ Scanned(u, i) \in Unit /\ Scanned(u, i).stage = "ready"
          /\ Scanned(u, i).failed = u.failed
      BY <2>1 DEF Scanned, Unit
    <3>3. \A v \in {Validated(u, i), [Scanned(u, i) EXCEPT !.status = "partial",
                                                            !.failed = TRUE]} :
              v \in Unit /\ v.stage # "folded" /\ (v.failed \/ v.failed = u.failed)
      BY <3>2 DEF Validated, Unit, Statuses
    <3> QED
      BY <3>1, <3>3 DEF Scanning
  <2>4. CASE RecoverUnit(a)
    <3>1. PICK i \in Inputs :
              LET u == q.unit[i]
                  unavailable == [u EXCEPT !.stage = "ready", !.status = "unavailable"]
              IN  /\ Folding(q, i, "recover")
                  /\ \E v \in {[u EXCEPT !.stage = "miss", !.snapshot = version[i]],
                               unavailable, [unavailable EXCEPT !.failed = TRUE]} :
                         Set(a, With(q, i, v))
      BY <2>4 DEF RecoverUnit
    <3> DEFINE u == q.unit[i]
               unavailable == [u EXCEPT !.stage = "ready", !.status = "unavailable"]
    <3>2. \A v \in {[u EXCEPT !.stage = "miss", !.snapshot = version[i]],
                    unavailable, [unavailable EXCEPT !.failed = TRUE]} :
              v \in Unit /\ v.stage # "folded" /\ (v.failed \/ v.failed = u.failed)
      BY <2>1 DEF Unit, Statuses
    <3> QED
      BY <3>1, <3>2 DEF Folding
  <2> QED
    BY <2>2, <2>3, <2>4
<1>3. Set(a, Moved(q, i, u, q.store, q.diagnosed))
  BY <1>1, <1>2, MovedIs
<1>4. UNCHANGED <<version, present>>
  BY DEF ScanUnit, ValidateUnit, RecoverUnit, InputsAndPrune
<1> QED
  BY <1>2, <1>3, <1>4, MovedSilent

\* Going on from step to step tells nothing, and neither does unlinking a shard.
LEMMA CourseTells ==
    ASSUME Inv, NEW a \in Acquirers,
           \/ OpenStore(a) \/ EndPlanning(a) \/ NextBatch(a) \/ NextGroup(a)
           \/ StartFold(a) \/ EndBatch(a) \/ Unlink(a)
    PROVE  [Cacheless!Next]_Cacheless!vars
<1> DEFINE q == acquirer[a]
<1>1. q \in Acquirer
  BY DEF Inv, AcquirerOK
<1>2. UNCHANGED <<version, present>>
  BY DEF OpenStore, EndPlanning, NextBatch, NextGroup, StartFold, EndBatch, Unlink,
         InputsAndPrune
<1>3. CASE OpenStore(a)
  <2>1. PICK store : Set(a, [q EXCEPT !.step = "plan", !.store = store])
    <3>1. [q EXCEPT !.step = "plan"] = [q EXCEPT !.step = "plan", !.store = q.store]
      BY <1>1 DEF Acquirer
    <3> QED
      BY <1>3, <3>1 DEF OpenStore
  <2> DEFINE r == [q EXCEPT !.step = "plan", !.store = store]
  <2>2. /\ r.step = "plan" /\ r.cancelled = q.cancelled /\ r.inventory = q.inventory
        /\ r.unit = q.unit
    BY <1>1 DEF Acquirer
  <2> HIDE DEF r
  <2> QED
    BY <1>2, <1>3, <2>1, <2>2, Silent DEF OpenStore, r
<1>4. CASE EndPlanning(a)
  BY <1>1, <1>2, <1>4, Silent DEF EndPlanning, Acquirer
<1>5. CASE NextBatch(a)
  BY <1>1, <1>2, <1>5, Silent DEF NextBatch, Acquirer
<1>6. CASE NextGroup(a)
  BY <1>1, <1>2, <1>6, Silent DEF NextGroup, Acquirer
<1>7. CASE StartFold(a)
  BY <1>1, <1>2, <1>7, Silent DEF StartFold, Acquirer
<1>8. CASE EndBatch(a)
  BY <1>1, <1>2, <1>8, Silent DEF EndBatch, Acquirer
<1>9. CASE Unlink(a)
  BY <1>1, <1>2, <1>9, Silent DEF Unlink, Acquirer
<1> QED
  BY <1>3, <1>4, <1>5, <1>6, <1>7, <1>8, <1>9

\* A shard that fails its unit is no one's business.
LEMMA TakeRecordsTells ==
    ASSUME Inv, NEW a \in Acquirers, TakeRecords(a) PROVE [Cacheless!Next]_Cacheless!vars
<1> DEFINE q == acquirer[a]
<1>1. AcquirerOK(q) /\ q \in Acquirer /\ ShardsOK
  BY DEF Inv, AcquirerOK
<1>2. PICK i \in Inputs :
          LET u == q.unit[i]
              reason == ReadFailure(i, u.snapshot)
          IN  /\ Folding(q, i, "hit")
              /\ \/ Set(a, With([q EXCEPT !.store = InvalidateRead(@, i)], i,
                                Recovering(u, "disabled")))
                 \/ i \in q.store.deleted \cup q.store.taken
                 \/ /\ reason = "none"
                    /\ Set(a, With([q EXCEPT !.store.taken = @ \cup {i}], i,
                                   [u EXCEPT !.stage = "ready",
                                             !.records = shard[i].records]))
                 \/ Set(a, With([q EXCEPT !.store = AfterFailure(@, i, reason),
                                          !.diagnosed = @ \cup {i}], i,
                                Recovering(u, reason)))
                 \/ Set(a, With([q EXCEPT !.store = InvalidateRead(Protect(Disabled(@), i), i)],
                                i, Recovering(u, "disabled")))
  BY DEF TakeRecords
<1> DEFINE u == q.unit[i]
           reason == ReadFailure(i, u.snapshot)
           read == [u EXCEPT !.stage = "ready", !.records = shard[i].records]
<1>3. u \in Unit /\ u.stage = "hit" /\ q.step = "fold"
      /\ i \notin q.store.deleted \cup q.store.taken
  BY <1>1, <1>2 DEF AcquirerOK, Acquirer, Folding, StoreOK
<1>4. \A r : Recovering(u, r) \in Unit /\ Recovering(u, r).stage = "recover"
                 /\ Recovering(u, r).failed = u.failed
  <2>1. \A r : (u.removal \/ r \in RequiresRemoval) \in BOOLEAN
    OBVIOUS
  <2> QED
    BY <1>3, <2>1 DEF Recovering, Unit
<1>5. reason = "none" => read \in Unit /\ read.stage = "ready" /\ read.failed = u.failed
  <2>1. reason = "none" => shard[i] # None
    BY DEF ReadFailure
  <2>2. reason = "none" => shard[i].records \in Versions \cup {None}
    BY <1>1, <2>1 DEF ShardsOK, Shard
  <2> QED
    BY <1>3, <2>2 DEF Unit
<1>6. PICK v, store, diagnosed :
          /\ Set(a, Moved(q, i, v, store, diagnosed))
          /\ v \in Unit /\ v.stage # "folded" /\ v.failed = u.failed
  <2>1. ASSUME NEW s, NEW w, Set(a, With([q EXCEPT !.store = s], i, w))
        PROVE  Set(a, Moved(q, i, w, s, q.diagnosed))
    <3>1. With([q EXCEPT !.store = s], i, w) = Moved(q, i, w, s, q.diagnosed)
      BY <1>1, MovedIs
    <3> QED
      BY <2>1, <3>1
  <2>2. ASSUME NEW s, NEW d, NEW w, Set(a, With([q EXCEPT !.store = s, !.diagnosed = d], i, w))
        PROVE  Set(a, Moved(q, i, w, s, d))
    <3> DEFINE r == With([q EXCEPT !.store = s, !.diagnosed = d], i, w)
    <3>1. r = Moved(q, i, w, s, d)
      BY <1>1 DEF With, Moved, Acquirer
    <3>2. Set(a, r)
      BY <2>2
    <3> HIDE DEF r
    <3> QED
      BY <3>1, <3>2
  <2>3. CASE Set(a, With([q EXCEPT !.store = InvalidateRead(@, i)], i, Recovering(u, "disabled")))
    BY <1>4, <2>1, <2>3
  <2>4. CASE reason = "none" /\ Set(a, With([q EXCEPT !.store.taken = @ \cup {i}], i, read))
    BY <1>5, <2>1, <2>4
  <2>5. CASE Set(a, With([q EXCEPT !.store = AfterFailure(@, i, reason),
                                   !.diagnosed = @ \cup {i}], i, Recovering(u, reason)))
    <3>1. Set(a, Moved(q, i, Recovering(u, reason), AfterFailure(q.store, i, reason),
                       q.diagnosed \cup {i}))
      BY <2>2, <2>5
    <3> QED
      BY <1>4, <3>1
  <2>6. CASE Set(a, With([q EXCEPT !.store = InvalidateRead(Protect(Disabled(@), i), i)], i,
                         Recovering(u, "disabled")))
    BY <1>4, <2>1, <2>6
  <2> QED
    BY <1>2, <1>3, <2>3, <2>4, <2>5, <2>6
<1>7. UNCHANGED <<version, present>>
  BY DEF TakeRecords, InputsAndPrune
<1> QED
  BY <1>3, <1>6, <1>7, MovedSilent

\* An inventory is what it would be without a cache.
LEMMA BeginTells ==
    ASSUME Inv, NEW a \in Acquirers, Begin(a) PROVE [Cacheless!Next]_Cacheless!vars
<1>1. PICK unread \in SUBSET Inputs :
          LET found == {i \in Inputs : present[i]} \ unread
              snapshot(i) == IF i \in found THEN version[i] ELSE None
          IN  Set(a, [Resting EXCEPT
                     !.step = "open",
                     !.inventory = [i \in Inputs |-> snapshot(i)],
                     !.unit = [i \in Inputs |-> [NewUnit EXCEPT
                         !.snapshot = snapshot(i), !.failed = i \in unread]]])
  BY DEF Begin
<1> DEFINE q == acquirer[a]
           snapshot(i) == IF i \in {j \in Inputs : present[j]} \ unread
                          THEN version[i] ELSE None
           listing == [i \in Inputs |-> snapshot(i)]
           unit == [i \in Inputs |-> [NewUnit EXCEPT !.snapshot = snapshot(i),
                                                     !.failed = i \in unread]]
           r == [Resting EXCEPT !.step = "open", !.inventory = listing, !.unit = unit]
<1>2. listing = Cacheless!Inventory(unread)
  BY DEF Cacheless!Inventory
<1>3. \A i \in Inputs : unit[i].stage = "prepared" /\ unit[i].failed = (i \in unread)
  BY DEF NewUnit
<1> HIDE DEF listing, unit
<1>4. /\ r.step = "open" /\ ~r.cancelled /\ r.cancelled = FALSE /\ r.inventory = listing
      /\ r.unit = unit
  BY DEF Resting
<1> HIDE DEF r
<1>5. /\ {i \in Inputs : r.unit[i].failed} = unread
      /\ [i \in Inputs |-> ReportOf(r.unit[i])] = [i \in Inputs |-> None]
  BY <1>3, <1>4 DEF ReportOf
<1>6. Answer(r) = [phase |-> "running", cancelled |-> FALSE, inventory |-> listing,
                   unreadable |-> unread, report |-> [i \in Inputs |-> None]]
  BY <1>4, <1>5 DEF Answer
<1>7. Answer(r) = [Cacheless!Idle EXCEPT !.phase = "running",
                       !.inventory = Cacheless!Inventory(unread), !.unreadable = unread]
  <2>1. Telling(Cacheless!Idle) /\ Telling(Answer(r))
    BY AnswerTelling DEF Cacheless!Idle, Telling
  <2>2. Answer(r).cancelled = Cacheless!Idle.cancelled /\ Answer(r).report = Cacheless!Idle.report
    BY <1>6 DEF Cacheless!Idle
  <2>3. /\ Answer(r).phase = "running" /\ Answer(r).inventory = Cacheless!Inventory(unread)
        /\ Answer(r).unreadable = unread
    BY <1>2, <1>6
  <2>4. \A s, t : /\ Telling(s) /\ Telling(t) /\ t.cancelled = s.cancelled /\ t.report = s.report
                 /\ t.phase = "running" /\ t.inventory = Cacheless!Inventory(unread)
                 /\ t.unreadable = unread
                 => t = [s EXCEPT !.phase = "running",
                             !.inventory = Cacheless!Inventory(unread), !.unreadable = unread]
    BY DEF Telling
  <2> QED
    BY <2>1, <2>2, <2>3, <2>4
<1>8. Answer(q).phase # "running"
  BY DEF Answer, Begin
<1>9. Cacheless!Begin(Answer(q), Answer(r))
  BY <1>6, <1>7, <1>8 DEF Cacheless!Begin
<1>10. Set(a, r) /\ UNCHANGED <<version, present>>
  BY <1>1 DEF r, listing, unit, Begin, InputsAndPrune
<1> QED
  BY <1>9, <1>10, AnswerStep DEF Cacheless!Step

\* Folding a unit is what tells of its input.
LEMMA FoldUnitTells ==
    ASSUME Inv, NEW a \in Acquirers, FoldUnit(a) PROVE [Cacheless!Next]_Cacheless!vars
<1> DEFINE q == acquirer[a]
<1>0. PICK i \in Inputs :
          \E store : /\ Folding(q, i, "ready")
                     /\ Set(a, Folded([q EXCEPT !.store = store], i))
  BY DEF FoldUnit
<1>1. PICK store :
          /\ Folding(q, i, "ready")
          /\ Set(a, Folded([q EXCEPT !.store = store], i))
  BY <1>0
<1> DEFINE u == q.unit[i]
           v == [u EXCEPT !.stage = "folded"]
           r == Folded([q EXCEPT !.store = store], i)
<1>2. WorldOK /\ AcquirerOK(q) /\ q \in Acquirer /\ q.step = "fold"
  BY <1>1 DEF Inv, AcquirerOK, Folding
<1>3. /\ q.inventory[i] \in Versions /\ u.stage = "ready" /\ u \in Unit
      /\ version[i] \in Versions
      /\ UnitOK(u, q.inventory[i], version[i], present[i], q.cancelled)
  BY <1>1, <1>2 DEF Folding, Acquirer, AcquirerOK, UnitOK, WorldOK
<1>4. v \in Unit /\ v.stage = "folded" /\ v.failed = u.failed /\ v.status = u.status
      /\ v.records = u.records
  BY <1>3 DEF Unit
<1>5. /\ r.step = "fold" /\ r.cancelled = q.cancelled /\ r.inventory = q.inventory
      /\ r.unit = [q.unit EXCEPT ![i] = v]
  BY <1>2 DEF Folded, Acquirer
<1>6. q.unit \in [Inputs -> Unit]
  BY <1>2 DEF Acquirer
<1> HIDE DEF r, v
<1>7. \A j \in Inputs : r.unit[j] = IF j = i THEN v ELSE q.unit[j]
  BY <1>5, <1>6
<1> DEFINE report == [status |-> u.status,
                      records |-> IF u.status = "complete" THEN u.records ELSE None]
<1>8. ReportOf(v) = report /\ ReportOf(u) = None
  BY <1>3, <1>4 DEF ReportOf
<1>9. report \in Cacheless!Reportable(Answer(q), i)
  <2>1. /\ Answer(q).inventory = q.inventory /\ Answer(q).cancelled = q.cancelled
        /\ u.failed => i \in Answer(q).unreadable
    BY DEF Answer
  <2>2. CASE u.status = "complete"
    <3>1. u.records # None /\ q.inventory[i] <= u.records /\ u.records <= version[i]
      BY <1>3, <2>2, ShardAssumption DEF UnitOK
    <3>2. /\ u.records \in Nat /\ q.inventory[i] \in Nat /\ version[i] \in Nat
      BY <1>3, <3>1, UnitType, ShardAssumption DEF Versions
    <3>3. u.records \in q.inventory[i] .. version[i]
      BY <3>1, <3>2
    <3>4. report = [status |-> "complete", records |-> u.records]
      BY <2>2
    <3> QED
      BY <2>1, <3>3, <3>4 DEF Cacheless!Reportable
  <2>3. CASE u.status # "complete"
    <3>1. u.failed \/ q.cancelled \/ version[i] # q.inventory[i]
      BY <1>3, <2>3 DEF UnitOK
    <3>2. u.status \in {"partial", "unavailable"}
      BY <1>3, <2>3, UnitType DEF Statuses
    <3>3. report = [status |-> u.status, records |-> None]
      BY <2>3
    <3> HIDE DEF report
    <3> QED
      BY <2>1, <3>1, <3>2, <3>3 DEF Cacheless!Reportable
  <2> QED
    BY <2>2, <2>3
<1> HIDE DEF report
<1>10. {j \in Inputs : r.unit[j].failed} = {j \in Inputs : q.unit[j].failed}
  BY <1>4, <1>7
<1>11. [j \in Inputs |-> ReportOf(r.unit[j])]
           = [[j \in Inputs |-> ReportOf(q.unit[j])] EXCEPT ![i] = report]
  BY <1>7, <1>8
<1>12. Answer(r) = [Answer(q) EXCEPT !.report[i] = report]
  <2>1. Answer(q).report = [j \in Inputs |-> ReportOf(q.unit[j])]
    BY DEF Answer
  <2>2. Answer(r) = [phase |-> "running", cancelled |-> q.cancelled, inventory |-> q.inventory,
                     unreadable |-> {j \in Inputs : q.unit[j].failed},
                     report |-> [Answer(q).report EXCEPT ![i] = report]]
    BY <1>5, <1>10, <1>11, <2>1 DEF Answer
  <2>3. Answer(q) = [phase |-> "running", cancelled |-> q.cancelled, inventory |-> q.inventory,
                     unreadable |-> {j \in Inputs : q.unit[j].failed},
                     report |-> Answer(q).report]
    BY <1>2, <2>1 DEF Answer
  <2>4. /\ Answer(r).phase = Answer(q).phase /\ Answer(r).cancelled = Answer(q).cancelled
        /\ Answer(r).inventory = Answer(q).inventory
        /\ Answer(r).unreadable = Answer(q).unreadable
        /\ Answer(r).report = [Answer(q).report EXCEPT ![i] = report]
    BY <2>2, <2>3
  <2>5. \A s, t : /\ Telling(s) /\ Telling(t)
                  /\ t.report = [s.report EXCEPT ![i] = report]
                  /\ t.phase = s.phase /\ t.cancelled = s.cancelled
                  /\ t.inventory = s.inventory /\ t.unreadable = s.unreadable
                  => t = [s EXCEPT !.report[i] = report]
    BY DEF Telling
  <2> QED
    BY <2>4, <2>5, AnswerTelling
<1>13. Answer(r).report[i] = report /\ Answer(q).report[i] = None
       /\ Answer(q).inventory[i] # None /\ Answer(q).phase = "running"
  BY <1>2, <1>3, <1>7, <1>8, ShardAssumption DEF Answer
<1>14. Cacheless!Tell(Answer(q), Answer(r))
  BY <1>9, <1>12, <1>13 DEF Cacheless!Tell
<1>15. Set(a, r) /\ UNCHANGED <<version, present>>
  BY <1>1 DEF r, FoldUnit, InputsAndPrune
<1> QED
  BY <1>14, <1>15, AnswerStep DEF Cacheless!Step

\* An acquisition ends when every input of its inventory has been told of.
LEMMA FinishTells ==
    ASSUME Inv, NEW a \in Acquirers, FinishAcquisition(a)
    PROVE  [Cacheless!Next]_Cacheless!vars
<1> DEFINE q == acquirer[a]
           r == [q EXCEPT !.step = "done"]
<1>1. AcquirerOK(q) /\ q \in Acquirer /\ CourseOK(q) /\ q.step = "save"
  BY DEF Inv, AcquirerOK, FinishAcquisition
<1>2. /\ r.step = "done" /\ r.cancelled = q.cancelled /\ r.inventory = q.inventory
      /\ r.unit = q.unit
  BY <1>1 DEF Acquirer
<1>3. Set(a, r) /\ UNCHANGED <<version, present>>
  BY DEF FinishAcquisition, InputsAndPrune
<1> HIDE DEF r
<1>4. Answer(r) = [Answer(q) EXCEPT !.phase = "done"]
  <2>1. /\ Answer(r).phase = "done" /\ Answer(r).cancelled = Answer(q).cancelled
        /\ Answer(r).inventory = Answer(q).inventory
        /\ Answer(r).unreadable = Answer(q).unreadable /\ Answer(r).report = Answer(q).report
    BY <1>1, <1>2 DEF Answer
  <2>2. \A s, t : /\ Telling(s) /\ Telling(t)
                  /\ t.phase = "done"
                  /\ t.cancelled = s.cancelled /\ t.inventory = s.inventory
                  /\ t.unreadable = s.unreadable /\ t.report = s.report
                  => t = [s EXCEPT !.phase = "done"]
    BY DEF Telling
  <2> QED
    BY <2>1, <2>2, AnswerTelling
<1>5. /\ ~Answer(q).cancelled /\ Answer(q).phase = "running"
      /\ Answer(q).inventory = q.inventory
  BY <1>1 DEF CourseOK, Answer
<1>6. ASSUME NEW i \in Inputs, q.inventory[i] # None
      PROVE  Answer(q).report[i] # None
  <2>1. q.unit[i].stage = "folded" /\ q.unit[i] \in Unit
    BY <1>1, <1>6 DEF CourseOK, Acquirer
  <2>2. ReportOf(q.unit[i]) \in [status : Statuses, records : Versions \cup {None}]
    BY <2>1, UnitType DEF ReportOf
  <2> QED
    BY <2>2, ShardAssumption DEF Answer
<1>7. Cacheless!Finish(Answer(q), Answer(r))
  BY <1>4, <1>5, <1>6 DEF Cacheless!Finish
<1> QED
  BY <1>3, <1>7, AnswerStep DEF Cacheless!Step

\* A cancellation is told as it happens.
LEMMA CancelTells ==
    ASSUME Inv, NEW a \in Acquirers, Cancel(a) PROVE [Cacheless!Next]_Cacheless!vars
<1> DEFINE q == acquirer[a]
           r == [q EXCEPT !.cancelled = TRUE]
<1>1. q \in Acquirer
  BY DEF Inv, AcquirerOK
<1>2. /\ r.step = q.step /\ r.cancelled = TRUE /\ r.inventory = q.inventory
      /\ r.unit = q.unit
  BY <1>1 DEF Acquirer
<1>3. Set(a, r) /\ UNCHANGED <<version, present>> /\ q.step \notin {"idle", "done", "broken"}
  BY DEF Cancel, Set
<1> HIDE DEF r
<1>4. Answer(r) = [Answer(q) EXCEPT !.cancelled = TRUE] /\ Answer(q).phase = "running"
  <2>1. /\ Answer(r).phase = Answer(q).phase /\ Answer(r).cancelled = TRUE
        /\ Answer(r).inventory = Answer(q).inventory
        /\ Answer(r).unreadable = Answer(q).unreadable /\ Answer(r).report = Answer(q).report
    BY <1>2, <1>3 DEF Answer
  <2>2. Answer(q).phase = "running"
    BY <1>3 DEF Answer
  <2>3. \A s, t : /\ Telling(s) /\ Telling(t)
                  /\ t.cancelled = TRUE
                  /\ t.phase = s.phase /\ t.inventory = s.inventory
                  /\ t.unreadable = s.unreadable /\ t.report = s.report
                  => t = [s EXCEPT !.cancelled = TRUE]
    BY DEF Telling
  <2> QED
    BY <2>1, <2>2, <2>3, AnswerTelling
<1>5. Cacheless!Cancel(Answer(q), Answer(r))
  BY <1>4 DEF Cacheless!Cancel
<1> QED
  BY <1>3, <1>5, AnswerStep DEF Cacheless!Step

\* An acquisition that is abandoned or killed is forgotten.
LEMMA StopTells ==
    ASSUME Inv, NEW a \in Acquirers, Abandon(a) \/ Kill(a)
    PROVE  [Cacheless!Next]_Cacheless!vars
<1>1. Answer(Resting) = Cacheless!Idle
  <2>1. /\ {i \in Inputs : Resting.unit[i].failed} = {}
        /\ [i \in Inputs |-> ReportOf(Resting.unit[i])] = [i \in Inputs |-> None]
    BY DEF Resting, NewUnit, ReportOf
  <2>2. /\ Resting.step = "idle" /\ Resting.cancelled = FALSE
        /\ Resting.inventory = [i \in Inputs |-> None]
    BY DEF Resting
  <2> QED
    BY <2>1, <2>2 DEF Answer, Cacheless!Idle
<1>2. acquirer[a].step \notin {"idle", "done", "broken"}
  BY DEF Abandon, Kill, Inv, AcquirerOK, CourseOK
<1>3. Answer(acquirer[a]).phase = "running"
  BY <1>2 DEF Answer
<1>4. Cacheless!Abandon(Answer(acquirer[a]), Answer(Resting))
  BY <1>1, <1>3 DEF Cacheless!Abandon
<1>5. Set(a, Resting) /\ UNCHANGED <<version, present>>
  BY DEF Abandon, Kill, InputsAndPrune
<1> QED
  BY <1>4, <1>5, AnswerStep DEF Cacheless!Step

\* The cache is invisible: every behaviour of acquisitions that share shards without
\* a lock is one of acquisitions that read every input themselves (README.md:57).
THEOREM CacheIsNoticedByNone == Spec => CacheIsInvisible
<1>1. Init => Cacheless!Init
  <2> SUFFICES ASSUME Init PROVE Cacheless!Init
    OBVIOUS
  <2>1. Answer(Resting) = Cacheless!Idle
    <3>1. /\ {i \in Inputs : Resting.unit[i].failed} = {}
          /\ [i \in Inputs |-> ReportOf(Resting.unit[i])] = [i \in Inputs |-> None]
      BY DEF Resting, NewUnit, ReportOf
    <3>2. /\ Resting.step = "idle" /\ Resting.cancelled = FALSE
          /\ Resting.inventory = [i \in Inputs |-> None]
      BY DEF Resting
    <3> QED
      BY <3>1, <3>2 DEF Answer, Cacheless!Idle
  <2> QED
    BY <2>1 DEF Init, Cacheless!Init
<1>2. Inv /\ [Next]_vars => [Cacheless!Next]_Cacheless!vars
  <2> SUFFICES ASSUME Inv, [Next]_vars PROVE [Cacheless!Next]_Cacheless!vars
    OBVIOUS
  <2>1. ASSUME UNCHANGED <<version, present, acquirer>>
        PROVE  [Cacheless!Next]_Cacheless!vars
    BY <2>1 DEF Cacheless!vars, Answer
  <2>2. ASSUME NEW a \in Acquirers, AcquirerStep(a) \/ Cancel(a) \/ Kill(a)
        PROVE  [Cacheless!Next]_Cacheless!vars
    BY <2>2, BeginTells, CourseTells, PlanUnitTells, ReadsTell, TakeRecordsTells,
       FoldUnitTells, FinishTells, CancelTells, StopTells DEF AcquirerStep, Proceed
  <2>3. ASSUME PruneStep \/ (\E i \in Discovered : Damage(i)) \/ UNCHANGED vars
        PROVE  UNCHANGED <<version, present, acquirer>>
    BY <2>3 DEF PruneStep, StartPrune, EndClassification, EndPrune, Classify, Prune, Acquiring,
                Damage, vars
  <2>4. ASSUME NEW i \in Discovered, Change(i)
        PROVE  [Cacheless!Next]_Cacheless!vars
    <3>1. i \in Inputs /\ acquirer' = acquirer
      BY <2>4 DEF Discovered, Change
    <3>2. Cacheless!Change(i)
      BY <2>4, <3>1 DEF Change, Cacheless!Change, Answer
    <3> QED
      BY <3>1, <3>2 DEF Cacheless!Next
  <2>5. setting.users \subseteq Acquirers
    BY ShardAssumption DEF Inv, WorldOK
  <2> QED
    BY <2>1, <2>2, <2>3, <2>4, <2>5 DEF Next
<1> QED
  BY <1>1, <1>2, ShardInvariant, PTL DEF Spec, CacheIsInvisible, Cacheless!Spec

=============================================================================
