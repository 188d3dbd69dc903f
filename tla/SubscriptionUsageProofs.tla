---------------------- MODULE SubscriptionUsageProofs ----------------------
(***************************************************************************)
(* Proofs about SubscriptionUsage for any sessions, providers, settings and  *)
(* bounds.  Inv strengthens the invariants of the runs by what a fetch task   *)
(* has gathered so far, by the age of everything that is shown or stored, and  *)
(* by where a save can be pending.                                          *)
(***************************************************************************)
EXTENDS SubscriptionUsage, TLAPS

\* A fetch is only asked for where there are providers to ask, and opening the tab
\* asks once.
RequestInv ==
    \A s \in Sessions :
        /\ session[s].lifecycle \in {"queued", "running"} => session[s].config.enabled # {}
        /\ session[s].automatic \in {0, 1}
        /\ session[s].lifecycle = "not started" => session[s].automatic = 0

\* A task has asked exactly the providers of its session, and each of them is still
\* to answer, is answered for this fetch, or has failed.
TaskOK(t) ==
    /\ Up(t.session)
    /\ session[t.session].lifecycle = "running" /\ session[t.session].fetch = t.id
    /\ t.waiting \cup DOMAIN t.outputs \subseteq session[t.session].config.enabled
    /\ \A p \in DOMAIN t.outputs : t.outputs[p].from = t.id
    /\ \A p \in session[t.session].config.enabled :
           p \in t.waiting \cup DOMAIN t.outputs \/ t.errors \cap {p, Unknown} # {}
    /\ t.sent => t.waiting = {}

TaskInv == \A t \in tasks : TaskOK(t)

\* Nothing shown, about to be saved or stored comes from a later fetch than the
\* last, and nothing a session shows while it fetches from a later one than its own.
NotNewer(outputs, fetch) == \A p \in DOMAIN outputs : outputs[p].from <= fetch

AgeInv ==
    /\ file \notin {None, Damaged} => NotNewer(file.data, fetches)
    /\ \A s \in Sessions :
           /\ session[s].fetch <= fetches
           /\ NotNewer(session[s].outputs, fetches)
           /\ session[s].lifecycle = "running" => NotNewer(session[s].outputs, session[s].fetch)

\* What is about to be saved is what is shown, and a save never waits for long.
SaveInv ==
    \A s \in Sessions :
        /\ session[s].effect # None => session[s].effect = session[s].outputs
        /\ session[s].step \in {"down", "poll", "wait"} => session[s].effect = None

Inv == /\ TypeOK /\ RequestInv /\ TaskInv /\ OneFetch /\ AgeInv /\ SaveInv
       /\ EveryProviderAnswered /\ StaleIsMarked /\ DiskMirrorsDisplay

-----------------------------------------------------------------------------
(* Outputs and what the helpers return.                                    *)

\* A function of some providers to outputs is what a session may show.
LEMMA OutputsIntro ==
    ASSUME NEW shown \in SUBSET Providers, NEW f \in [shown -> Output]
    PROVE  f \in Outputs
BY DEF Outputs

\* What is shown is a function of some of the providers.
LEMMA OutputsElim ==
    ASSUME NEW f \in Outputs
    PROVE  /\ DOMAIN f \subseteq Providers
           /\ f = [p \in DOMAIN f |-> f[p]]
           /\ f \in [DOMAIN f -> Output]
           /\ \A p \in DOMAIN f : /\ f[p] \in Output
                                  /\ f[p].from \in 0 .. MaxFetches /\ f[p].stale \in BOOLEAN
<1>1. PICK shown \in SUBSET Providers : f \in [shown -> Output]
  BY DEF Outputs
<1> QED
  BY <1>1 DEF Output

\* Nothing is shown exactly when the outputs are NoOutputs.
LEMMA NoOutputsType ==
    /\ NoOutputs \in Outputs /\ DOMAIN NoOutputs = {}
    /\ \A f \in Outputs : DOMAIN f = {} => f = NoOutputs
<1>1. NoOutputs \in [{} -> Output] /\ DOMAIN NoOutputs = {}
  BY DEF NoOutputs
<1>2. ASSUME NEW f \in Outputs, DOMAIN f = {} PROVE f = NoOutputs
  <2>1. f = [p \in {} |-> f[p]]
    BY <1>2, OutputsElim
  <2> QED
    BY <2>1 DEF NoOutputs
<1> QED
  BY <1>1, <1>2, OutputsIntro

\* What is not newer than a fetch is not newer than a later one.
LEMMA OlderStill ==
    ASSUME NEW f \in Outputs, NEW a \in Nat, NEW b \in Nat, a <= b, NotNewer(f, a)
    PROVE  NotNewer(f, b)
<1>1. ASSUME NEW p \in DOMAIN f PROVE f[p].from <= b
  <2>1. f[p].from \in 0 .. MaxFetches /\ f[p].from <= a
    BY OutputsElim DEF NotNewer
  <2> QED
    BY <2>1, SubscriptionAssumption
<1> QED
  BY <1>1 DEF NotNewer

\* A new value for one mark.
LEMMA MarkType ==
    ASSUME NEW o \in Output, NEW stale \in BOOLEAN
    PROVE  /\ [o EXCEPT !.stale = stale] \in Output
           /\ [o EXCEPT !.stale = stale].from = o.from
           /\ [o EXCEPT !.stale = stale].stale = stale
BY DEF Output

\* Merging shows the renewed providers, unmarked, and the kept ones, marked.
LEMMA MergedType ==
    ASSUME NEW x \in Session, NEW t \in Task
    PROVE  /\ Merged(x, t) \in Outputs
           /\ DOMAIN Merged(x, t) =
                (x.config.enabled \cap DOMAIN t.outputs) \cup Kept(x, t)
           /\ \A p \in DOMAIN Merged(x, t) :
                IF p \in DOMAIN t.outputs
                THEN Merged(x, t)[p].from = t.outputs[p].from /\ Merged(x, t)[p].stale = FALSE
                ELSE Merged(x, t)[p].from = x.outputs[p].from /\ Merged(x, t)[p].stale = TRUE
<1> DEFINE renewed == x.config.enabled \cap DOMAIN t.outputs
           shown == renewed \cup Kept(x, t)
           value(p) == IF p \in renewed THEN [t.outputs[p] EXCEPT !.stale = FALSE]
                       ELSE [x.outputs[p] EXCEPT !.stale = TRUE]
<1>1. t.outputs \in Outputs /\ x.outputs \in Outputs
  BY DEF Task, Session
<1>2. /\ Kept(x, t) \subseteq DOMAIN x.outputs
      /\ Kept(x, t) \cap DOMAIN t.outputs = {}
  BY DEF Kept
<1>3. shown \subseteq Providers
  BY <1>1, <1>2, OutputsElim
<1>4. ASSUME NEW p \in renewed
      PROVE  value(p) \in Output /\ value(p).from = t.outputs[p].from /\ value(p).stale = FALSE
  <2>1. t.outputs[p] \in Output
    BY <1>1, OutputsElim
  <2> QED
    BY <2>1, MarkType
<1>5. ASSUME NEW p \in Kept(x, t)
      PROVE  value(p) \in Output /\ value(p).from = x.outputs[p].from /\ value(p).stale = TRUE
  <2>1. x.outputs[p] \in Output /\ p \notin renewed
    BY <1>1, <1>2, OutputsElim
  <2> QED
    BY <2>1, MarkType
<1>6. Merged(x, t) = [p \in shown |-> value(p)]
  BY DEF Merged
<1>7. \A p \in shown : value(p) \in Output
  BY <1>4, <1>5
<1> HIDE DEF value
<1>8. [p \in shown |-> value(p)] \in [shown -> Output]
  BY <1>7
<1>9. Merged(x, t) \in Outputs /\ DOMAIN Merged(x, t) = shown
  BY <1>3, <1>6, <1>8, OutputsIntro
<1> QED
  BY <1>2, <1>4, <1>5, <1>6, <1>9

\* The settings only take providers away from what the cache shows.
LEMMA RestrictedType ==
    ASSUME NEW outputs \in Outputs, NEW enabled
    PROVE  /\ Restricted(outputs, enabled) \in Outputs
           /\ enabled # {} => DOMAIN Restricted(outputs, enabled) \subseteq enabled
           /\ DOMAIN Restricted(outputs, enabled) \subseteq DOMAIN outputs
           /\ \A p \in DOMAIN Restricted(outputs, enabled) :
                Restricted(outputs, enabled)[p] = outputs[p]
<1> DEFINE shown == IF enabled = {} THEN DOMAIN outputs ELSE DOMAIN outputs \cap enabled
<1>1. Restricted(outputs, enabled) = [p \in shown |-> outputs[p]]
  BY DEF Restricted
<1>2. shown \subseteq Providers /\ \A p \in shown : outputs[p] \in Output
  BY OutputsElim
<1>3. [p \in shown |-> outputs[p]] \in [shown -> Output]
  BY <1>2
<1>4. Restricted(outputs, enabled) \in Outputs
  BY <1>1, <1>2, <1>3, OutputsIntro
<1> QED
  BY <1>1, <1>4

-----------------------------------------------------------------------------
(* Steps of one session.                                                   *)

\* Only session s changes, and keeps its type.
Others(s) ==
    /\ session' \in [Sessions -> Session]
    /\ \A r \in Sessions \ {s} : session'[r] = session[r]

\* A step of s that moves in the loop and may ask for a fetch, and no more.
Quiet(s) ==
    LET x == session[s]
        y == session'[s]
    IN  /\ Others(s)
        /\ y.config = x.config /\ y.fetch = x.fetch
        /\ y.outputs = x.outputs /\ y.errors = x.errors
        /\ y.effect = x.effect /\ y.answered = x.answered
        /\ x.step # "down" /\ y.step # "down"
        /\ y.step \in {"poll", "wait"} => x.step \in {"poll", "wait"} \/ x.effect = None
        /\ \/ y.lifecycle = x.lifecycle /\ y.automatic = x.automatic
           \/ /\ y.lifecycle = "queued" /\ x.lifecycle \in {"not started", "settled"}
              /\ x.config.enabled # {}
              /\ \/ y.automatic = x.automatic
                 \/ x.lifecycle = "not started" /\ y.automatic = x.automatic + 1
        /\ UNCHANGED <<tasks, file, author, now, fetches, bounds>>

\* The providers of a session are providers.
LEMMA EnabledType ==
    ASSUME NEW x \in Session
    PROVE  x.config.enabled \subseteq Providers
BY SubscriptionAssumption DEF Session

\* A request changes the lifecycle only, from one of the two resting states.
LEMMA RequestType ==
    ASSUME NEW x \in Session
    PROVE  /\ RequestFetch(x) \in Session
           /\ \/ RequestFetch(x) = x
              \/ /\ RequestFetch(x) = [x EXCEPT !.lifecycle = "queued"]
                 /\ x.lifecycle \in {"not started", "settled"} /\ x.config.enabled # {}
BY DEF RequestFetch, Session

\* Entering the tab requests a fetch only before the first one.
LEMMA OnEntryType ==
    ASSUME NEW x \in Session
    PROVE  /\ OnEntry(x) \in Session
           /\ \/ OnEntry(x) = x
              \/ /\ OnEntry(x) = [x EXCEPT !.lifecycle = "queued", !.automatic = x.automatic + 1]
                 /\ x.lifecycle = "not started" /\ x.config.enabled # {}
<1>1. CASE ~FirstEntry(x)
  BY <1>1 DEF OnEntry
<1>2. CASE FirstEntry(x)
  <2>1. /\ x.lifecycle = "not started" /\ x.config.enabled # {}
        /\ RequestFetch(x) = [x EXCEPT !.lifecycle = "queued"]
    BY <1>2 DEF FirstEntry, RequestFetch
  <2>2. OnEntry(x) = [[x EXCEPT !.lifecycle = "queued"] EXCEPT !.automatic = @ + 1]
    BY <1>2, <2>1 DEF OnEntry
  <2>3. OnEntry(x) = [x EXCEPT !.lifecycle = "queued", !.automatic = x.automatic + 1]
    BY <2>2 DEF Session
  <2>4. x.automatic + 1 \in Nat
    <3>1. x.automatic \in Nat
      BY DEF Session
    <3> QED
      BY <3>1
  <2>5. [x EXCEPT !.lifecycle = "queued", !.automatic = x.automatic + 1] \in Session
    BY <2>4 DEF Session
  <2> QED
    BY <2>1, <2>3, <2>5
<1> QED
  BY <1>1, <1>2

\* Waking, switching tabs, asking, and polling a fetch that is not done are quiet.
LEMMA QuietSteps ==
    ASSUME TypeOK, NEW s \in Sessions,
           \/ PollPending(s) \/ Wake(s) \/ SwitchTab(s) \/ PressRefresh(s)
           \/ StartFetch(s) /\ session[s].lifecycle # "queued"
           \/ Flush(s) /\ session[s].effect = None
    PROVE  Quiet(s)
<1> DEFINE x == session[s]
<1>1. session \in [Sessions -> Session] /\ x \in Session
  BY DEF TypeOK
<1>2. CASE PollPending(s)
  BY <1>1, <1>2 DEF PollPending, Quiet, Others, Session
<1>3. CASE Wake(s)
  BY <1>1, <1>3 DEF Wake, Quiet, Others, Session
<1>4. CASE SwitchTab(s)
  <2>1. PICK open \in BOOLEAN :
            session' = [session EXCEPT ![s] =
                OnEntry([x EXCEPT !.open = open, !.step = "poll"])]
    BY <1>4 DEF SwitchTab
  <2> DEFINE z == [x EXCEPT !.open = open, !.step = "poll"]
  <2>2. /\ z \in Session /\ z.step = "poll" /\ z.config = x.config /\ z.fetch = x.fetch
        /\ z.outputs = x.outputs /\ z.errors = x.errors /\ z.effect = x.effect
        /\ z.answered = x.answered /\ z.lifecycle = x.lifecycle /\ z.automatic = x.automatic
    BY <1>1 DEF Session
  <2> HIDE DEF z
  <2>3. /\ session' = [session EXCEPT ![s] = OnEntry(z)] /\ OnEntry(z) \in Session
        /\ \/ OnEntry(z) = z
           \/ /\ OnEntry(z) = [z EXCEPT !.lifecycle = "queued", !.automatic = z.automatic + 1]
              /\ z.lifecycle = "not started" /\ z.config.enabled # {}
    BY <2>1, <2>2, OnEntryType DEF z
  <2>4. session'[s] = OnEntry(z) /\ Others(s)
    BY <1>1, <2>3 DEF Others
  <2>5. x.step = "wait" /\ UNCHANGED <<tasks, file, author, now, fetches, bounds>>
    BY <1>4 DEF SwitchTab
  <2>6. CASE OnEntry(z) = z
    BY <2>2, <2>4, <2>5, <2>6 DEF Quiet
  <2>7. CASE /\ OnEntry(z) = [z EXCEPT !.lifecycle = "queued", !.automatic = z.automatic + 1]
             /\ z.lifecycle = "not started" /\ z.config.enabled # {}
    BY <2>2, <2>4, <2>5, <2>7 DEF Quiet, Session
  <2> QED
    BY <2>3, <2>6, <2>7
<1>5. CASE PressRefresh(s)
  <2>1. RequestFetch(x) \in Session /\ x.step = "wait"
    BY <1>1, <1>5, RequestType DEF PressRefresh
  <2>2. session' = [session EXCEPT ![s] = [RequestFetch(x) EXCEPT !.step = "poll"]]
    BY <1>5 DEF PressRefresh
  <2>3. Others(s) /\ session'[s] = [RequestFetch(x) EXCEPT !.step = "poll"]
    BY <1>1, <2>1, <2>2 DEF Others, Session
  <2>4. CASE RequestFetch(x) = x
    BY <1>1, <1>5, <2>1, <2>3, <2>4 DEF PressRefresh, Quiet, Session
  <2>5. CASE /\ RequestFetch(x) = [x EXCEPT !.lifecycle = "queued"]
             /\ x.lifecycle \in {"not started", "settled"} /\ x.config.enabled # {}
    BY <1>1, <1>5, <2>1, <2>3, <2>5 DEF PressRefresh, Quiet, Session
  <2> QED
    BY <1>1, <2>4, <2>5, RequestType
<1>6. CASE StartFetch(s) /\ x.lifecycle # "queued"
  <2>1. /\ session' = [session EXCEPT ![s] = [x EXCEPT !.step = "flush"]] /\ x.step = "start"
        /\ UNCHANGED <<tasks, file, author, now, fetches, bounds>>
    BY <1>6 DEF StartFetch
  <2> QED
    BY <1>1, <2>1 DEF Quiet, Others, Session
<1>7. CASE Flush(s) /\ x.effect = None
  <2>1. /\ session' = [session EXCEPT ![s] = [x EXCEPT !.step = "wait"]] /\ x.step = "flush"
        /\ UNCHANGED <<tasks, file, author, now, fetches, bounds>>
    BY <1>7 DEF Flush, bounds
  <2> QED
    BY <1>1, <2>1, <1>7 DEF Quiet, Others, Session
<1> QED
  BY <1>2, <1>3, <1>4, <1>5, <1>6, <1>7

\* A quiet step keeps the invariant.
LEMMA QuietInv ==
    ASSUME Inv, NEW s \in Sessions, Quiet(s)
    PROVE  Inv'
<1> DEFINE x == session[s]
           y == session'[s]
<1>1. /\ session \in [Sessions -> Session] /\ x \in Session
      /\ session' \in [Sessions -> Session] /\ y \in Session
      /\ \A r \in Sessions \ {s} : session'[r] = session[r]
      /\ tasks' = tasks /\ \A t \in tasks : t.session \in Sessions /\ t.id \in Fetch
  BY DEF Inv, TypeOK, Quiet, Others, Task
<1>2. TypeOK'
  BY <1>1 DEF Inv, TypeOK, Quiet, bounds
<1>3. RequestInv'
  <2>1. x.automatic \in {0, 1} /\ (x.lifecycle = "not started" => x.automatic = 0)
    BY DEF Inv, RequestInv
  <2>2. y.automatic \in {0, 1} /\ (y.lifecycle = "not started" => y.automatic = 0)
    <3>1. \/ y.lifecycle = x.lifecycle /\ y.automatic = x.automatic
          \/ y.lifecycle = "queued" /\ y.automatic = x.automatic
          \/ /\ y.lifecycle = "queued" /\ x.lifecycle = "not started"
             /\ y.automatic = x.automatic + 1
      BY DEF Quiet
    <3>2. CASE y.lifecycle = x.lifecycle /\ y.automatic = x.automatic
      BY <2>1, <3>2
    <3>3. CASE y.lifecycle = "queued" /\ y.automatic = x.automatic
      BY <2>1, <3>3
    <3>4. CASE /\ y.lifecycle = "queued" /\ x.lifecycle = "not started"
               /\ y.automatic = x.automatic + 1
      <4>1. x.automatic = 0
        BY <2>1, <3>4
      <4>2. y.automatic = 0 + 1
        BY <3>4, <4>1
      <4>3. 0 + 1 = 1
        OBVIOUS
      <4>4. y.automatic = 1
        BY <4>2, <4>3, Zenon
      <4> QED
        BY <3>4, <4>4, Zenon
    <3> QED
      BY <3>1, <3>2, <3>3, <3>4
  <2>3. y.lifecycle \in {"queued", "running"} => y.config.enabled # {}
    BY DEF Quiet, Inv, RequestInv
  <2> HIDE DEF x, y
  <2>4. ASSUME NEW r \in Sessions \ {s} PROVE session'[r] = session[r]
    BY <1>1
  <2> QED
    BY <2>2, <2>3, <2>4 DEF Inv, RequestInv, y
<1>4. \A t \in tasks : t.session = s => y.lifecycle = "running" /\ x.lifecycle = "running"
  BY <1>1 DEF Inv, TaskInv, TaskOK, Quiet
<1>5. TaskInv'
  BY <1>1, <1>4 DEF Inv, TaskInv, TaskOK, Quiet, Up
<1>6. OneFetch'
  <2>1. \A r \in Sessions : session'[r].automatic \in {0, 1}
    BY <1>3 DEF RequestInv
  <2>2. \A t \in tasks : t.session = s => y.fetch = x.fetch
    BY DEF Quiet
  <2> QED
    BY <1>1, <1>4, <2>1, <2>2 DEF Inv, OneFetch
<1>7. AgeInv'
  BY <1>1 DEF Inv, AgeInv, NotNewer, Quiet
<1>8. SaveInv'
  <2>1. /\ y.effect = x.effect /\ y.outputs = x.outputs /\ x.step # "down" /\ y.step # "down"
        /\ y.step \in {"poll", "wait"} => x.step \in {"poll", "wait"} \/ x.effect = None
    BY DEF Quiet
  <2>2. /\ x.effect # None => x.effect = x.outputs
        /\ x.step \in {"poll", "wait"} => x.effect = None
    BY DEF Inv, SaveInv
  <2>3. /\ y.effect # None => y.effect = y.outputs
        /\ y.step \in {"down", "poll", "wait"} => y.effect = None
    BY <2>1, <2>2
  <2> HIDE DEF y
  <2> QED
    BY <1>1, <2>3 DEF Inv, SaveInv, y
<1>9. EveryProviderAnswered'
  <2>1. /\ y.lifecycle = "settled" => x.lifecycle = "settled"
        /\ y.config = x.config /\ y.outputs = x.outputs /\ y.fetch = x.fetch
        /\ y.errors = x.errors
    BY DEF Quiet
  <2> QED
    BY <1>1, <2>1 DEF Inv, EveryProviderAnswered
<1>10. StaleIsMarked'
  BY <1>1 DEF Inv, StaleIsMarked, Quiet
<1>11. DiskMirrorsDisplay'
  <2>1. /\ y.answered = x.answered /\ y.effect = x.effect /\ y.outputs = x.outputs
        /\ y.errors = x.errors /\ file' = file /\ author' = author
    BY DEF Quiet
  <2> QED
    BY <1>1, <2>1 DEF Inv, DiskMirrorsDisplay
<1> QED
  BY <1>2, <1>3, <1>5, <1>6, <1>7, <1>8, <1>9, <1>10, <1>11 DEF Inv

-----------------------------------------------------------------------------
(* The steps that settle, start or save a fetch.                           *)

\* What a session is after a batch.
LEMMA InstalledType ==
    ASSUME NEW x \in Session, NEW t \in Task,
           x.effect = None, t.errors \in Errors
    PROVE  LET y == [Installed(x, t) EXCEPT !.step = "start"]
           IN  /\ y \in Session /\ y.step = "start" /\ y.lifecycle = "settled"
               /\ y.config = x.config /\ y.fetch = x.fetch /\ y.automatic = x.automatic
               /\ y.outputs = Merged(x, t) /\ y.errors = t.errors
               /\ y.answered = DOMAIN t.outputs
               /\ y.effect = IF Merged(x, t) = NoOutputs THEN None ELSE Merged(x, t)
<1> DEFINE m == Merged(x, t)
           e == IF m = NoOutputs THEN None ELSE m
<1>1. m \in Outputs /\ DOMAIN t.outputs \subseteq Providers
  BY MergedType, OutputsElim DEF Task
<1>2. Installed(x, t) =
        [x EXCEPT !.lifecycle = "settled", !.outputs = m, !.errors = t.errors,
                  !.answered = DOMAIN t.outputs, !.effect = e]
  BY DEF Installed
<1>3. e \in Outputs \cup {None}
  BY <1>1
<1> HIDE DEF m, e
<1>4. /\ [Installed(x, t) EXCEPT !.step = "start"] =
           [x EXCEPT !.lifecycle = "settled", !.outputs = m, !.errors = t.errors,
                     !.answered = DOMAIN t.outputs, !.effect = e, !.step = "start"]
      /\ DOMAIN t.outputs \in SUBSET Providers
  BY <1>1, <1>2 DEF Session
<1> DEFINE z == [x EXCEPT !.lifecycle = "settled", !.outputs = m, !.errors = t.errors,
                     !.answered = DOMAIN t.outputs, !.effect = e, !.step = "start"]
<1>5. /\ z \in Session /\ z.step = "start" /\ z.lifecycle = "settled"
      /\ z.config = x.config /\ z.fetch = x.fetch /\ z.automatic = x.automatic
      /\ z.outputs = m /\ z.errors = t.errors /\ z.answered = DOMAIN t.outputs /\ z.effect = e
  BY <1>1, <1>3, <1>4 DEF Session
<1> QED
  BY <1>4, <1>5 DEF m, e

\* What the task of a session that polls its batch has gathered.
LEMMA BatchFacts ==
    ASSUME Inv, NEW s \in Sessions, NEW t \in MyTask(s), t.sent
    PROVE  /\ t \in tasks /\ t \in Task /\ t.session = s /\ t.id = session[s].fetch
           /\ \A u \in tasks : u.session = s => u = t
           /\ \A p \in DOMAIN t.outputs : t.outputs[p].from = session[s].fetch
           /\ \A p \in session[s].config.enabled :
                p \in DOMAIN t.outputs \/ t.errors \cap {p, Unknown} # {}
<1>1. t \in tasks /\ t \in Task /\ t.session = s /\ t.id = session[s].fetch
  BY DEF MyTask, Inv, TypeOK
<1>2. t.waiting = {}
  BY <1>1 DEF Inv, TaskInv, TaskOK
<1> QED
  BY <1>1, <1>2 DEF Inv, OneFetch, TaskInv, TaskOK

\* A polled batch keeps the invariant.
LEMMA BatchInv ==
    ASSUME Inv, NEW s \in Sessions, PollBatch(s)
    PROVE  Inv'
<1> DEFINE x == session[s]
           y == session'[s]
<1>1. PICK t \in MyTask(s) :
          /\ t.sent
          /\ session' = [session EXCEPT ![s] = [Installed(x, t) EXCEPT !.step = "start"]]
          /\ tasks' = tasks \ {t}
  BY DEF PollBatch
<1>2. /\ x.step = "poll" /\ x.lifecycle = "running" /\ x.effect = None
      /\ UNCHANGED <<file, author, now, fetches, bounds>>
  BY DEF PollBatch, Inv, SaveInv
<1>3. /\ t \in tasks /\ t \in Task /\ t.session = s /\ t.id = x.fetch
      /\ \A u \in tasks : u.session = s => u = t
      /\ \A p \in DOMAIN t.outputs : t.outputs[p].from = x.fetch
      /\ \A p \in x.config.enabled :
           p \in DOMAIN t.outputs \/ t.errors \cap {p, Unknown} # {}
  BY <1>1, BatchFacts
<1>4. session \in [Sessions -> Session] /\ x \in Session /\ t.errors \in Errors
  BY <1>3 DEF Inv, TypeOK, Task
<1>5. /\ y \in Session /\ y.step = "start" /\ y.lifecycle = "settled"
      /\ y.config = x.config /\ y.fetch = x.fetch /\ y.automatic = x.automatic
      /\ y.outputs = Merged(x, t) /\ y.errors = t.errors /\ y.answered = DOMAIN t.outputs
      /\ y.effect = IF Merged(x, t) = NoOutputs THEN None ELSE Merged(x, t)
  BY <1>1, <1>2, <1>3, <1>4, InstalledType
<1>6. /\ session' \in [Sessions -> Session]
      /\ \A r \in Sessions \ {s} : session'[r] = session[r]
  BY <1>1, <1>4, <1>5
<1>7. /\ DOMAIN y.outputs = (x.config.enabled \cap DOMAIN t.outputs) \cup Kept(x, t)
      /\ \A p \in DOMAIN y.outputs :
           IF p \in DOMAIN t.outputs
           THEN y.outputs[p].from = x.fetch /\ y.outputs[p].stale = FALSE
           ELSE y.outputs[p].from = x.outputs[p].from /\ y.outputs[p].stale = TRUE
  <2> DEFINE m == Merged(x, t)
  <2>1. /\ DOMAIN m = (x.config.enabled \cap DOMAIN t.outputs) \cup Kept(x, t)
        /\ \A p \in DOMAIN m :
             IF p \in DOMAIN t.outputs
             THEN m[p].from = t.outputs[p].from /\ m[p].stale = FALSE
             ELSE m[p].from = x.outputs[p].from /\ m[p].stale = TRUE
    BY <1>3, <1>4, MergedType
  <2> HIDE DEF m, x
  <2>2. \A p \in DOMAIN m :
          IF p \in DOMAIN t.outputs
          THEN m[p].from = x.fetch /\ m[p].stale = FALSE
          ELSE m[p].from = x.outputs[p].from /\ m[p].stale = TRUE
    BY <1>3, <2>1
  <2> QED
    BY <1>5, <2>1, <2>2 DEF m, x
<1>8. Kept(x, t) \subseteq x.config.enabled /\ Kept(x, t) \subseteq DOMAIN x.outputs
  BY DEF Kept
<1> HIDE DEF x, y
<1>9. \A u \in tasks' : u \in tasks /\ u.session # s
  BY <1>1, <1>3
<1>10. TypeOK'
  BY <1>2, <1>5, <1>6, <1>7, <1>8, <1>9 DEF Inv, TypeOK, bounds, x, y
<1>11. RequestInv'
  BY <1>2, <1>5, <1>6 DEF Inv, RequestInv, x, y
<1>12. \A u \in tasks' : u.session \in Sessions \ {s} /\ session'[u.session] = session[u.session]
  BY <1>6, <1>9 DEF Inv, TypeOK, Task
<1>13. TaskInv'
  BY <1>9, <1>12 DEF Inv, TaskInv, TaskOK, Up
<1>14. OneFetch'
  <2>1. \A r \in Sessions : session'[r].automatic <= 1
    BY <1>5, <1>6 DEF Inv, OneFetch, x, y
  <2> QED
    BY <1>9, <1>12, <2>1 DEF Inv, OneFetch
<1>15. AgeInv'
  <2>1. x.fetch \in Nat /\ fetches \in Nat /\ x.fetch <= fetches
    <3>1. x.fetch \in 0 .. MaxFetches /\ fetches \in 0 .. MaxFetches /\ MaxFetches \in Nat
      BY <1>4, SubscriptionAssumption DEF Inv, TypeOK, Session, x
    <3>2. x.fetch <= fetches
      BY DEF Inv, AgeInv, x
    <3> QED
      BY <3>1, <3>2
  <2>2. \A p \in DOMAIN x.outputs : x.outputs[p].from <= fetches
    BY DEF Inv, AgeInv, NotNewer, x
  <2>3. \A p \in DOMAIN y.outputs : y.outputs[p].from <= fetches
    BY <1>7, <1>8, <2>1, <2>2
  <2> QED
    BY <1>2, <1>5, <1>6, <2>1, <2>3 DEF Inv, AgeInv, NotNewer, x, y
<1>16. SaveInv'
  BY <1>5, <1>6 DEF Inv, SaveInv, x, y
<1>17. EveryProviderAnswered'
  <2>1. ASSUME NEW p \in y.config.enabled
        PROVE  \/ p \in DOMAIN y.outputs /\ ~y.outputs[p].stale /\ y.outputs[p].from = y.fetch
               \/ y.errors \cap {p, Unknown} # {}
    BY <1>3, <1>5, <1>7
  <2> QED
    BY <1>6, <2>1 DEF Inv, EveryProviderAnswered, y
<1>18. StaleIsMarked'
  <2>1. \A p \in DOMAIN y.outputs : y.outputs[p].stale <=> p \notin y.answered
    BY <1>5, <1>7
  <2> QED
    BY <1>6, <2>1 DEF Inv, StaleIsMarked, y
<1>19. DiskMirrorsDisplay'
  <2>1. y.effect = None => y.outputs = NoOutputs
    <3>1. Merged(x, t) # None
      BY <1>3, <1>4, MergedType, NoneAssumption DEF x
    <3> QED
      BY <1>5, <3>1
  <2> QED
    BY <1>2, <1>6, <2>1 DEF Inv, DiskMirrorsDisplay, y
<1> QED
  BY <1>10, <1>11, <1>13, <1>14, <1>15, <1>16, <1>17, <1>18, <1>19 DEF Inv

\* A lost task is noticed; it has no successor yet, so nothing else changes.
LEMMA DisconnectedInv ==
    ASSUME Inv, NEW s \in Sessions, PollDisconnected(s)
    PROVE  Inv'
<1> DEFINE x == session[s]
           y == session'[s]
<1>1. /\ x.step = "poll" /\ x.lifecycle = "running" /\ MyTask(s) = {}
      /\ session' = [session EXCEPT ![s] = [Disconnected(x) EXCEPT !.step = "start"]]
      /\ UNCHANGED <<tasks, file, author, now, fetches, bounds>>
  BY DEF PollDisconnected
<1>2. session \in [Sessions -> Session] /\ x \in Session
  BY DEF Inv, TypeOK
<1>3. [Disconnected(x) EXCEPT !.step = "start"] =
        [x EXCEPT !.lifecycle = "settled", !.errors = {Unknown}, !.answered = None,
                  !.step = "start"]
  BY <1>2 DEF Disconnected, Session
<1>4. {Unknown} \in Errors
  BY DEF Errors
<1>5. /\ y \in Session /\ y.step = "start" /\ y.lifecycle = "settled"
      /\ y.config = x.config /\ y.fetch = x.fetch /\ y.automatic = x.automatic
      /\ y.outputs = x.outputs /\ y.errors = {Unknown} /\ y.answered = None
      /\ y.effect = x.effect
  BY <1>1, <1>2, <1>3, <1>4 DEF Session
<1>6. /\ session' \in [Sessions -> Session]
      /\ \A r \in Sessions \ {s} : session'[r] = session[r]
  BY <1>1, <1>2, <1>5
<1> HIDE DEF x, y
<1>7. \A u \in tasks : /\ u.session \in Sessions \ {s}
                       /\ session'[u.session] = session[u.session]
  BY <1>1, <1>6 DEF Inv, TypeOK, Task, TaskInv, TaskOK, MyTask
<1>8. TypeOK'
  BY <1>1, <1>5, <1>6 DEF Inv, TypeOK, bounds, x, y
<1>9. RequestInv'
  BY <1>5, <1>6 DEF Inv, RequestInv, x, y
<1>10. TaskInv'
  BY <1>1, <1>7 DEF Inv, TaskInv, TaskOK, Up
<1>11. OneFetch'
  <2>1. \A r \in Sessions : session'[r].automatic <= 1
    BY <1>5, <1>6 DEF Inv, OneFetch, x, y
  <2> QED
    BY <1>1, <1>7, <2>1 DEF Inv, OneFetch
<1>12. AgeInv'
  BY <1>1, <1>5, <1>6 DEF Inv, AgeInv, NotNewer, x, y
<1>13. SaveInv'
  BY <1>1, <1>5, <1>6 DEF Inv, SaveInv, x, y
<1>14. EveryProviderAnswered'
  BY <1>5, <1>6 DEF Inv, EveryProviderAnswered, y
<1>15. StaleIsMarked' /\ DiskMirrorsDisplay'
  BY <1>1, <1>5, <1>6 DEF Inv, StaleIsMarked, DiskMirrorsDisplay, y
<1> QED
  BY <1>8, <1>9, <1>10, <1>11, <1>12, <1>13, <1>14, <1>15 DEF Inv

\* A new fetch has every enabled provider to ask, and no other beside it.
LEMMA FetchInv ==
    ASSUME Inv, NEW s \in Sessions, StartFetch(s), session[s].lifecycle = "queued"
    PROVE  Inv'
<1> DEFINE x == session[s]
           y == session'[s]
           new == [session |-> s, id |-> fetches', waiting |-> x.config.enabled,
                   outputs |-> NoOutputs, errors |-> {}, sent |-> FALSE]
<1>1. /\ x.step = "start" /\ x.lifecycle = "queued"
      /\ fetches < MaxFetches /\ fetches' = fetches + 1
      /\ session' = [session EXCEPT ![s].step = "flush", ![s].lifecycle = "running",
                                    ![s].fetch = fetches']
      /\ tasks' = tasks \cup {new}
      /\ UNCHANGED <<file, author, now, bounds>>
  BY DEF StartFetch
<1>2. session \in [Sessions -> Session] /\ x \in Session /\ fetches \in 0 .. MaxFetches
  BY DEF Inv, TypeOK
<1>3. /\ fetches' \in Fetch /\ fetches' \in 0 .. MaxFetches /\ fetches <= fetches'
      /\ fetches \in Nat /\ fetches' \in Nat
  BY <1>1, <1>2, SubscriptionAssumption DEF Fetch
<1>4. session' = [session EXCEPT ![s] =
          [x EXCEPT !.step = "flush", !.lifecycle = "running", !.fetch = fetches']]
  BY <1>1, <1>2
<1>5. /\ y \in Session /\ y.step = "flush" /\ y.lifecycle = "running" /\ y.fetch = fetches'
      /\ y.config = x.config /\ y.automatic = x.automatic /\ y.outputs = x.outputs
      /\ y.errors = x.errors /\ y.answered = x.answered /\ y.effect = x.effect
  BY <1>2, <1>3, <1>4 DEF Session
<1>6. /\ session' \in [Sessions -> Session]
      /\ \A r \in Sessions \ {s} : session'[r] = session[r]
  BY <1>2, <1>4, <1>5
<1>7. new \in Task
  <2>1. x.config.enabled \in SUBSET Providers /\ NoOutputs \in Outputs /\ {} \in Errors
    BY <1>2, EnabledType, NoOutputsType DEF Errors
  <2> QED
    BY <1>3, <2>1 DEF Task
<1>8. PICK t \in Task :
          /\ tasks' = tasks \cup {t}
          /\ t.session = s /\ t.id = y.fetch /\ t.waiting = y.config.enabled
          /\ DOMAIN t.outputs = {} /\ t.sent = FALSE
  BY <1>1, <1>5, <1>7, NoOutputsType
<1> HIDE DEF x, y, new
<1>9. \A u \in tasks : /\ u.session \in Sessions \ {s}
                       /\ session'[u.session] = session[u.session]
  BY <1>1, <1>6 DEF Inv, TypeOK, Task, TaskInv, TaskOK, x
<1>10. TypeOK'
  BY <1>1, <1>3, <1>5, <1>6, <1>8 DEF Inv, TypeOK, bounds, x, y
<1>11. x.config.enabled # {}
  BY <1>1 DEF Inv, RequestInv, x
<1>12. RequestInv'
  BY <1>5, <1>6, <1>11 DEF Inv, RequestInv, x, y
<1>13. TaskInv'
  <2>1. ASSUME NEW u \in tasks PROVE TaskOK(u)'
    BY <1>9 DEF Inv, TaskInv, TaskOK, Up
  <2>2. TaskOK(t)'
    BY <1>5, <1>8 DEF TaskOK, Up, y
  <2> QED
    BY <1>8, <2>1, <2>2 DEF TaskInv
<1>14. OneFetch'
  <2>1. \A r \in Sessions : session'[r].automatic <= 1
    BY <1>5, <1>6 DEF Inv, OneFetch, x, y
  <2>2. ASSUME NEW u \in tasks'
        PROVE  /\ session'[u.session].lifecycle = "running"
               /\ session'[u.session].fetch = u.id
               /\ \A v \in tasks' : v.session = u.session => v = u
    <3>1. CASE u = t
      BY <1>5, <1>8, <1>9, <3>1 DEF y
    <3>2. CASE u \in tasks
      BY <1>8, <1>9, <3>2 DEF Inv, OneFetch
    <3> QED
      BY <1>8, <3>1, <3>2
  <2> QED
    BY <2>1, <2>2 DEF OneFetch
<1>15. AgeInv'
  <2>1. ASSUME NEW f \in Outputs, NotNewer(f, fetches) PROVE NotNewer(f, fetches')
    BY <1>3, <2>1, OlderStill
  <2>2. file \notin {None, Damaged} => NotNewer(file.data, fetches')
    BY <2>1 DEF Inv, AgeInv, TypeOK, CacheFile
  <2>3. ASSUME NEW r \in Sessions
        PROVE  session'[r].outputs = session[r].outputs /\ NotNewer(session[r].outputs, fetches')
    <3>1. session'[r].outputs = session[r].outputs
      BY <1>5, <1>6 DEF x, y
    <3> QED
      BY <2>1, <3>1 DEF Inv, AgeInv, TypeOK, Session
  <2>4. ASSUME NEW r \in Sessions PROVE session'[r].fetch <= fetches'
    <3>1. CASE r = s
      BY <1>3, <1>5, <3>1 DEF y
    <3>2. CASE r # s
      <4>1. session'[r].fetch <= fetches /\ session[r].fetch \in 0 .. MaxFetches
        BY <1>6, <3>2 DEF Inv, AgeInv, TypeOK, Session
      <4> QED
        BY <1>3, <1>6, <3>2, <4>1, SubscriptionAssumption
    <3> QED
      BY <3>1, <3>2
  <2>5. ASSUME NEW r \in Sessions, session'[r].lifecycle = "running"
        PROVE  NotNewer(session'[r].outputs, session'[r].fetch)
    BY <1>5, <1>6, <2>3, <2>5 DEF Inv, AgeInv, x, y
  <2> QED
    BY <1>1, <2>2, <2>3, <2>4, <2>5 DEF AgeInv
<1>16. SaveInv'
  BY <1>1, <1>5, <1>6 DEF Inv, SaveInv, x, y
<1>17. EveryProviderAnswered'
  BY <1>5, <1>6 DEF Inv, EveryProviderAnswered, y
<1>18. StaleIsMarked' /\ DiskMirrorsDisplay'
  BY <1>1, <1>5, <1>6 DEF Inv, StaleIsMarked, DiskMirrorsDisplay, x, y
<1> QED
  BY <1>10, <1>12, <1>13, <1>14, <1>15, <1>16, <1>17, <1>18 DEF Inv

\* A save, whether it fails or not, keeps the invariant.
LEMMA SavedInv ==
    ASSUME Inv, NEW s \in Sessions, Flush(s), session[s].effect # None
    PROVE  Inv'
<1> DEFINE x == session[s]
           y == session'[s]
<1>1. /\ session \in [Sessions -> Session] /\ x \in Session /\ x.step = "flush"
      /\ x.effect # None /\ x.effect = x.outputs
      /\ UNCHANGED <<tasks, now, fetches, starts, ticks>>
  BY DEF Flush, Inv, TypeOK, SaveInv
<1>2. /\ failures' \in 0 .. MaxFailures
      /\ \/ /\ session' = [session EXCEPT ![s] = [x EXCEPT !.effect = None, !.step = "wait"]]
            /\ file' = [stamp |-> now, data |-> x.effect] /\ author' = s
         \/ /\ session' = [session EXCEPT ![s] = [x EXCEPT !.effect = None, !.step = "wait",
                                                          !.errors = x.errors \cup {Cache}]]
            /\ \/ file' = [stamp |-> now, data |-> x.effect] /\ author' = s
               \/ UNCHANGED <<file, author>>
  <2>1. failures' \in 0 .. MaxFailures
    BY <1>1, SubscriptionAssumption DEF Flush, Fault, Inv, TypeOK
  <2> QED
    BY <1>1, <2>1 DEF Flush, NoteFailure
<1>3. /\ y \in Session /\ y.step = "wait" /\ y.effect = None
      /\ y.lifecycle = x.lifecycle /\ y.fetch = x.fetch
      /\ y.config = x.config /\ y.automatic = x.automatic /\ y.outputs = x.outputs
      /\ y.answered = x.answered /\ x.errors \subseteq y.errors
      /\ session' \in [Sessions -> Session]
      /\ \A r \in Sessions \ {s} : session'[r] = session[r]
  <2>1. PICK e \in Errors :
            /\ x.errors \subseteq e
            /\ session' = [session EXCEPT ![s] =
                   [x EXCEPT !.effect = None, !.step = "wait", !.errors = e]]
    <3>1. x.errors \in Errors /\ x.errors \cup {Cache} \in Errors
      BY <1>1 DEF Session, Errors
    <3>2. [x EXCEPT !.effect = None, !.step = "wait"] =
            [x EXCEPT !.effect = None, !.step = "wait", !.errors = x.errors]
      BY <1>1 DEF Session
    <3> QED
      BY <1>2, <3>1, <3>2
  <2> DEFINE z == [x EXCEPT !.effect = None, !.step = "wait", !.errors = e]
  <2>2. /\ z \in Session /\ z.step = "wait" /\ z.effect = None
        /\ z.lifecycle = x.lifecycle /\ z.fetch = x.fetch
        /\ z.config = x.config /\ z.automatic = x.automatic /\ z.outputs = x.outputs
        /\ z.answered = x.answered /\ z.errors = e
    BY <1>1 DEF Session
  <2> HIDE DEF z
  <2>3. y = z /\ session' = [session EXCEPT ![s] = z]
    BY <1>1, <2>1 DEF z
  <2> QED
    BY <1>1, <2>1, <2>2, <2>3
<1>4. \/ author' = s /\ file' = [stamp |-> now, data |-> y.outputs]
      \/ UNCHANGED <<file, author>> /\ Cache \in y.errors
  <2>1. CASE author' = s /\ file' = [stamp |-> now, data |-> x.effect]
    BY <1>1, <1>3, <2>1
  <2>2. CASE /\ session' = [session EXCEPT ![s] = [x EXCEPT !.effect = None, !.step = "wait",
                                                          !.errors = x.errors \cup {Cache}]]
             /\ UNCHANGED <<file, author>>
    BY <1>1, <2>2 DEF Session
  <2> QED
    BY <1>2, <2>1, <2>2
<1> HIDE DEF x, y
<1>5. TypeOK'
  <2>1. y.outputs \in Outputs /\ now \in Time
    BY <1>3 DEF Session, Inv, TypeOK
  <2>2. file' \in CacheFile \cup {None, Damaged} /\ author' \in Sessions \cup {None}
    BY <1>4, <2>1 DEF CacheFile, Inv, TypeOK
  <2> QED
    BY <1>1, <1>2, <1>3, <2>2 DEF Inv, TypeOK, x, y
<1>6. RequestInv'
  BY <1>3 DEF Inv, RequestInv, x, y
<1>7. TaskInv'
  BY <1>1, <1>3 DEF Inv, TypeOK, Task, TaskInv, TaskOK, Up, x, y
<1>8. OneFetch'
  BY <1>1, <1>3 DEF Inv, TypeOK, Task, OneFetch, x, y
<1>9. AgeInv'
  <2>1. NotNewer(y.outputs, fetches)
    BY <1>3 DEF Inv, AgeInv, x
  <2>2. file' \notin {None, Damaged} => NotNewer(file.data, fetches)'
    BY <1>1, <1>4, <2>1 DEF Inv, AgeInv, NotNewer
  <2> QED
    BY <1>1, <1>3, <2>2 DEF Inv, AgeInv, NotNewer, x, y
<1>10. SaveInv'
  BY <1>3 DEF Inv, SaveInv, y
<1>11. EveryProviderAnswered'
  BY <1>3 DEF Inv, EveryProviderAnswered, x, y
<1>12. StaleIsMarked'
  BY <1>3 DEF Inv, StaleIsMarked, x, y
<1>13. DiskMirrorsDisplay'
  BY <1>3, <1>4 DEF Inv, DiskMirrorsDisplay, x, y
<1> QED
  BY <1>5, <1>6, <1>7, <1>8, <1>9, <1>10, <1>11, <1>12, <1>13 DEF Inv

-----------------------------------------------------------------------------
(* Starting and leaving, the tasks, and the clock.                          *)

\* A process that is down.
LEMMA DownType ==
    /\ Down \in Session /\ Down.step = "down" /\ Down.lifecycle = "not started"
    /\ Down.fetch = 0 /\ Down.outputs = NoOutputs /\ Down.errors = {}
    /\ Down.effect = None /\ Down.answered = None /\ Down.automatic = 0
<1>1. (CHOOSE c \in Configs : TRUE) \in Configs
  BY SubscriptionAssumption
<1>2. NoOutputs \in Outputs /\ {} \in Errors /\ 0 \in 0 .. MaxFetches /\ 0 \in Nat
  BY SubscriptionAssumption, NoOutputsType DEF Errors
<1> QED
  BY <1>1, <1>2 DEF Down, Session

\* A process with these settings that has just started: it shows what the cache has
\* for its providers, and may already ask for a fetch.
JustStarted(y, config, cached) ==
    /\ y \in Session /\ y.step = "poll"
    /\ y.config = config /\ y.fetch = 0 /\ y.effect = None /\ y.answered = None
    /\ \/ y.lifecycle = "not started" /\ y.automatic = 0
       \/ y.lifecycle = "queued" /\ y.automatic = 1 /\ config.enabled # {}
    /\ config.enabled # {} => DOMAIN y.outputs \subseteq config.enabled
    /\ \/ DOMAIN y.outputs = {}
       \/ /\ cached \notin {None, Damaged}
          /\ DOMAIN y.outputs \subseteq DOMAIN cached
          /\ \A p \in DOMAIN y.outputs : y.outputs[p] = cached[p]

\* Started makes such a process.
LEMMA StartedType ==
    ASSUME NEW config \in Configs, NEW open \in BOOLEAN,
           NEW cached \in Outputs \cup {None, Damaged}
    PROVE  JustStarted(Started(config, open, cached), config, cached)
<1> DEFINE o == IF cached \in {None, Damaged} THEN NoOutputs
                ELSE Restricted(cached, config.enabled)
           e == IF cached = Damaged THEN {Cache} ELSE {}
           z == [Down EXCEPT !.step = "poll", !.config = config, !.open = open,
                             !.outputs = o, !.errors = e]
<1>1. /\ o \in Outputs /\ e \in Errors
      /\ config.enabled # {} => DOMAIN o \subseteq config.enabled
      /\ \/ DOMAIN o = {}
         \/ /\ cached \notin {None, Damaged}
            /\ DOMAIN o \subseteq DOMAIN cached
            /\ \A p \in DOMAIN o : o[p] = cached[p]
  <2>1. e \in Errors
    BY DEF Errors
  <2>2. CASE cached \in {None, Damaged}
    BY <2>1, <2>2, NoOutputsType
  <2>3. CASE cached \notin {None, Damaged}
    BY <2>1, <2>3, RestrictedType
  <2> QED
    BY <2>2, <2>3
<1>2. Started(config, open, cached) = OnEntry(z)
  BY DEF Started
<1> HIDE DEF o, e
<1>3. /\ z \in Session /\ z.step = "poll" /\ z.lifecycle = "not started" /\ z.config = config
      /\ z.fetch = 0 /\ z.outputs = o /\ z.effect = None /\ z.answered = None
      /\ z.automatic = 0
  BY <1>1, DownType DEF Session
<1> HIDE DEF z
<1>4. CASE OnEntry(z) = z
  BY <1>1, <1>2, <1>3, <1>4 DEF JustStarted
<1>5. CASE OnEntry(z) # z
  <2>1. /\ OnEntry(z) = [z EXCEPT !.lifecycle = "queued", !.automatic = z.automatic + 1]
        /\ z.config.enabled # {} /\ OnEntry(z) \in Session
    BY <1>3, <1>5, OnEntryType
  <2>2. z.automatic + 1 = 1
    <3>1. z.automatic + 1 = 0 + 1
      BY <1>3
    <3> QED
      BY <3>1
  <2>3. OnEntry(z) = [z EXCEPT !.lifecycle = "queued", !.automatic = 1]
    BY <2>1, <2>2
  <2>4. LET y == OnEntry(z)
        IN  /\ y \in Session /\ y.step = "poll" /\ y.config = config /\ y.fetch = 0
            /\ y.effect = None /\ y.answered = None /\ y.outputs = o
            /\ y.lifecycle = "queued" /\ y.automatic = 1 /\ config.enabled # {}
    BY <1>3, <2>1, <2>3 DEF Session
  <2> QED
    BY <1>1, <1>2, <2>4 DEF JustStarted
<1> QED
  BY <1>4, <1>5

\* A step of s that starts or ends its process.
Restarted(s) ==
    LET y == session'[s]
    IN  /\ Others(s)
        /\ tasks' = {t \in tasks : t.session # s}
        /\ starts' \in 0 .. MaxStarts /\ failures' \in 0 .. MaxFailures
        /\ UNCHANGED <<file, author, now, fetches, ticks>>
        /\ y.fetch = 0 /\ y.effect = None /\ y.answered = None
        /\ \/ y.lifecycle = "not started" /\ y.automatic = 0
           \/ y.lifecycle = "queued" /\ y.automatic = 1 /\ y.config.enabled # {}
        /\ y.config.enabled # {} => DOMAIN y.outputs \subseteq y.config.enabled
        /\ NotNewer(y.outputs, fetches)

\* A session that starts or ends has no task, no save pending, and shows at most
\* what the file holds.
LEMMA RestartInv ==
    ASSUME Inv, NEW s \in Sessions, Restarted(s)
    PROVE  Inv'
<1> DEFINE y == session'[s]
<1>1. /\ session' \in [Sessions -> Session]
      /\ \A r \in Sessions \ {s} : session'[r] = session[r]
      /\ tasks' = {t \in tasks : t.session # s}
      /\ UNCHANGED <<file, author, now, fetches, ticks>>
      /\ y.fetch = 0 /\ y.effect = None /\ y.answered = None /\ y.lifecycle # "settled"
  BY DEF Restarted, Others
<1>2. \A t \in tasks' : /\ t \in tasks /\ t.session \in Sessions \ {s}
                        /\ session'[t.session] = session[t.session]
  BY <1>1 DEF Inv, TypeOK, Task
<1>3. TypeOK'
  BY <1>1 DEF Inv, TypeOK, Restarted
<1>4. RequestInv'
  BY <1>1 DEF Inv, RequestInv, Restarted
<1>5. TaskInv'
  BY <1>1, <1>2 DEF Inv, TaskInv, TaskOK, Up
<1>6. OneFetch'
  <2>1. \A r \in Sessions : session'[r].automatic \in {0, 1}
    BY <1>4 DEF RequestInv
  <2> QED
    BY <1>2, <2>1 DEF Inv, OneFetch
<1>7. AgeInv'
  <2>1. 0 <= fetches
    BY SubscriptionAssumption DEF Inv, TypeOK
  <2> QED
    BY <1>1, <2>1 DEF Inv, AgeInv, NotNewer, Restarted
<1>8. SaveInv'
  BY <1>1 DEF Inv, SaveInv
<1>9. EveryProviderAnswered'
  BY <1>1 DEF Inv, EveryProviderAnswered
<1>10. StaleIsMarked' /\ DiskMirrorsDisplay'
  BY <1>1 DEF Inv, StaleIsMarked, DiskMirrorsDisplay
<1> QED
  BY <1>3, <1>4, <1>5, <1>6, <1>7, <1>8, <1>9, <1>10 DEF Inv

\* A start keeps the invariant, whatever it finds in the file.
LEMMA StartInv ==
    ASSUME Inv, NEW s \in Sessions, Start(s)
    PROVE  Inv'
<1>1. Loaded \in Outputs \cup {None, Damaged}
  BY DEF Loaded, Inv, TypeOK, CacheFile
<1>2. Loaded \notin {None, Damaged} => file \notin {None, Damaged} /\ Loaded = file.data
  BY DEF Loaded
<1>3. PICK config \in Configs, open \in BOOLEAN, cached \in {None, Damaged, Loaded} :
          session' = [session EXCEPT ![s] = Started(config, open, cached)]
  BY DEF Start
<1>4. /\ ~Up(s) /\ starts' \in 0 .. MaxStarts /\ failures' \in 0 .. MaxFailures
      /\ UNCHANGED <<tasks, file, author, now, fetches, ticks>>
  BY SubscriptionAssumption DEF Start, Fault, Inv, TypeOK
<1>5. tasks' = {t \in tasks : t.session # s}
  BY <1>4 DEF Inv, TaskInv, TaskOK
<1> DEFINE y == Started(config, open, cached)
<1>6. JustStarted(y, config, cached)
  <2>1. cached \in Outputs \cup {None, Damaged}
    BY <1>1
  <2> QED
    BY <2>1, StartedType
<1> HIDE DEF y
<1>7. NotNewer(y.outputs, fetches)
  BY <1>2, <1>6 DEF JustStarted, NotNewer, Inv, AgeInv
<1>8. Others(s) /\ session'[s] = y
  BY <1>3, <1>6 DEF y, JustStarted, Inv, TypeOK, Others
<1>9. Restarted(s)
  BY <1>4, <1>5, <1>6, <1>7, <1>8 DEF JustStarted, Restarted
<1> QED
  BY <1>9, RestartInv

\* The end of a session keeps the invariant.
LEMMA LeaveInv ==
    ASSUME Inv, NEW s \in Sessions, Leave(s)
    PROVE  Inv'
<1>1. /\ session' = [session EXCEPT ![s] = Down] /\ tasks' = {t \in tasks : t.session # s}
      /\ UNCHANGED <<file, author, now, fetches, bounds>>
  BY DEF Leave
<1>2. /\ Others(s) /\ session'[s] = Down
      /\ starts' \in 0 .. MaxStarts /\ failures' \in 0 .. MaxFailures
      /\ UNCHANGED <<file, author, now, fetches, ticks>>
  BY <1>1, DownType DEF Inv, TypeOK, bounds, Others
<1>3. DOMAIN Down.outputs = {} /\ NotNewer(Down.outputs, fetches)
  BY DownType, NoOutputsType DEF NotNewer
<1>4. Restarted(s)
  BY <1>1, <1>2, <1>3, DownType DEF Restarted
<1> QED
  BY <1>4, RestartInv

\* A fetch task that gathers an answer or an error, or sends its batch.
LEMMA GatherInv ==
    ASSUME Inv, NEW t \in tasks, NEW u \in Task,
           u.session = t.session, u.id = t.id, TaskOK(u),
           Replace(t, u), failures' \in 0 .. MaxFailures,
           UNCHANGED <<session, file, author, now, fetches, starts, ticks>>
    PROVE  Inv'
<1>1. TypeOK'
  BY DEF Inv, TypeOK, Replace
<1>2. RequestInv'
  BY DEF Inv, RequestInv
<1>3. TaskInv'
  BY DEF Inv, TaskInv, TaskOK, Up, Replace
<1>4. OneFetch'
  <2>1. \A r \in Sessions : session'[r].automatic <= 1
    BY DEF Inv, OneFetch
  <2>2. \A v, w \in (tasks \ {t}) \cup {u} : v.session = w.session => v = w
    BY DEF Inv, OneFetch
  <2>3. \A v \in (tasks \ {t}) \cup {u} :
            session[v.session].lifecycle = "running" /\ session[v.session].fetch = v.id
    BY DEF Inv, OneFetch
  <2> QED
    BY <2>1, <2>2, <2>3 DEF OneFetch, Replace
<1>5. AgeInv'
  BY DEF Inv, AgeInv, NotNewer
<1>6. SaveInv'
  BY DEF Inv, SaveInv
<1>7. EveryProviderAnswered' /\ StaleIsMarked' /\ DiskMirrorsDisplay'
  BY DEF Inv, EveryProviderAnswered, StaleIsMarked, DiskMirrorsDisplay
<1> QED
  BY <1>1, <1>2, <1>3, <1>4, <1>5, <1>6, <1>7 DEF Inv

\* The steps of a fetch task keep the invariant.
LEMMA TaskStepInv ==
    ASSUME Inv, NEW s \in Sessions, TaskStep(s)
    PROVE  Inv'
<1>1. PICK t \in tasks :
          /\ t.session = s
          /\ Answer(t) \/ FailProvider(t) \/ FailClient(t) \/ Send(t) \/ LoseTask(t)
  BY DEF TaskStep
<1>2. UNCHANGED <<session, file, author, now, fetches, starts, ticks>>
  BY DEF TaskStep
<1>3. t \in Task /\ TaskOK(t) /\ t.waiting \subseteq Providers
  BY DEF Inv, TypeOK, TaskInv, Task
<1>4. failures \in 0 .. MaxFailures /\ (Fault => failures' \in 0 .. MaxFailures)
  BY SubscriptionAssumption DEF Fault, Inv, TypeOK
<1>5. CASE Answer(t)
  <2>1. PICK p \in t.waiting :
            Replace(t, [t EXCEPT !.waiting = t.waiting \ {p},
                !.outputs = [q \in DOMAIN t.outputs \cup {p} |->
                    IF q = p THEN [from |-> t.id, stale |-> FALSE] ELSE t.outputs[q]]])
    BY <1>5 DEF Answer
  <2> DEFINE shown == DOMAIN t.outputs \cup {p}
             o == [q \in shown |->
                    IF q = p THEN [from |-> t.id, stale |-> FALSE] ELSE t.outputs[q]]
             u == [t EXCEPT !.waiting = t.waiting \ {p}, !.outputs = o]
  <2>2. o \in Outputs /\ DOMAIN o = shown /\ \A q \in shown : o[q].from = t.id
    <3>1. shown \in SUBSET Providers /\ t.outputs \in Outputs
      BY <1>3, OutputsElim DEF Task
    <3>2. [from |-> t.id, stale |-> FALSE] \in Output
      BY <1>3, SubscriptionAssumption DEF Task, Output, Fetch
    <3>3. \A q \in DOMAIN t.outputs : t.outputs[q] \in Output
      BY <3>1, OutputsElim
    <3>4. o \in [shown -> Output]
      BY <3>2, <3>3
    <3>5. \A q \in shown : o[q].from = t.id
      BY <1>3 DEF TaskOK
    <3> HIDE DEF o
    <3> QED
      BY <3>1, <3>4, <3>5, OutputsIntro
  <2> HIDE DEF o
  <2>3. /\ u \in Task /\ u.session = t.session /\ u.id = t.id /\ u.sent = t.sent
        /\ u.waiting = t.waiting \ {p} /\ u.outputs = o /\ u.errors = t.errors
    BY <1>3, <2>2 DEF Task
  <2>4. Replace(t, u) /\ UNCHANGED failures
    BY <1>5, <2>1 DEF o, Answer
  <2> HIDE DEF u
  <2>5. TaskOK(u)
    BY <1>3, <2>2, <2>3 DEF TaskOK
  <2> QED
    BY <1>2, <1>4, <2>3, <2>4, <2>5, GatherInv
<1>6. CASE FailProvider(t)
  <2>1. PICK p \in t.waiting : \E e \in FailureOf(p) :
            Fault /\ Replace(t, [t EXCEPT !.waiting = t.waiting \ {p},
                                          !.errors = t.errors \cup e])
    BY <1>6 DEF FailProvider
  <2>2. PICK e \in FailureOf(p) :
            Fault /\ Replace(t, [t EXCEPT !.waiting = t.waiting \ {p},
                                          !.errors = t.errors \cup e])
    BY <2>1
  <2> DEFINE u == [t EXCEPT !.waiting = t.waiting \ {p}, !.errors = t.errors \cup e]
  <2>3. t.errors \cup e \in Errors /\ e \cap {p, Unknown} # {}
    BY <1>3 DEF FailureOf, Task, Errors
  <2>4. /\ u \in Task /\ u.session = t.session /\ u.id = t.id /\ u.sent = t.sent
        /\ u.waiting = t.waiting \ {p} /\ u.outputs = t.outputs /\ u.errors = t.errors \cup e
    BY <1>3, <2>3 DEF Task
  <2>5. Fault /\ Replace(t, u)
    BY <2>2
  <2> HIDE DEF u
  <2>6. TaskOK(u)
    BY <1>3, <2>3, <2>4 DEF TaskOK
  <2> QED
    BY <1>2, <1>4, <2>4, <2>5, <2>6, GatherInv
<1>7. CASE FailClient(t)
  <2> DEFINE u == [t EXCEPT !.waiting = {}, !.errors = t.waiting]
  <2>1. Fault /\ Replace(t, u) /\ t.waiting = session[t.session].config.enabled
    BY <1>7 DEF FailClient
  <2>2. t.waiting \in Errors
    BY <1>3 DEF Errors
  <2>3. /\ u \in Task /\ u.session = t.session /\ u.id = t.id /\ u.sent = t.sent
        /\ u.waiting = {} /\ u.outputs = t.outputs /\ u.errors = t.waiting
    BY <1>3, <2>2 DEF Task
  <2> HIDE DEF u
  <2>4. TaskOK(u)
    BY <1>3, <2>1, <2>3 DEF TaskOK
  <2> QED
    BY <1>2, <1>4, <2>1, <2>3, <2>4, GatherInv
<1>8. CASE Send(t)
  <2> DEFINE u == [t EXCEPT !.sent = TRUE]
  <2>1. Replace(t, u) /\ t.waiting = {} /\ UNCHANGED failures
    BY <1>8 DEF Send
  <2>2. /\ u \in Task /\ u.session = t.session /\ u.id = t.id /\ u.sent = TRUE
        /\ u.waiting = t.waiting /\ u.outputs = t.outputs /\ u.errors = t.errors
    BY <1>3 DEF Task
  <2> HIDE DEF u
  <2>3. TaskOK(u)
    BY <1>3, <2>1, <2>2 DEF TaskOK
  <2> QED
    BY <1>2, <1>4, <2>1, <2>2, <2>3, GatherInv
<1>9. CASE LoseTask(t)
  <2>1. tasks' = tasks \ {t} /\ failures' \in 0 .. MaxFailures
    BY <1>4, <1>9 DEF LoseTask
  <2>2. TypeOK'
    BY <1>2, <2>1 DEF Inv, TypeOK
  <2>3. RequestInv' /\ SaveInv'
    BY <1>2 DEF Inv, RequestInv, SaveInv
  <2>4. TaskInv'
    BY <1>2, <2>1 DEF Inv, TaskInv, TaskOK, Up
  <2>5. OneFetch'
    BY <1>2, <2>1 DEF Inv, OneFetch
  <2>6. AgeInv'
    BY <1>2 DEF Inv, AgeInv, NotNewer
  <2>7. EveryProviderAnswered' /\ StaleIsMarked' /\ DiskMirrorsDisplay'
    BY <1>2 DEF Inv, EveryProviderAnswered, StaleIsMarked, DiskMirrorsDisplay
  <2> QED
    BY <2>2, <2>3, <2>4, <2>5, <2>6, <2>7 DEF Inv
<1> QED
  BY <1>1, <1>5, <1>6, <1>7, <1>8, <1>9

\* The clock, and a step that changes nothing, keep the invariant.
LEMMA ClockInv ==
    ASSUME Inv, ChangeClock \/ UNCHANGED vars
    PROVE  Inv'
<1>1. /\ now' \in Time /\ ticks' \in 0 .. MaxTicks
      /\ UNCHANGED <<session, tasks, file, author, fetches, failures, starts>>
  BY SubscriptionAssumption DEF ChangeClock, vars, bounds, Inv, TypeOK
<1>2. TypeOK'
  BY <1>1 DEF Inv, TypeOK
<1>3. RequestInv' /\ SaveInv'
  BY <1>1 DEF Inv, RequestInv, SaveInv
<1>4. TaskInv'
  BY <1>1 DEF Inv, TaskInv, TaskOK, Up
<1>5. OneFetch'
  BY <1>1 DEF Inv, OneFetch
<1>6. AgeInv'
  BY <1>1 DEF Inv, AgeInv, NotNewer
<1>7. EveryProviderAnswered' /\ StaleIsMarked' /\ DiskMirrorsDisplay'
  BY <1>1 DEF Inv, EveryProviderAnswered, StaleIsMarked, DiskMirrorsDisplay
<1> QED
  BY <1>2, <1>3, <1>4, <1>5, <1>6, <1>7 DEF Inv

-----------------------------------------------------------------------------
(* The invariant and what follows from it.                                  *)

\* The initial states have no session up and a file without quotas.
LEMMA InitInv == Init => Inv
<1> SUFFICES ASSUME Init PROVE Inv
  OBVIOUS
<1>1. \A s \in Sessions : session[s] = Down
  BY DEF Init
<1>2. TypeOK
  <2>1. session \in [Sessions -> Session]
    BY DownType DEF Init
  <2>2. \A s \in Sessions : DOMAIN session[s].outputs = {}
    BY <1>1, DownType, NoOutputsType
  <2>3. fetches \in 0 .. MaxFetches /\ failures \in 0 .. MaxFailures
        /\ starts \in 0 .. MaxStarts /\ ticks \in 0 .. MaxTicks
    BY SubscriptionAssumption DEF Init
  <2> QED
    BY <2>1, <2>2, <2>3 DEF Init, TypeOK
<1>3. RequestInv /\ SaveInv
  BY <1>1, DownType DEF RequestInv, SaveInv
<1>4. TaskInv
  BY DEF Init, TaskInv
<1>5. OneFetch
  <2>1. \A s \in Sessions : session[s].automatic = 0
    BY <1>1, DownType
  <2>2. \A s \in Sessions : session[s].automatic <= 1
    BY <2>1
  <2> QED
    BY <2>2 DEF Init, OneFetch
<1>6. AgeInv
  <2>1. fetches = 0 /\ file \in {None, Damaged}
    BY DEF Init
  <2>2. \A s \in Sessions : DOMAIN session[s].outputs = {} /\ session[s].fetch = 0
    BY <1>1, DownType, NoOutputsType
  <2>3. \A s \in Sessions : session[s].fetch <= fetches
    BY <2>1, <2>2
  <2> QED
    BY <2>1, <2>2, <2>3 DEF AgeInv, NotNewer
<1>7. EveryProviderAnswered /\ StaleIsMarked /\ DiskMirrorsDisplay
  BY <1>1, DownType DEF EveryProviderAnswered, StaleIsMarked, DiskMirrorsDisplay
<1> QED
  BY <1>2, <1>3, <1>4, <1>5, <1>6, <1>7 DEF Inv

\* Every step keeps the invariant.
LEMMA NextInv == Inv /\ [Next]_vars => Inv'
<1> SUFFICES ASSUME Inv, [Next]_vars PROVE Inv'
  OBVIOUS
<1>1. CASE ChangeClock \/ UNCHANGED vars
  BY <1>1, ClockInv
<1>2. ASSUME NEW s \in Sessions,
             Start(s) \/ LoopStep(s) \/ SwitchTab(s) \/ PressRefresh(s) \/ Leave(s) \/ TaskStep(s)
      PROVE  Inv'
  <2>1. CASE Start(s)
    BY <2>1, StartInv
  <2>2. CASE PollBatch(s)
    BY <2>2, BatchInv
  <2>3. CASE PollDisconnected(s)
    BY <2>3, DisconnectedInv
  <2>4. CASE StartFetch(s) /\ session[s].lifecycle = "queued"
    BY <2>4, FetchInv
  <2>5. CASE Flush(s) /\ session[s].effect # None
    BY <2>5, SavedInv
  <2>6. CASE \/ PollPending(s) \/ Wake(s) \/ SwitchTab(s) \/ PressRefresh(s)
             \/ StartFetch(s) /\ session[s].lifecycle # "queued"
             \/ Flush(s) /\ session[s].effect = None
    <3>1. TypeOK
      BY DEF Inv
    <3> QED
      BY <2>6, <3>1, QuietSteps, QuietInv
  <2>7. CASE Leave(s)
    BY <2>7, LeaveInv
  <2>8. CASE TaskStep(s)
    BY <2>8, TaskStepInv
  <2> QED
    BY <1>2, <2>1, <2>2, <2>3, <2>4, <2>5, <2>6, <2>7, <2>8 DEF LoopStep
<1> QED
  BY <1>1, <1>2 DEF Next

\* Inv is an invariant of the tab, its fetches and its cache.
THEOREM FetchInvariant == Spec => []Inv
<1> QED
  BY InitInv, NextInv, PTL DEF Spec

\* Every variable keeps its type, and a session that names providers shows no other.
THEOREM TypesOfFetch == Spec => []TypeOK
<1>1. Inv => TypeOK
  BY DEF Inv
<1> QED
  BY <1>1, FetchInvariant, PTL

\* No fetch runs whose batch nobody will read, and the tab opens with one at most.
THEOREM FetchIsUnique == Spec => []OneFetch
<1>1. Inv => OneFetch
  BY DEF Inv
<1> QED
  BY <1>1, FetchInvariant, PTL

\* After a fetch every enabled provider is fresh, or an error says why it is not.
THEOREM FetchAnswers == Spec => []EveryProviderAnswered
<1>1. Inv => EveryProviderAnswered
  BY DEF Inv
<1> QED
  BY <1>1, FetchInvariant, PTL

\* After a batch exactly what it did not renew is marked stale.
THEOREM FetchMarks == Spec => []StaleIsMarked
<1>1. Inv => StaleIsMarked
  BY DEF Inv
<1> QED
  BY <1>1, FetchInvariant, PTL

\* After a save the file holds what is shown, or the difference is accounted for.
THEOREM FetchMirrored == Spec => []DiskMirrorsDisplay
<1>1. Inv => DiskMirrorsDisplay
  BY DEF Inv
<1> QED
  BY <1>1, FetchInvariant, PTL

\* What one session shows after a step is no older, and nothing of it is gone.
KeptShown(s) ==
    \A p \in DOMAIN session[s].outputs :
        /\ p \in DOMAIN session'[s].outputs
        /\ session'[s].outputs[p].from >= session[s].outputs[p].from

\* A session whose outputs do not change shows what it showed.
LEMMA SameShown ==
    ASSUME TypeOK, NEW s \in Sessions, session'[s].outputs = session[s].outputs
    PROVE  KeptShown(s)
<1>1. session[s].outputs \in Outputs
  BY DEF TypeOK, Session
<1>2. \A p \in DOMAIN session[s].outputs : session[s].outputs[p].from \in 0 .. MaxFetches
  BY <1>1, OutputsElim
<1>3. \A p \in DOMAIN session[s].outputs :
        session[s].outputs[p].from >= session[s].outputs[p].from
  BY <1>2
<1> QED
  BY <1>3 DEF KeptShown

\* A batch only replaces what it renews, by its own, later fetch.
LEMMA BatchAdvances ==
    ASSUME Inv, NEW s \in Sessions, PollBatch(s)
    PROVE  KeptShown(s)
<1> DEFINE x == session[s]
           y == session'[s]
<1>1. PICK t \in MyTask(s) :
          /\ t.sent
          /\ session' = [session EXCEPT ![s] = [Installed(x, t) EXCEPT !.step = "start"]]
  BY DEF PollBatch
<1>2. x.lifecycle = "running" /\ x.effect = None
  BY DEF PollBatch, Inv, SaveInv
<1>3. /\ t \in Task /\ \A p \in DOMAIN t.outputs : t.outputs[p].from = x.fetch
      /\ \A p \in x.config.enabled :
           p \in DOMAIN t.outputs \/ t.errors \cap {p, Unknown} # {}
  BY <1>1, BatchFacts
<1>4. session \in [Sessions -> Session] /\ x \in Session /\ t.errors \in Errors
  BY <1>3 DEF Inv, TypeOK, Task
<1>5. y.outputs = Merged(x, t)
  <2>1. y = [Installed(x, t) EXCEPT !.step = "start"]
    BY <1>1, <1>4
  <2> QED
    BY <1>2, <1>3, <1>4, <2>1, InstalledType
<1>6. DOMAIN x.outputs \subseteq x.config.enabled
  BY <1>2 DEF Inv, RequestInv, TypeOK
<1> HIDE DEF x, y
<1>7. ASSUME NEW p \in DOMAIN x.outputs
      PROVE  p \in DOMAIN Merged(x, t) /\ Merged(x, t)[p].from >= x.outputs[p].from
  <2>1. x.outputs[p].from \in 0 .. MaxFetches /\ x.outputs[p].from <= x.fetch
    <3>1. x.outputs[p].from \in 0 .. MaxFetches
      BY <1>4, OutputsElim DEF Session
    <3> QED
      BY <1>2, <3>1 DEF Inv, AgeInv, NotNewer, x
  <2>2. x.fetch \in 0 .. MaxFetches
    BY <1>4 DEF Session
  <2>3. CASE p \in DOMAIN t.outputs
    <3>1. p \in DOMAIN Merged(x, t) /\ Merged(x, t)[p].from = x.fetch
      BY <1>3, <1>4, <1>6, <2>3, MergedType
    <3> QED
      BY <2>1, <2>2, <3>1
  <2>4. CASE p \notin DOMAIN t.outputs
    <3>1. p \in Kept(x, t)
      BY <1>3, <1>6, <2>4 DEF Kept
    <3>2. p \in DOMAIN Merged(x, t) /\ Merged(x, t)[p].from = x.outputs[p].from
      BY <1>3, <1>4, <2>4, <3>1, MergedType
    <3> QED
      BY <2>1, <3>2
  <2> QED
    BY <2>3, <2>4
<1> QED
  BY <1>5, <1>7 DEF KeptShown, x, y

\* While a session runs, nothing it shows disappears or is set back.
THEOREM FetchAdvances == Spec => DisplayOnlyAdvances
<1>1. ASSUME Inv, Next, NEW r \in Sessions, Up(r), Up(r)'
      PROVE  KeptShown(r)
  <2>1. TypeOK /\ session \in [Sessions -> Session]
    BY <1>1 DEF Inv, TypeOK
  <2>2. CASE session'[r].outputs = session[r].outputs
    BY <1>1, <2>1, <2>2, SameShown
  <2>3. CASE session'[r].outputs # session[r].outputs
    <3>1. PICK s \in Sessions :
              \/ Start(s) \/ LoopStep(s) \/ SwitchTab(s) \/ PressRefresh(s)
              \/ Leave(s) \/ TaskStep(s)
      BY <1>1, <2>3 DEF Next, ChangeClock
    <3>2. CASE \/ PollPending(s) \/ Wake(s) \/ SwitchTab(s) \/ PressRefresh(s)
               \/ StartFetch(s) /\ session[s].lifecycle # "queued"
               \/ Flush(s) /\ session[s].effect = None
      <4>1. Quiet(s)
        BY <2>1, <3>2, QuietSteps
      <4> QED
        BY <2>3, <4>1 DEF Quiet, Others
    <3>3. CASE Start(s) \/ Leave(s)
      <4>1. r # s
        BY <1>1, <2>1, <3>3, DownType DEF Start, Leave, Up
      <4> QED
        BY <2>1, <2>3, <3>3, <4>1 DEF Start, Leave
    <3>4. CASE TaskStep(s)
      BY <2>3, <3>4 DEF TaskStep
    <3>5. CASE PollBatch(s)
      <4>1. r = s
        BY <2>1, <2>3, <3>5 DEF PollBatch
      <4> QED
        BY <1>1, <3>5, <4>1, BatchAdvances
    <3>6. CASE PollDisconnected(s)
      BY <2>1, <2>3, <3>6 DEF PollDisconnected, Disconnected, Session
    <3>7. CASE StartFetch(s) /\ session[s].lifecycle = "queued"
      <4>1. session' = [session EXCEPT ![s].step = "flush", ![s].lifecycle = "running",
                                       ![s].fetch = fetches']
        BY <3>7 DEF StartFetch
      <4> QED
        BY <2>1, <2>3, <4>1 DEF Session
    <3>8. CASE Flush(s) /\ session[s].effect # None
      <4>1. \/ session' = [session EXCEPT ![s].effect = None, ![s].step = "wait"]
            \/ session' = [session EXCEPT ![s] = NoteFailure(session[s])]
        BY <3>8 DEF Flush
      <4>2. CASE session' = [session EXCEPT ![s].effect = None, ![s].step = "wait"]
        BY <2>1, <2>3, <4>2 DEF Session
      <4>3. CASE session' = [session EXCEPT ![s] = NoteFailure(session[s])]
        BY <2>1, <2>3, <4>3 DEF NoteFailure, Session
      <4> QED
        BY <4>1, <4>2, <4>3
    <3> QED
      BY <3>1, <3>2, <3>3, <3>4, <3>5, <3>6, <3>7, <3>8 DEF LoopStep
  <2> QED
    BY <2>2, <2>3
<1>2. ASSUME Inv, [Next]_vars
      PROVE  [\A s \in Sessions : Up(s) /\ Up(s)' =>
                \A p \in DOMAIN session[s].outputs :
                    /\ p \in DOMAIN session'[s].outputs
                    /\ session'[s].outputs[p].from >= session[s].outputs[p].from]_vars
  BY <1>1, <1>2 DEF KeptShown
<1> QED
  BY <1>2, FetchInvariant, PTL DEF Spec, DisplayOnlyAdvances
=============================================================================
