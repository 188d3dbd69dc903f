------------------------- MODULE SubscriptionUsage -------------------------
(***************************************************************************)
(* The subscription tab: SubscriptionState (subscription/model.rs), its     *)
(* fetch task (subscription/service.rs), its cache file                     *)
(* (subscription/cache.rs) and the event loop that drives them.              *)
(*                                                                         *)
(* A fetch asks every enabled provider at once and sends one batch over a    *)
(* channel; the loop polls the channel, merges the batch with what it shows, *)
(* and saves the result.  Sessions share the cache file without a lock.      *)
(* The quota of a provider is the number of the fetch it came with.          *)
(***************************************************************************)
EXTENDS Integers, FiniteSets

CONSTANTS
    Sessions,      \* processes that show the tab and share the file
    Providers,
    Configs,       \* settings and command lines a session may start with
    MaxAge,        \* CACHE_MAX_AGE_SECS
    MaxTime,       \* bound: the clock
    MaxTicks,      \* bound: changes of the clock, in either direction
    MaxFetches,    \* bound: fetches of all sessions
    MaxFailures,   \* bound: failing providers, tasks, reads and writes
    MaxStarts,     \* bound: starts of a process
    Damaged,       \* a file that does not decode
    Unknown,       \* an error of no provider: a panic of a fetch
    Cache,         \* an error of the cache file
    None

ASSUME SubscriptionAssumption ==
    /\ {MaxAge, MaxTime, MaxTicks, MaxFetches, MaxFailures, MaxStarts} \subseteq Nat
    /\ Configs # {}
    /\ Configs \subseteq [enabled : SUBSET Providers, on : BOOLEAN, offline : BOOLEAN]
    /\ {Unknown, Cache} \cap Providers = {} /\ Unknown # Cache
    /\ Damaged # None

VARIABLES
    session,   \* the state of each process
    tasks,     \* fetch tasks, and the batches they have sent
    file,      \* the cache file
    author,    \* history: the session that wrote it last
    now,       \* the wall clock
    fetches, failures, starts, ticks

bounds == <<failures, starts, ticks>>
vars == <<session, tasks, file, author, now, fetches, bounds>>

Time == 0 .. MaxTime
Fetch == 1 .. MaxFetches

\* SubscriptionOutput: the quota, and whether a later fetch failed to renew it.
Output == [from : 0 .. MaxFetches, stale : BOOLEAN]
Outputs == UNION {[shown -> Output] : shown \in SUBSET Providers}
NoOutputs == [p \in {} |-> 0]
ASSUME NoneAssumption == None \notin Outputs
Errors == SUBSET (Providers \cup {Unknown, Cache})

\* CacheEnvelope.
CacheFile == [stamp : Time, data : Outputs]

Task ==
    [session : Sessions, id : Fetch, waiting : SUBSET Providers,
     outputs : Outputs, errors : Errors, sent : BOOLEAN]

\* SubscriptionState, the tab, the pending effect, and the place in the loop.
\* "answered" is history: the providers the last batch was merged with, None
\* before the first one and after a task that sent none.  "automatic" counts the
\* fetches started by opening the tab.
Session ==
    [step : {"down", "poll", "start", "flush", "wait"},
     config : Configs, open : BOOLEAN,
     lifecycle : {"not started", "queued", "running", "settled"},
     fetch : 0 .. MaxFetches,
     outputs : Outputs, errors : Errors, effect : Outputs \cup {None},
     answered : (SUBSET Providers) \cup {None}, automatic : Nat]

Down ==
    [step |-> "down", config |-> CHOOSE c \in Configs : TRUE, open |-> FALSE,
     lifecycle |-> "not started", fetch |-> 0, outputs |-> NoOutputs,
     errors |-> {}, effect |-> None, answered |-> None, automatic |-> 0]

Up(s) == session[s].step # "down"

Fault == failures < MaxFailures /\ failures' = failures + 1

Init ==
    /\ session = [s \in Sessions |-> Down]
    /\ tasks = {} /\ author = None /\ now \in Time
    /\ file \in {None, Damaged}
    /\ fetches = 0 /\ failures = 0 /\ starts = 0 /\ ticks = 0

-----------------------------------------------------------------------------
(* Requests.                                                               *)

\* Mutant: a request while one is under way starts another.
RequestAgain(x) ==
    IF x.config.offline \/ x.config.enabled = {} THEN x
    ELSE [x EXCEPT !.lifecycle = "queued"]

\* fetch_subscription.
RequestFetch(x) ==
    IF x.config.offline \/ x.lifecycle \in {"queued", "running"} \/ x.config.enabled = {}
    THEN x ELSE [x EXCEPT !.lifecycle = "queued"]

\* should_start_initial_subscription_fetch.
FirstEntry(x) ==
    /\ x.open /\ ~x.config.offline /\ x.config.on
    /\ x.lifecycle = "not started" /\ x.config.enabled # {}

\* maybe_fetch_subscription_on_entry.
OnEntry(x) ==
    IF FirstEntry(x) THEN [RequestFetch(x) EXCEPT !.automatic = @ + 1] ELSE x

\* cache::load: what it answers, before the provider settings filter it.
Loaded ==
    IF file \in {None, Damaged} THEN file
    ELSE CASE file.stamp > now -> Damaged
           [] now - file.stamp > MaxAge -> None
           [] OTHER -> file.data

\* Mutant: the cache shows providers the settings no longer name.
Unrestricted(outputs, enabled) == outputs

\* SubscriptionState::new.
Restricted(outputs, enabled) ==
    [p \in (IF enabled = {} THEN DOMAIN outputs ELSE DOMAIN outputs \cap enabled)
        |-> outputs[p]]

\* TuiModel::new: the cache is read only when the tab exists.
Started(config, open, cached) ==
    OnEntry([Down EXCEPT
        !.step = "poll", !.config = config, !.open = open,
        !.outputs = IF cached \in {None, Damaged} THEN NoOutputs
                    ELSE Restricted(cached, config.enabled),
        !.errors = IF cached = Damaged THEN {Cache} ELSE {}])

Start(s) ==
    /\ ~Up(s) /\ starts < MaxStarts /\ starts' = starts + 1
    /\ \E config \in Configs, open \in BOOLEAN :
           /\ open => config.on
           /\ \/ /\ session' = [session EXCEPT ![s] =
                         Started(config, open, IF config.on THEN Loaded ELSE None)]
                 /\ UNCHANGED failures
              \/ /\ config.on /\ Fault
                 /\ session' = [session EXCEPT ![s] = Started(config, open, Damaged)]
    /\ UNCHANGED <<tasks, file, author, now, fetches, ticks>>

-----------------------------------------------------------------------------
(* The event loop: poll, start a requested fetch, flush effects, wait for    *)
(* an event.  on_tick polls and flushes too; it is a wake-up here.           *)

\* Mutant: only outputs of providers that failed themselves are kept.
KeptIfAttributed(x, batch) ==
    {p \in x.config.enabled \ DOMAIN batch.outputs :
        p \in DOMAIN x.outputs /\ p \in batch.errors}

\* Shown providers the batch does not renew, when anything in it failed.
Kept(x, batch) ==
    {p \in x.config.enabled \ DOMAIN batch.outputs :
        p \in DOMAIN x.outputs /\ batch.errors # {}}

\* Mutant: a kept output is not marked.
MergedUnmarked(x, batch) ==
    LET renewed == x.config.enabled \cap DOMAIN batch.outputs
    IN  [p \in renewed \cup Kept(x, batch) |->
            IF p \in renewed THEN [batch.outputs[p] EXCEPT !.stale = FALSE]
            ELSE x.outputs[p]]

\* SubscriptionState::install.
Merged(x, batch) ==
    LET renewed == x.config.enabled \cap DOMAIN batch.outputs
    IN  [p \in renewed \cup Kept(x, batch) |->
            IF p \in renewed THEN [batch.outputs[p] EXCEPT !.stale = FALSE]
            ELSE [x.outputs[p] EXCEPT !.stale = TRUE]]

\* Mutant: the file is written only when every provider answered.
InstalledIfWhole(x, batch) ==
    [x EXCEPT !.lifecycle = "settled",
              !.outputs = Merged(x, batch), !.errors = batch.errors,
              !.answered = DOMAIN batch.outputs,
              !.effect = IF batch.errors # {} THEN @ ELSE Merged(x, batch)]

\* poll_subscription with a batch: whatever is shown then is saved.
Installed(x, batch) ==
    [x EXCEPT !.lifecycle = "settled",
              !.outputs = Merged(x, batch), !.errors = batch.errors,
              !.answered = DOMAIN batch.outputs,
              !.effect = IF Merged(x, batch) = NoOutputs THEN @ ELSE Merged(x, batch)]

\* Mutant: a lost task is taken for a slow one.
StillPending(x) == x

\* install_disconnected: the outputs stay, unmarked.
Disconnected(x) ==
    [x EXCEPT !.lifecycle = "settled", !.errors = {Unknown}, !.answered = None]

MyTask(s) == {t \in tasks : t.session = s /\ t.id = session[s].fetch}

PollBatch(s) ==
    /\ session[s].step = "poll" /\ session[s].lifecycle = "running"
    /\ \E t \in MyTask(s) :
           /\ t.sent
           /\ session' = [session EXCEPT ![s] = [Installed(@, t) EXCEPT !.step = "start"]]
           /\ tasks' = tasks \ {t}
    /\ UNCHANGED <<file, author, now, fetches, bounds>>

PollDisconnected(s) ==
    /\ session[s].step = "poll" /\ session[s].lifecycle = "running" /\ MyTask(s) = {}
    /\ session' = [session EXCEPT ![s] = [Disconnected(@) EXCEPT !.step = "start"]]
    /\ UNCHANGED <<tasks, file, author, now, fetches, bounds>>

PollPending(s) ==
    /\ session[s].step = "poll"
    /\ session[s].lifecycle = "running" => \E t \in MyTask(s) : ~t.sent
    /\ session' = [session EXCEPT ![s].step = "start"]
    /\ UNCHANGED <<tasks, file, author, now, fetches, bounds>>

\* start_requested_subscription_fetch, take_request and the spawned task.
StartFetch(s) ==
    /\ session[s].step = "start"
    /\ IF session[s].lifecycle # "queued"
       THEN session' = [session EXCEPT ![s].step = "flush"] /\ UNCHANGED <<tasks, fetches>>
       ELSE /\ fetches < MaxFetches /\ fetches' = fetches + 1
            /\ session' = [session EXCEPT ![s].step = "flush", ![s].lifecycle = "running",
                                          ![s].fetch = fetches']
            /\ tasks' = tasks \cup
                   {[session |-> s, id |-> fetches', waiting |-> session[s].config.enabled,
                     outputs |-> NoOutputs, errors |-> {}, sent |-> FALSE]}
    /\ UNCHANGED <<file, author, now, bounds>>

\* Mutant: a failing write goes unreported.
NoteSilently(x) == [x EXCEPT !.effect = None, !.step = "wait"]

\* SubscriptionCachePersisted with an error.
NoteFailure(x) ==
    [x EXCEPT !.effect = None, !.step = "wait", !.errors = @ \cup {Cache}]

\* execute_pending.  write_atomic may fail after it has replaced the file.
Flush(s) ==
    LET saved == [stamp |-> now, data |-> session[s].effect]
        replaced == file' = saved /\ author' = s
    IN  /\ session[s].step = "flush"
        /\ \/ /\ session[s].effect = None
              /\ session' = [session EXCEPT ![s].step = "wait"]
              /\ UNCHANGED <<file, author, failures>>
           \/ /\ session[s].effect # None /\ replaced
              /\ session' = [session EXCEPT ![s].effect = None, ![s].step = "wait"]
              /\ UNCHANGED failures
           \/ /\ session[s].effect # None /\ Fault
              /\ replaced \/ UNCHANGED <<file, author>>
              /\ session' = [session EXCEPT ![s] = NoteFailure(@)]
        /\ UNCHANGED <<tasks, now, fetches, starts, ticks>>

\* A tick, a background result, or any key that does not concern the tab.
Wake(s) ==
    /\ session[s].step = "wait"
    /\ session' = [session EXCEPT ![s].step = "poll"]
    /\ UNCHANGED <<tasks, file, author, now, fetches, bounds>>

\* switch_tab.
SwitchTab(s) ==
    /\ session[s].step = "wait" /\ session[s].config.on
    /\ \E open \in BOOLEAN :
           session' = [session EXCEPT ![s] =
               OnEntry([@ EXCEPT !.open = open, !.step = "poll"])]
    /\ UNCHANGED <<tasks, file, author, now, fetches, bounds>>

\* Intent::RefreshSubscription.
PressRefresh(s) ==
    /\ session[s].step = "wait" /\ session[s].open
    /\ session' = [session EXCEPT ![s] = [RequestFetch(@) EXCEPT !.step = "poll"]]
    /\ UNCHANGED <<tasks, file, author, now, fetches, bounds>>

\* The session ends, or is killed: its tasks are aborted and its effect is lost.
Leave(s) ==
    /\ Up(s)
    /\ session' = [session EXCEPT ![s] = Down]
    /\ tasks' = {t \in tasks : t.session # s}
    /\ UNCHANGED <<file, author, now, fetches, bounds>>

-----------------------------------------------------------------------------
(* fetch_enabled.                                                          *)

Replace(t, u) == tasks' = (tasks \ {t}) \cup {u}

\* join_next: a provider has answered, in any order.
Answer(t) ==
    \E p \in t.waiting :
        /\ Replace(t, [t EXCEPT !.waiting = @ \ {p},
               !.outputs = [q \in DOMAIN @ \cup {p} |->
                   IF q = p THEN [from |-> t.id, stale |-> FALSE] ELSE @[q]]])
        /\ UNCHANGED failures

\* Mutant: a panic of a provider's task is dropped.
DroppedPanic(p) == {{p}, {}}

\* What a provider that fails, times out or panics adds to the batch.
FailureOf(p) == {{p}, {Unknown}}

FailProvider(t) ==
    \E p \in t.waiting : \E e \in FailureOf(p) :
        Fault /\ Replace(t, [t EXCEPT !.waiting = @ \ {p}, !.errors = @ \cup e])

\* subscription_client fails: an error for every provider.
FailClient(t) ==
    /\ Fault /\ t.waiting = session[t.session].config.enabled
    /\ Replace(t, [t EXCEPT !.waiting = {}, !.errors = t.waiting])

Send(t) ==
    /\ t.waiting = {} /\ ~t.sent /\ UNCHANGED failures
    /\ Replace(t, [t EXCEPT !.sent = TRUE])

\* The task ends without a batch, and drops the sender.
LoseTask(t) == ~t.sent /\ Fault /\ tasks' = tasks \ {t}

TaskStep(s) ==
    /\ \E t \in tasks :
           /\ t.session = s
           /\ Answer(t) \/ FailProvider(t) \/ FailClient(t) \/ Send(t) \/ LoseTask(t)
    /\ UNCHANGED <<session, file, author, now, fetches, starts, ticks>>

ChangeClock ==
    /\ ticks < MaxTicks /\ ticks' = ticks + 1
    /\ now' \in Time \ {now}
    /\ UNCHANGED <<session, tasks, file, author, fetches, failures, starts>>

LoopStep(s) ==
    \/ PollBatch(s) \/ PollDisconnected(s) \/ PollPending(s)
    \/ StartFetch(s) \/ Flush(s) \/ Wake(s)

Next ==
    \/ \E s \in Sessions :
           \/ Start(s) \/ LoopStep(s) \/ SwitchTab(s) \/ PressRefresh(s)
           \/ Leave(s) \/ TaskStep(s)
    \/ ChangeClock

Spec == Init /\ [][Next]_vars

\* The tick thread wakes the loop, and every provider answers or times out.
Fairness == \A s \in Sessions : WF_vars(LoopStep(s)) /\ WF_vars(TaskStep(s))

FairSpec == Spec /\ Fairness

-----------------------------------------------------------------------------
(* Properties.                                                             *)

\* Every variable has its type, and a session that names providers shows no other,
\* whatever an earlier session with other settings has left in the file.
TypeOK ==
    /\ session \in [Sessions -> Session]
    /\ \A s \in Sessions : session[s].config.enabled # {} =>
           DOMAIN session[s].outputs \subseteq session[s].config.enabled
    /\ tasks \subseteq Task
    /\ file \in CacheFile \cup {None, Damaged}
    /\ author \in Sessions \cup {None}
    /\ now \in Time /\ fetches \in 0 .. MaxFetches
    /\ failures \in 0 .. MaxFailures /\ starts \in 0 .. MaxStarts /\ ticks \in 0 .. MaxTicks

\* No fetch runs whose batch nobody will read: a session that is up has at most
\* one task, the one its channel belongs to.  A second request, a restart of the
\* request, or a request from the tab beside one from the keyboard would break it.
\* Opening the tab fetches at most once in a session.
OneFetch ==
    /\ \A t \in tasks :
        /\ session[t.session].lifecycle = "running"
        /\ session[t.session].fetch = t.id
        /\ \A u \in tasks : u.session = t.session => u = t
    /\ \A s \in Sessions : session[s].automatic <= 1

\* Once a fetch has settled, every enabled provider is shown as it was just
\* fetched, or an error says why not: its own, or one of no provider.
EveryProviderAnswered ==
    \A s \in Sessions :
        session[s].lifecycle = "settled" =>
            \A p \in session[s].config.enabled :
                \/ /\ p \in DOMAIN session[s].outputs
                   /\ ~session[s].outputs[p].stale
                   /\ session[s].outputs[p].from = session[s].fetch
                \/ session[s].errors \cap {p, Unknown} # {}

\* After a batch, exactly the outputs the batch did not renew are marked stale:
\* also those that were read from the cache, or were stale before.
StaleIsMarked ==
    \A s \in Sessions :
        session[s].answered # None =>
            \A p \in DOMAIN session[s].outputs :
                session[s].outputs[p].stale <=> p \notin session[s].answered

\* After a batch and its save, the file holds what its session shows, marks
\* included, unless an error of the cache is shown or another session has written
\* since: a restart finds the quotas and the marks the user has seen.
DiskMirrorsDisplay ==
    \A s \in Sessions :
        LET x == session[s]
        IN  x.answered # None /\ x.effect = None /\ x.outputs # NoOutputs =>
                \/ author = s /\ file.data = x.outputs
                \/ author \in Sessions \ {s}
                \/ Cache \in x.errors

\* While a session runs nothing it shows disappears or is set back by a later
\* fetch, whatever fails in it: a quota is only replaced by a newer one.
DisplayOnlyAdvances ==
    [][\A s \in Sessions : Up(s) /\ Up(s)' =>
           \A p \in DOMAIN session[s].outputs :
               /\ p \in DOMAIN session'[s].outputs
               /\ session'[s].outputs[p].from >= session[s].outputs[p].from]_vars

\* A requested fetch settles, unless the session ends or the bound on fetches is
\* used up: each provider answers, fails or times out, and the loop polls.
FetchSettles ==
    \A s \in Sessions :
        session[s].lifecycle \in {"queued", "running"} ~>
            \/ session[s].lifecycle \notin {"queued", "running"}
            \/ fetches = MaxFetches /\ session[s].lifecycle = "queued"

\* ADR 0005: "An empty or wholly failed fetch keeps the installed snapshot and
\* disk cache while exposing the new errors."  A save comes from a batch that
\* renewed something.
FailedFetchKeepsDisk ==
    [][\A s \in Sessions :
           file' # file /\ author' = s => session[s].answered \notin {{}, None}]_vars
=============================================================================
