-------------------------- MODULE GenerationCache --------------------------
(***************************************************************************)
(* The generation cache file (generation_cache.rs) and the processes that    *)
(* share it: a TUI session and `tokenx cache warm`, each of which may load    *)
(* and save it, be killed at any step, and see the clock step backwards.     *)
(*                                                                         *)
(* The file is written through AtomicFile, which FsAtomic implements.  Its   *)
(* header carries the schedule on which failing inputs are read again, so    *)
(* that schedule survives a restart and grows from one save to the next.     *)
(***************************************************************************)
EXTENDS Integers

CONSTANTS
    Sessions,      \* processes that use the file
    Config,        \* the acquisition configuration of each
    Failures,      \* failure signatures a generation's health may have
    BaseDelay, MaxDelay,  \* RETRY_BASE_DELAY_MS, RETRY_MAX_DELAY_MS
    FreshFor,      \* CACHE_STALE_THRESHOLD_MS
    MaxTime,       \* u64::MAX milliseconds
    MaxAttempt,    \* u32::MAX
    Settings,      \* which processes run and the failures they meet; bounds: saves,
                   \* failing reads and writes, changes of the clock
    MaxRewinds,    \* bound: how many of them are backwards
    MaxCrashes,    \* bound: killed processes and power losses
    Healthy,       \* the health of a generation without input failures
    Foreign,       \* a file of an older schema, or not a cache file at all
    None

ASSUME CacheAssumption ==
    /\ {BaseDelay, MaxDelay, FreshFor, MaxTime, MaxAttempt} \subseteq Nat \ {0}
    /\ {MaxRewinds, MaxCrashes} \subseteq Nat
    /\ Settings \subseteq [users : SUBSET Sessions, failures : SUBSET Failures,
                           saves : Nat, errors : Nat, ticks : Nat]
    /\ DOMAIN Config = Sessions
    /\ Healthy \notin Failures /\ None \notin Failures /\ Foreign # None

VARIABLES
    file, kept, call,   \* the file, as AtomicFile describes it
    now,                \* the wall clock, BeforeEpoch when it cannot be read
    session,            \* what each process is doing and has been answered
    setting, saves, ticks, rewinds, errors, crashes

bounds == <<setting, saves, ticks, rewinds, errors, crashes>>
disk == <<file, kept, call>>
vars == <<disk, now, session, bounds>>

BeforeEpoch == -1
Time == 0 .. MaxTime
Lesser(a, b) == IF a < b THEN a ELSE b

\* RetryBackoff, as far as the header keeps it.
Schedule == [signature : Failures, attempt : 1 .. MaxAttempt, notBefore : Time]

\* CacheHeader and the body it authenticates: the body's health and
\* configuration are read from the generation, the rest from the header.
NoRetry == [signature |-> None, attempt |-> 0, notBefore |-> 0]
CacheFile ==
    [savedAt : Time, retry : Schedule \cup {NoRetry},
     health : Failures \cup {Healthy}, config : {Config[s] : s \in Sessions}]

ASSUME FileAssumption ==
    None \notin CacheFile \cup Schedule /\ Foreign \notin CacheFile

Disk == INSTANCE AtomicFile WITH
    Processes <- Sessions, Contents <- CacheFile \cup {Foreign},
    visible <- file, recover <- kept, call <- call

Session ==
    [step : {"idle", "read", "writing", "opened"},
     result : {"none", "fresh", "stale", "deferred", "missing", "failed",
               "saved", "unsaved"},
     schedule : Schedule \cup {None},
     previous : Schedule \cup {None},
     snapshot : CacheFile \cup {Foreign, None},
     health : Failures \cup {Healthy}]

Resting(result, schedule) ==
    [step |-> "idle", result |-> result, schedule |-> schedule,
     previous |-> None, snapshot |-> None, health |-> Healthy]

Rest(s, result, schedule) ==
    session' = [session EXCEPT ![s] = Resting(result, schedule)]

Error == errors < setting.errors /\ errors' = errors + 1

Init ==
    /\ file \in {None, Foreign}
    /\ Disk!Init
    /\ now \in Time
    /\ session = [s \in Sessions |-> Resting("none", None)]
    /\ setting \in Settings
    /\ saves = 0 /\ ticks = 0 /\ rewinds = 0 /\ errors = 0 /\ crashes = 0

-----------------------------------------------------------------------------
(* RetryBackoff::next.                                                     *)

\* Mutant: the counter does not saturate.
AttemptUnsaturated(health, previous) ==
    IF previous # None /\ previous.signature = health
    THEN previous.attempt + 1 ELSE 1

\* A failure unlike the previous one starts over.
Attempt(health, previous) ==
    IF previous # None /\ previous.signature = health
    THEN Lesser(previous.attempt + 1, MaxAttempt) ELSE 1

\* The shift is capped at 31 so that it cannot overflow.
Delay(attempt) ==
    LET exponent == IF attempt = 0 THEN 0 ELSE Lesser(attempt - 1, 31)
    IN  Lesser(BaseDelay * 2 ^ exponent, MaxDelay)

\* Mutant: a schedule that is still running is kept, whatever fails now.
KeptWhileRunning(health, previous, time) ==
    IF health = Healthy THEN NoRetry
    ELSE IF previous # None /\ previous.notBefore > time THEN previous
    ELSE [signature |-> health, attempt |-> Attempt(health, previous),
          notBefore |-> Lesser(time + Delay(Attempt(health, previous)), MaxTime)]

NextRetry(health, previous, time) ==
    IF health = Healthy THEN NoRetry
    ELSE LET attempt == Attempt(health, previous)
         IN  [signature |-> health, attempt |-> attempt,
              notBefore |-> Lesser(time + Delay(attempt), MaxTime)]

ScheduleOf(retry) == IF retry.signature = None THEN None ELSE retry

-----------------------------------------------------------------------------
(* Decoding.                                                               *)

\* decode_cache_header.
HeaderValid(f) ==
    /\ f \notin {Foreign, None}
    /\ \/ f.retry = NoRetry
       \/ /\ f.retry.signature # None
          /\ f.retry.attempt > 0 /\ f.retry.notBefore >= f.savedAt

\* decode_generation_from_reader: the schedule is that of the body's health.
Decodes(f) ==
    /\ HeaderValid(f)
    /\ IF f.health = Healthy THEN f.retry = NoRetry
       ELSE f.retry.signature = f.health

-----------------------------------------------------------------------------
(* load_generation_cache.                                                  *)

\* The file is opened once; what follows reads that inode.
OpenCache(s) ==
    /\ session[s].step = "idle"
    /\ session' = [session EXCEPT ![s].step = "opened", ![s].snapshot = file]
    /\ UNCHANGED <<disk, now, bounds>>

\* Mutant: a file from the future is as old as the clock says.
AcceptFuture(f) == now # BeforeEpoch

ClockAgrees(f) == now # BeforeEpoch /\ now >= f.savedAt

\* The result and the schedule that goes with it.
LoadResult(s, f) ==
    CASE f = None -> <<"missing", None>>
      [] f # None /\ ~Decodes(f) -> <<"failed", None>>
      [] f # None /\ Decodes(f) /\ f.config # Config[s] -> <<"missing", None>>
      [] OTHER ->
           IF ~ClockAgrees(f) THEN <<"failed", None>>
           ELSE IF f.health # Healthy
           THEN <<IF now >= f.retry.notBefore THEN "stale" ELSE "deferred", f.retry>>
           ELSE <<IF now - f.savedAt <= FreshFor THEN "fresh" ELSE "stale", None>>

FinishLoad(s) ==
    /\ session[s].step = "opened"
    /\ LET result == LoadResult(s, session[s].snapshot)
       IN  Rest(s, result[1], result[2])
    /\ UNCHANGED <<disk, now, bounds>>

\* The file cannot be opened, inspected or read.
FailLoad(s) ==
    /\ session[s].step = "opened" /\ session[s].snapshot # None
    /\ Error /\ Rest(s, "failed", None)
    /\ UNCHANGED <<setting, disk, now, saves, ticks, rewinds, crashes>>

-----------------------------------------------------------------------------
(* save_generation_cache_with_retry_backoff.                               *)

\* Mutant: the previous schedule is trusted only while it is running.
PreviousIfPending(f) ==
    IF HeaderValid(f) /\ f.retry.notBefore > now THEN ScheduleOf(f.retry) ELSE None

\* read_previous_retry_metadata reads the header only, whatever its configuration.
Previous(f) == IF HeaderValid(f) THEN ScheduleOf(f.retry) ELSE None

\* An unreadable header is discarded like an invalid one.
ReadPrevious(s) ==
    /\ session[s].step = "idle" /\ saves < setting.saves
    /\ \E health \in setting.failures \cup {Healthy}, previous \in {Previous(file), None} :
         /\ session' = [session EXCEPT ![s].step = "read",
                                       ![s].health = health,
                                       ![s].previous = previous]
         /\ IF previous = Previous(file) THEN UNCHANGED errors ELSE Error
    /\ saves' = saves + 1
    /\ UNCHANGED <<setting, disk, now, ticks, rewinds, crashes>>

\* Everything after the timestamp is computed before the file is written.
StartWrite(s) ==
    /\ session[s].step = "read" /\ now # BeforeEpoch
    /\ Disk!OpenWith(s,
         [savedAt |-> now,
          retry |-> NextRetry(session[s].health, session[s].previous, now),
          health |-> session[s].health, config |-> Config[s]])
    /\ session' = [session EXCEPT ![s].step = "writing"]
    /\ UNCHANGED <<now, bounds>>

\* current_timestamp_ms fails, or the generation does not serialize or is too
\* large: the file is left alone.
FailStamp(s) ==
    /\ session[s].step = "read"
    /\ IF now = BeforeEpoch THEN UNCHANGED errors ELSE Error
    /\ Rest(s, "unsaved", None)
    /\ UNCHANGED <<setting, disk, now, saves, ticks, rewinds, crashes>>

Publish(s) ==
    /\ session[s].step = "writing" /\ Disk!Publish(s)
    /\ UNCHANGED <<now, session, bounds>>

\* The schedule that was written is the one the session goes by.
FinishWrite(s) ==
    /\ session[s].step = "writing"
    /\ Disk!Acknowledge(s)
    /\ Rest(s, "saved", ScheduleOf(call[s].content.retry))
    /\ UNCHANGED <<now, bounds>>

\* Mutant: a failed write is taken for a finished one.
KeepSchedule(s) ==
    /\ session[s].step = "writing" /\ Error
    /\ Disk!Refuse(s)
    /\ Rest(s, "saved", ScheduleOf(call[s].content.retry))
    /\ UNCHANGED <<setting, now, saves, ticks, rewinds, crashes>>

\* An error leaves no schedule, whether or not the file was replaced.
FailWrite(s) ==
    /\ session[s].step = "writing" /\ Error
    /\ Disk!Refuse(s)
    /\ Rest(s, "unsaved", None)
    /\ UNCHANGED <<setting, now, saves, ticks, rewinds, crashes>>

-----------------------------------------------------------------------------
(* The environment.                                                        *)

\* The clock moves, or is set.
ChangeClock ==
    /\ ticks < setting.ticks /\ ticks' = ticks + 1
    /\ now' \in {BeforeEpoch} \cup Time /\ now' # now
    /\ IF now' < now THEN rewinds < MaxRewinds /\ rewinds' = rewinds + 1
       ELSE UNCHANGED rewinds
    /\ UNCHANGED <<setting, disk, session, saves, errors, crashes>>

Kill(s) ==
    /\ crashes < MaxCrashes /\ crashes' = crashes + 1
    /\ Disk!Crash(s) /\ Rest(s, "none", None)
    /\ UNCHANGED <<setting, now, saves, ticks, rewinds, errors>>

PowerLoss ==
    /\ crashes < MaxCrashes /\ crashes' = crashes + 1
    /\ Disk!PowerLoss
    /\ session' = [s \in Sessions |-> Resting("none", None)]
    /\ UNCHANGED <<setting, now, saves, ticks, rewinds, errors>>

SessionStep(s) ==
    \/ OpenCache(s) \/ FinishLoad(s) \/ FailLoad(s)
    \/ ReadPrevious(s) \/ StartWrite(s) \/ FailStamp(s)
    \/ Publish(s) \/ FinishWrite(s) \/ FailWrite(s)

Next ==
    \/ \E s \in setting.users : SessionStep(s) \/ Kill(s)
    \/ ChangeClock \/ PowerLoss

Spec == Init /\ [][Next]_vars

-----------------------------------------------------------------------------
(* Properties.                                                             *)

Files == ({file} \cup kept) \ {None, Foreign}

\* The type of every variable.
TypeOK ==
    /\ file \in CacheFile \cup {Foreign, None}
    /\ kept \in SUBSET (CacheFile \cup {Foreign, None})
    /\ call \in [Sessions -> Disk!Calls]
    /\ now \in Time \cup {BeforeEpoch}
    /\ session \in [Sessions -> Session]
    /\ setting \in Settings
    /\ saves \in 0 .. setting.saves /\ ticks \in 0 .. setting.ticks
    /\ rewinds \in 0 .. MaxRewinds /\ errors \in 0 .. setting.errors
    /\ crashes \in 0 .. MaxCrashes

\* A file this version wrote decodes, whatever the clock did, whatever header it
\* was computed from and whatever a power loss brought back: the encoder's
\* schedule passes every check of decode_cache_header (generation_cache.rs:573).
OwnFilesDecode == \A f \in Files : Decodes(f)

\* A load that defers the retry defers it by at most RETRY_MAX_DELAY_MS from now:
\* a file from the future is refused before its schedule is read (:385).
DeferralBounded ==
    [][\A s \in Sessions :
         /\ session[s].step = "opened" /\ session'[s].step = "idle"
         /\ session'[s].result = "deferred"
         => session'[s].schedule.notBefore \in now + 1 .. now + MaxDelay]_vars

\* A session that has the cache to itself and was told that its save succeeded
\* goes by the schedule that is in every file a power loss may bring back: a
\* restart cannot make it retry earlier or count from one again.
ScheduleOnDisk ==
    \A s \in Sessions :
        /\ setting.users = {s} /\ session[s].result = "saved"
        /\ session[s].step # "writing"
        => \A f \in kept : /\ f \notin {None, Foreign}
                            /\ ScheduleOf(f.retry) = session[s].schedule

\* With one session and no error yet, a failure that persists is retried
\* ever later: each save of it has a higher attempt, up to the cap.
Escalates ==
    [][\A f \in {file} \ {None, Foreign}, g \in {file'} \ {None, Foreign} :
         /\ \E s \in Sessions : setting.users = {s}
         /\ errors = 0 /\ crashes' = crashes
         /\ f # g /\ f.health # Healthy /\ f.health = g.health
         => g.retry.attempt = Lesser(f.retry.attempt + 1, MaxAttempt)]_vars

=============================================================================
