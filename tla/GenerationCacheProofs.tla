----------------------- MODULE GenerationCacheProofs -----------------------
(***************************************************************************)
(* Proofs about GenerationCache for any processes, failures and delays:       *)
(* types, that every file this version leaves decodes, that no load defers    *)
(* a retry past the cap, that an acknowledged schedule is the one on disk,     *)
(* that it escalates, and that the file is used as AtomicFile allows.          *)
(***************************************************************************)
EXTENDS GenerationCache, FiniteSetTheorems, TLAPS

\* A file that decodes and whose retry is due within the cap of its stamp.
Good(f) == Decodes(f) /\ f.retry.notBefore <= f.savedAt + MaxDelay

\* The files on the disk, on the way to it and in the hands of a load.
Seen ==
    (({file} \cup kept) \cup {call[s].content : s \in Sessions}
        \cup {session[s].snapshot : s \in Sessions}) \ {None, Foreign}

SeenGood == \A f \in Seen : Good(f)

\* A process has a call of the writer under way exactly while it writes, and
\* what it writes is a file of this version.
CallInv ==
    \A s \in Sessions :
        /\ session[s].step = "writing" <=> call[s].content # None
        /\ call[s].content # Foreign

\* A process that has the cache to itself sees its own writes, and before the
\* first error the schedule it saves follows from the one on disk.
AloneInv ==
    \A s \in Sessions :
        setting.users = {s} =>
            /\ call[s].status = "published" => file = call[s].content
            /\ errors = 0 /\ session[s].step = "read" =>
                   session[s].previous = Previous(file)
            /\ errors = 0 /\ call[s].status = "open" =>
                   call[s].content.retry =
                       NextRetry(call[s].content.health, Previous(file),
                                 call[s].content.savedAt)

Inv == TypeOK /\ CallInv /\ SeenGood /\ AloneInv /\ ScheduleOnDisk

-----------------------------------------------------------------------------
(* Delays and schedules.                                                   *)

\* A power of two is a positive number: it counts the subsets of 1 .. e.
LEMMA PowerType ==
    ASSUME NEW e \in Nat
    PROVE  2 ^ e \in Nat \ {0}
<1>1. IsFiniteSet(1 .. e) /\ Cardinality(1 .. e) = e
  BY FS_Interval
<1>2. IsFiniteSet(SUBSET (1 .. e)) /\ Cardinality(SUBSET (1 .. e)) = 2 ^ e
  BY <1>1, FS_SUBSET
<1>3. SUBSET (1 .. e) # {}
  OBVIOUS
<1> QED
  BY <1>2, <1>3, FS_CardinalityType, FS_EmptySet

\* Lesser is the smaller of two numbers.
LEMMA LesserType ==
    ASSUME NEW a \in Int, NEW b \in Int
    PROVE  /\ Lesser(a, b) \in {a, b} /\ Lesser(a, b) \in Int
           /\ Lesser(a, b) <= a /\ Lesser(a, b) <= b
BY DEF Lesser

\* Every delay is positive and within the cap, whatever the attempt.
LEMMA DelayType ==
    ASSUME NEW attempt \in Nat
    PROVE  Delay(attempt) \in 1 .. MaxDelay
<1> DEFINE exponent == IF attempt = 0 THEN 0 ELSE Lesser(attempt - 1, 31)
<1>1. exponent \in Nat
  BY LesserType DEF Lesser
<1>2. 2 ^ exponent \in Nat \ {0}
  BY <1>1, PowerType
<1> HIDE DEF exponent
<1>3. BaseDelay * 2 ^ exponent \in Nat \ {0}
  <2> DEFINE power == 2 ^ exponent
  <2>1. power \in Nat \ {0} /\ BaseDelay \in Nat \ {0}
    BY <1>2, CacheAssumption
  <2> HIDE DEF power
  <2>2. BaseDelay * power \in Nat \ {0}
    BY <2>1
  <2> QED
    BY <2>2 DEF power
<1>4. MaxDelay \in Nat \ {0}
  BY CacheAssumption
<1>5. Lesser(BaseDelay * 2 ^ exponent, MaxDelay) \in 1 .. MaxDelay
  BY <1>3, <1>4 DEF Lesser
<1> QED
  BY <1>5 DEF Delay, exponent

\* The counter starts at one and saturates.
LEMMA AttemptType ==
    ASSUME NEW health, NEW previous \in Schedule \cup {None}
    PROVE  Attempt(health, previous) \in 1 .. MaxAttempt
<1>1. MaxAttempt \in Nat \ {0}
  BY CacheAssumption
<1> QED
  BY <1>1 DEF Attempt, Schedule, Lesser

\* The schedule of a save: none without a failure, and otherwise one for that
\* failure that is due after the save and within the cap of it.
LEMMA NextRetryType ==
    ASSUME NEW health \in Failures \cup {Healthy}, NEW previous \in Schedule \cup {None},
           NEW time \in Time
    PROVE  LET retry == NextRetry(health, previous, time)
           IN  /\ health = Healthy => retry = NoRetry
               /\ health # Healthy =>
                      /\ retry \in Schedule
                      /\ retry.signature = health
                      /\ retry.attempt = Attempt(health, previous)
                      /\ time <= retry.notBefore
                      /\ retry.notBefore <= time + MaxDelay
<1>1. CASE health = Healthy
  BY <1>1 DEF NextRetry
<1>2. CASE health # Healthy
  <2> DEFINE attempt == Attempt(health, previous)
             due == Lesser(time + Delay(attempt), MaxTime)
  <2>1. attempt \in 1 .. MaxAttempt /\ MaxAttempt \in Nat
    BY AttemptType, CacheAssumption
  <2>2. Delay(attempt) \in 1 .. MaxDelay
    BY <2>1, DelayType
  <2> HIDE DEF attempt
  <2>3. due \in Time /\ time <= due /\ due <= time + MaxDelay
    BY <2>2, CacheAssumption DEF Time, Lesser
  <2> HIDE DEF due
  <2>4. NextRetry(health, previous, time) =
            [signature |-> health, attempt |-> attempt, notBefore |-> due]
    BY <1>2 DEF NextRetry, attempt, due
  <2> QED
    BY <1>2, <2>1, <2>3, <2>4 DEF Schedule, attempt
<1> QED
  BY <1>1, <1>2

\* The header keeps a schedule or none.
LEMMA ScheduleOfType ==
    ASSUME NEW retry \in Schedule \cup {NoRetry}
    PROVE  /\ ScheduleOf(retry) \in Schedule \cup {None}
           /\ retry \in Schedule => ScheduleOf(retry) = retry
BY CacheAssumption DEF ScheduleOf, NoRetry, Schedule

\* What a save takes over from the file.
LEMMA PreviousType ==
    ASSUME NEW f \in CacheFile \cup {Foreign, None}
    PROVE  Previous(f) \in Schedule \cup {None}
BY ScheduleOfType DEF Previous, HeaderValid, CacheFile

\* The file that a save builds is of this version and good.
LEMMA BuiltFile ==
    ASSUME NEW s \in Sessions, NEW health \in Failures \cup {Healthy},
           NEW previous \in Schedule \cup {None}, NEW time \in Time
    PROVE  LET f == [savedAt |-> time, retry |-> NextRetry(health, previous, time),
                     health |-> health, config |-> Config[s]]
           IN  f \in CacheFile /\ f \notin {None, Foreign} /\ Good(f)
<1> DEFINE retry == NextRetry(health, previous, time)
           f == [savedAt |-> time, retry |-> retry,
                 health |-> health, config |-> Config[s]]
<1>1. /\ health = Healthy => retry = NoRetry
      /\ health # Healthy =>
             /\ retry \in Schedule /\ retry.signature = health
             /\ time <= retry.notBefore /\ retry.notBefore <= time + MaxDelay
  BY NextRetryType
<1> HIDE DEF retry
<1>2. f \in CacheFile
  BY <1>1 DEF CacheFile
<1>3. f \notin {None, Foreign}
  BY <1>2, FileAssumption
<1>4. CASE health = Healthy
  <2>1. f.retry = NoRetry /\ f.health = Healthy /\ f.savedAt = time
    BY <1>1, <1>4
  <2>2. Decodes(f)
    BY <1>3, <2>1 DEF Decodes, HeaderValid
  <2>3. f.retry.notBefore <= f.savedAt + MaxDelay
    BY <2>1, CacheAssumption DEF NoRetry, Time
  <2> QED
    BY <1>2, <1>3, <2>2, <2>3 DEF Good, retry
<1>5. CASE health # Healthy
  <2>1. /\ f.retry = retry /\ f.health = health /\ f.savedAt = time
        /\ retry \in Schedule /\ retry.signature = health /\ health # None
        /\ time <= retry.notBefore /\ retry.notBefore <= time + MaxDelay
    BY <1>1, <1>5, CacheAssumption
  <2>2. retry.attempt > 0
    BY <2>1, CacheAssumption DEF Schedule
  <2>3. f.retry.notBefore >= f.savedAt
    BY <2>1, CacheAssumption DEF Time, Schedule
  <2>4. Decodes(f)
    BY <1>3, <1>5, <2>1, <2>2, <2>3 DEF Decodes, HeaderValid
  <2> QED
    BY <1>2, <1>3, <2>1, <2>4 DEF Good, retry
<1> QED
  BY <1>4, <1>5

\* A resting process is a session.
LEMMA RestingType ==
    ASSUME NEW result \in {"none", "fresh", "stale", "deferred", "missing", "failed",
                           "saved", "unsaved"},
           NEW schedule \in Schedule \cup {None}
    PROVE  /\ Resting(result, schedule) \in Session
           /\ Resting(result, schedule).step = "idle"
           /\ Resting(result, schedule).result = result
           /\ Resting(result, schedule).schedule = schedule
           /\ Resting(result, schedule).snapshot = None
BY DEF Resting, Session

\* What a load answers, and that it defers a retry by the cap at most.
LEMMA LoadResultType ==
    ASSUME NEW s \in Sessions, NEW f \in CacheFile \cup {Foreign, None},
           f \notin {None, Foreign} => Good(f), now \in Time \cup {BeforeEpoch}
    PROVE  /\ LoadResult(s, f)[1] \in {"fresh", "stale", "deferred", "missing", "failed"}
           /\ LoadResult(s, f)[2] \in Schedule \cup {None}
           /\ LoadResult(s, f)[1] = "deferred" =>
                  LoadResult(s, f)[2].notBefore \in now + 1 .. now + MaxDelay
<1>1. CASE f = None \/ f = Foreign
  BY <1>1, CacheAssumption DEF LoadResult, Decodes, HeaderValid
<1>2. CASE f \in CacheFile /\ f \notin {None, Foreign}
  <2>1. Decodes(f) /\ f.retry.notBefore <= f.savedAt + MaxDelay
    BY <1>2 DEF Good
  <2>2. f.retry \in Schedule \cup {NoRetry} /\ f.savedAt \in Time
    BY <1>2 DEF CacheFile
  <2>3. CASE f.config # Config[s] \/ ~ClockAgrees(f)
    BY <1>2, <2>1, <2>3 DEF LoadResult
  <2>4. CASE f.config = Config[s] /\ ClockAgrees(f) /\ f.health = Healthy
    BY <1>2, <2>1, <2>4 DEF LoadResult
  <2>5. CASE f.config = Config[s] /\ ClockAgrees(f) /\ f.health # Healthy
    <3>1. LoadResult(s, f) =
              <<IF now >= f.retry.notBefore THEN "stale" ELSE "deferred", f.retry>>
      BY <1>2, <2>1, <2>5 DEF LoadResult
    <3>2. f.retry.signature = f.health /\ f.health \in Failures
      BY <1>2, <2>1, <2>5 DEF Decodes, CacheFile
    <3>3. f.retry \in Schedule
      BY <2>2, <3>2, CacheAssumption DEF NoRetry
    <3>4. now \in Time /\ now >= f.savedAt
      BY <2>5 DEF ClockAgrees
    <3>5. /\ f.retry.notBefore \in Int /\ f.savedAt \in Int /\ now \in Int
          /\ MaxDelay \in Int
      BY <2>2, <3>3, <3>4, CacheAssumption DEF Time, Schedule
    <3>6. ~(now >= f.retry.notBefore) =>
              f.retry.notBefore \in now + 1 .. now + MaxDelay
      BY <2>1, <3>4, <3>5
    <3> QED
      BY <3>1, <3>3, <3>6
  <2> QED
    BY <2>3, <2>4, <2>5
<1> QED
  BY <1>1, <1>2

-----------------------------------------------------------------------------
(* The invariant is inductive.                                             *)

\* It holds at first, whether the file is missing or foreign.
LEMMA InitInv ==
    ASSUME Init
    PROVE  Inv
<1> USE DEF Init, Disk!Init
<1>1. \A s \in Sessions : session[s] = Resting("none", None) /\ call[s] = Disk!Rest("idle")
  OBVIOUS
<1>2. TypeOK
  <2>1. session \in [Sessions -> Session]
    BY RestingType
  <2>2. call \in [Sessions -> Disk!Calls]
    BY DEF Disk!Rest, Disk!Calls
  <2>3. /\ saves \in 0 .. setting.saves /\ ticks \in 0 .. setting.ticks
        /\ errors \in 0 .. setting.errors /\ setting \in Settings
    BY CacheAssumption
  <2>4. rewinds \in 0 .. MaxRewinds /\ crashes \in 0 .. MaxCrashes
    BY CacheAssumption
  <2>5. /\ file \in CacheFile \cup {Foreign, None}
        /\ kept \in SUBSET (CacheFile \cup {Foreign, None})
        /\ now \in Time \cup {BeforeEpoch}
    OBVIOUS
  <2> QED
    BY <2>1, <2>2, <2>3, <2>4, <2>5 DEF TypeOK
<1>3. CallInv
  BY <1>1, CacheAssumption DEF CallInv, Resting, Disk!Rest
<1>4. SeenGood
  BY <1>1 DEF SeenGood, Seen, Resting, Disk!Rest
<1>5. AloneInv
  BY <1>1 DEF AloneInv, Resting, Disk!Rest
<1>6. ScheduleOnDisk
  BY <1>1 DEF ScheduleOnDisk, Resting
<1> QED
  BY <1>2, <1>3, <1>4, <1>5, <1>6 DEF Inv

\* What is seen after a step is good if all of it was seen before, or is good.
LEMMA SeenGrows ==
    ASSUME SeenGood, NEW new,
           new \notin {None, Foreign} => Good(new),
           Seen' \subseteq Seen \cup {new}
    PROVE  SeenGood'
<1>1. \A f \in Seen : Good(f)
  BY DEF SeenGood
<1>2. \A f \in Seen' : f \notin {None, Foreign}
  BY DEF Seen
<1>3. \A f \in Seen' : Good(f)
  BY <1>1, <1>2
<1> QED
  BY <1>3 DEF SeenGood, Good, Decodes, HeaderValid

\* A process that had no write under way rests with an answer that acknowledges none.
LEMMA RestKeepsInv ==
    ASSUME Inv, NEW s \in Sessions,
           NEW result \in {"none", "fresh", "stale", "deferred", "missing", "failed",
                           "unsaved"},
           NEW schedule \in Schedule \cup {None},
           session[s].step # "writing", Rest(s, result, schedule),
           UNCHANGED <<setting, disk, now, saves, ticks, rewinds, crashes>>,
           errors' \in {errors, errors + 1}, errors' \in 0 .. setting.errors
    PROVE  Inv'
<1> USE DEF disk
<1>1. /\ session' = [session EXCEPT ![s] = Resting(result, schedule)]
      /\ session \in [Sessions -> Session]
      /\ Resting(result, schedule) \in Session
      /\ Resting(result, schedule).step = "idle"
      /\ Resting(result, schedule).result # "saved"
      /\ Resting(result, schedule).snapshot = None
  BY RestingType DEF Rest, Inv, TypeOK
<1>2. TypeOK'
  BY <1>1 DEF Inv, TypeOK
<1>3. CallInv'
  BY <1>1 DEF Inv, CallInv
<1>4. SeenGood'
  <2>1. Seen' \subseteq Seen \cup {None}
    BY <1>1 DEF Seen
  <2> QED
    BY <2>1, SeenGrows DEF Inv
<1>5. AloneInv'
  <2>1. errors' = 0 => errors = 0
    BY DEF Inv, TypeOK
  <2> QED
    BY <1>1, <2>1 DEF Inv, AloneInv
<1>6. ScheduleOnDisk'
  BY <1>1 DEF Inv, ScheduleOnDisk
<1> QED
  BY <1>2, <1>3, <1>4, <1>5, <1>6 DEF Inv

\* A load opens the file.
LEMMA OpenCacheInv ==
    ASSUME Inv, NEW s \in Sessions, OpenCache(s)
    PROVE  Inv'
<1> USE DEF OpenCache, disk, bounds
<1>1. /\ session \in [Sessions -> Session] /\ file \in CacheFile \cup {Foreign, None}
      /\ session' = [session EXCEPT ![s].step = "opened", ![s].snapshot = file]
  BY DEF Inv, TypeOK
<1>2. /\ session' \in [Sessions -> Session]
      /\ session'[s].step = "opened" /\ session'[s].snapshot = file
      /\ session'[s].result = session[s].result
      /\ session'[s].schedule = session[s].schedule
      /\ \A q \in Sessions \ {s} : session'[q] = session[q]
  <2>1. session[s] \in Session
    BY <1>1
  <2>2. [session[s] EXCEPT !.step = "opened", !.snapshot = file] \in Session
    BY <1>1, <2>1 DEF Session
  <2>3. session' = [session EXCEPT ![s] =
                       [session[s] EXCEPT !.step = "opened", !.snapshot = file]]
    BY <1>1
  <2> QED
    BY <1>1, <2>1, <2>2, <2>3 DEF Session
<1>3. TypeOK'
  BY <1>2 DEF Inv, TypeOK
<1>4. CallInv'
  BY <1>2 DEF Inv, CallInv
<1>5. SeenGood'
  <2>1. Seen' \subseteq Seen \cup {None}
    BY <1>2 DEF Seen
  <2> QED
    BY <2>1, SeenGrows DEF Inv
<1>6. AloneInv'
  BY <1>2 DEF Inv, AloneInv
<1>7. ScheduleOnDisk'
  BY <1>2 DEF Inv, ScheduleOnDisk
<1> QED
  BY <1>3, <1>4, <1>5, <1>6, <1>7 DEF Inv

\* A load answers, and a save fails before it has written anything.
LEMMA AnswerInv ==
    ASSUME Inv, NEW s \in Sessions, FinishLoad(s) \/ FailLoad(s) \/ FailStamp(s)
    PROVE  Inv'
<1>0. /\ errors \in 0 .. setting.errors /\ setting \in Settings /\ setting.errors \in Nat
      /\ session[s].snapshot \in CacheFile \cup {Foreign, None}
      /\ now \in Time \cup {BeforeEpoch}
  BY CacheAssumption DEF Inv, TypeOK, Session
<1>1. CASE FinishLoad(s)
  <2> DEFINE result == LoadResult(s, session[s].snapshot)
  <2>1. session[s].snapshot \notin {None, Foreign} => Good(session[s].snapshot)
    BY DEF Inv, SeenGood, Seen
  <2>2. /\ result[1] \in {"fresh", "stale", "deferred", "missing", "failed"}
        /\ result[2] \in Schedule \cup {None}
    BY <1>0, <2>1, LoadResultType
  <2>3. session[s].step # "writing" /\ Rest(s, result[1], result[2])
    BY <1>1 DEF FinishLoad
  <2>4. /\ UNCHANGED <<setting, disk, now, saves, ticks, rewinds, crashes>>
        /\ errors' \in {errors, errors + 1} /\ errors' \in 0 .. setting.errors
    BY <1>0, <1>1 DEF FinishLoad, bounds
  <2> HIDE DEF result
  <2> QED
    BY <2>2, <2>3, <2>4, RestKeepsInv
<1>2. CASE FailLoad(s)
  <2>1. errors' \in {errors, errors + 1} /\ errors' \in 0 .. setting.errors
    BY <1>0, <1>2 DEF FailLoad, Error
  <2> QED
    BY <1>2, <2>1, RestKeepsInv DEF FailLoad
<1>3. CASE FailStamp(s)
  <2>1. errors' \in {errors, errors + 1} /\ errors' \in 0 .. setting.errors
    BY <1>0, <1>3 DEF FailStamp, Error
  <2> QED
    BY <1>3, <2>1, RestKeepsInv DEF FailStamp
<1> QED
  BY <1>1, <1>2, <1>3

\* A save reads the schedule it continues.
LEMMA ReadPreviousInv ==
    ASSUME Inv, NEW s \in Sessions, ReadPrevious(s)
    PROVE  Inv'
<1> USE DEF disk
<1>1. PICK health \in setting.failures \cup {Healthy}, previous \in {Previous(file), None} :
          /\ session' = [session EXCEPT ![s].step = "read",
                                        ![s].health = health,
                                        ![s].previous = previous]
          /\ IF previous = Previous(file) THEN UNCHANGED errors ELSE Error
  BY DEF ReadPrevious
<1>2. /\ session \in [Sessions -> Session] /\ file \in CacheFile \cup {Foreign, None}
      /\ setting \in Settings /\ errors \in 0 .. setting.errors
      /\ saves \in 0 .. setting.saves
  BY DEF Inv, TypeOK
<1>3. health \in Failures \cup {Healthy} /\ setting.saves \in Nat /\ setting.errors \in Nat
  BY <1>1, <1>2, CacheAssumption
<1>4. previous \in Schedule \cup {None}
  BY <1>1, <1>2, PreviousType
<1>5. /\ session' \in [Sessions -> Session]
      /\ session'[s].step = "read" /\ session'[s].previous = previous
      /\ session'[s].result = session[s].result
      /\ session'[s].schedule = session[s].schedule
      /\ session'[s].snapshot = session[s].snapshot
      /\ \A q \in Sessions \ {s} : session'[q] = session[q]
  <2> DEFINE reading ==
        [session[s] EXCEPT !.step = "read", !.health = health, !.previous = previous]
  <2>1. session[s] \in Session
    BY <1>2
  <2>2. reading \in Session
    BY <1>3, <1>4, <2>1 DEF Session
  <2>3. session' = [session EXCEPT ![s] = reading]
    BY <1>1, <1>2
  <2> QED
    BY <1>2, <2>1, <2>2, <2>3 DEF Session
<1>6. session[s].step = "idle" /\ UNCHANGED <<setting, file, kept, call, now, ticks, rewinds, crashes>>
  BY DEF ReadPrevious
<1>7. /\ errors' \in 0 .. setting.errors
      /\ errors' = 0 => errors = 0 /\ previous = Previous(file)
      /\ saves' \in 0 .. setting.saves
  BY <1>1, <1>2, <1>3 DEF Error, ReadPrevious
<1>8. TypeOK'
  BY <1>5, <1>6, <1>7 DEF Inv, TypeOK
<1>9. CallInv'
  BY <1>5, <1>6 DEF Inv, CallInv
<1>10. SeenGood'
  <2>1. Seen' \subseteq Seen \cup {None}
    BY <1>5, <1>6 DEF Seen
  <2> QED
    BY <2>1, SeenGrows DEF Inv
<1>11. AloneInv'
  BY <1>5, <1>6, <1>7 DEF Inv, AloneInv
<1>12. ScheduleOnDisk'
  BY <1>5, <1>6 DEF Inv, ScheduleOnDisk
<1> QED
  BY <1>8, <1>9, <1>10, <1>11, <1>12 DEF Inv

\* A save hands a file of this version to the writer.
LEMMA StartWriteInv ==
    ASSUME Inv, NEW s \in Sessions, StartWrite(s)
    PROVE  Inv'
<1> DEFINE f == [savedAt |-> now,
                 retry |-> NextRetry(session[s].health, session[s].previous, now),
                 health |-> session[s].health, config |-> Config[s]]
<1>1. /\ session \in [Sessions -> Session] /\ call \in [Sessions -> Disk!Calls]
      /\ now \in Time /\ session[s].step = "read"
      /\ session' = [session EXCEPT ![s].step = "writing"]
      /\ call' = [call EXCEPT ![s] = [status |-> "open", content |-> f]]
      /\ UNCHANGED <<file, kept, now, setting, saves, ticks, rewinds, errors, crashes>>
  BY DEF Inv, TypeOK, StartWrite, Disk!OpenWith, bounds
<1>2. f \in CacheFile /\ f \notin {None, Foreign} /\ Good(f)
  <2>1. /\ session[s].health \in Failures \cup {Healthy}
        /\ session[s].previous \in Schedule \cup {None}
    BY <1>1 DEF Session
  <2> QED
    BY <1>1, <2>1, BuiltFile
<1>3. /\ f.retry = NextRetry(session[s].health, session[s].previous, now)
      /\ f.health = session[s].health /\ f.savedAt = now
  OBVIOUS
<1> HIDE DEF f
<1>4. /\ session' \in [Sessions -> Session]
      /\ session'[s].step = "writing"
      /\ \A q \in Sessions : session'[q].snapshot = session[q].snapshot
      /\ \A q \in Sessions \ {s} : session'[q] = session[q]
  BY <1>1 DEF Session
<1>5. /\ call' \in [Sessions -> Disk!Calls]
      /\ call'[s].status = "open" /\ call'[s].content = f
      /\ \A q \in Sessions \ {s} : call'[q] = call[q]
  BY <1>1, <1>2 DEF Disk!Calls
<1>6. TypeOK'
  BY <1>1, <1>4, <1>5 DEF Inv, TypeOK
<1>7. CallInv'
  BY <1>1, <1>2, <1>4, <1>5 DEF Inv, CallInv
<1>8. SeenGood'
  <2>1. Seen' \subseteq Seen \cup {f}
    BY <1>1, <1>4, <1>5 DEF Seen
  <2> QED
    BY <1>2, <2>1, SeenGrows DEF Inv
<1>9. AloneInv'
  <2>1. ASSUME setting.users = {s}, errors = 0
        PROVE  session[s].previous = Previous(file)
    BY <1>1, <2>1 DEF Inv, AloneInv
  <2>2. ASSUME setting.users = {s}, errors = 0
        PROVE  f.retry = NextRetry(f.health, Previous(file), f.savedAt)
    BY <1>3, <2>1, <2>2
  <2> QED
    BY <1>1, <1>4, <1>5, <2>2 DEF Inv, AloneInv
<1>10. ScheduleOnDisk'
  BY <1>1, <1>4 DEF Inv, ScheduleOnDisk
<1> QED
  BY <1>6, <1>7, <1>8, <1>9, <1>10 DEF Inv

\* The writer publishes the file.
LEMMA PublishInv ==
    ASSUME Inv, NEW s \in Sessions, s \in setting.users, Publish(s)
    PROVE  Inv'
<1>1. /\ call \in [Sessions -> Disk!Calls] /\ session[s].step = "writing"
      /\ call[s].status = "open" /\ file' = call[s].content /\ kept' = kept \cup {file'}
      /\ call' = [call EXCEPT ![s].status = "published"]
      /\ UNCHANGED <<now, session, setting, saves, ticks, rewinds, errors, crashes>>
  BY DEF Inv, TypeOK, Publish, Disk!Publish, bounds
<1>2. call[s].content \in CacheFile /\ call[s].content \notin {None, Foreign}
  BY <1>1, FileAssumption DEF Inv, CallInv, Disk!Calls
<1>3. /\ call' \in [Sessions -> Disk!Calls]
      /\ call'[s].status = "published"
      /\ \A q \in Sessions : call'[q].content = call[q].content
      /\ \A q \in Sessions \ {s} : call'[q] = call[q]
  BY <1>1, <1>2 DEF Disk!Calls
<1>4. TypeOK'
  BY <1>1, <1>2, <1>3 DEF Inv, TypeOK
<1>5. CallInv'
  BY <1>1, <1>3 DEF Inv, CallInv
<1>6. SeenGood'
  <2>1. Seen' \subseteq Seen \cup {None}
    BY <1>1, <1>2, <1>3 DEF Seen
  <2> QED
    BY <2>1, SeenGrows DEF Inv
<1>7. \A q \in Sessions : setting.users = {q} => q = s
  OBVIOUS
<1>8. AloneInv'
  BY <1>1, <1>3, <1>7 DEF AloneInv
<1>9. ScheduleOnDisk'
  BY <1>1, <1>7 DEF ScheduleOnDisk
<1> QED
  BY <1>4, <1>5, <1>6, <1>8, <1>9 DEF Inv

\* The save succeeds: its schedule is the only one a power loss may bring back.
LEMMA FinishWriteInv ==
    ASSUME Inv, NEW s \in Sessions, s \in setting.users, FinishWrite(s)
    PROVE  Inv'
<1> DEFINE schedule == ScheduleOf(call[s].content.retry)
<1>1. /\ call \in [Sessions -> Disk!Calls] /\ session \in [Sessions -> Session]
      /\ session[s].step = "writing" /\ call[s].status = "published"
      /\ file \in CacheFile \cup {Foreign, None} /\ kept' = {file} /\ file' = file
      /\ call' = [call EXCEPT ![s] = Disk!Rest("saved")]
      /\ session' = [session EXCEPT ![s] = Resting("saved", schedule)]
      /\ UNCHANGED <<now, setting, saves, ticks, rewinds, errors, crashes>>
  BY DEF Inv, TypeOK, FinishWrite, Disk!Acknowledge, Rest, bounds
<1>2. call[s].content \in CacheFile /\ call[s].content \notin {None, Foreign}
  BY <1>1, FileAssumption DEF Inv, CallInv, Disk!Calls
<1>3. schedule \in Schedule \cup {None}
  BY <1>2, ScheduleOfType DEF CacheFile
<1>4. /\ session' \in [Sessions -> Session]
      /\ session'[s].step = "idle" /\ session'[s].result = "saved"
      /\ session'[s].schedule = schedule /\ session'[s].snapshot = None
      /\ \A q \in Sessions \ {s} : session'[q] = session[q]
  BY <1>1, <1>3, RestingType
<1>5. /\ call' \in [Sessions -> Disk!Calls]
      /\ call'[s].status = "saved" /\ call'[s].content = None
      /\ \A q \in Sessions \ {s} : call'[q] = call[q]
  BY <1>1 DEF Disk!Calls, Disk!Rest
<1>6. TypeOK'
  BY <1>1, <1>4, <1>5 DEF Inv, TypeOK
<1>7. CallInv'
  BY <1>4, <1>5, CacheAssumption DEF Inv, CallInv
<1>8. SeenGood'
  <2>1. Seen' \subseteq Seen \cup {None}
    BY <1>1, <1>4, <1>5 DEF Seen
  <2> QED
    BY <2>1, SeenGrows DEF Inv
<1>9. AloneInv'
  BY <1>1, <1>4, <1>5 DEF Inv, AloneInv
<1>10. ScheduleOnDisk'
  <2>1. ASSUME setting.users = {s}
        PROVE  file = call[s].content
    BY <1>1, <2>1 DEF Inv, AloneInv
  <2>2. ASSUME NEW q \in Sessions, setting.users = {q}
        PROVE  q = s
    BY <2>2
  <2> QED
    BY <1>1, <1>2, <1>4, <2>1, <2>2 DEF ScheduleOnDisk
<1> QED
  BY <1>6, <1>7, <1>8, <1>9, <1>10 DEF Inv

\* A call that ends without an acknowledgement leaves the disk alone.
LEMMA AbandonInv ==
    ASSUME Inv, NEW s \in Sessions, NEW result \in {"none", "unsaved"},
           NEW status \in {"idle", "failed"},
           Rest(s, result, None),
           call' = [call EXCEPT ![s] = Disk!Rest(status)],
           UNCHANGED <<file, kept, setting, now, saves, ticks, rewinds>>,
           errors' \in {errors, errors + 1}, errors' \in 0 .. setting.errors,
           crashes' \in 0 .. MaxCrashes
    PROVE  Inv'
<1>1. /\ call \in [Sessions -> Disk!Calls] /\ session \in [Sessions -> Session]
      /\ session' = [session EXCEPT ![s] = Resting(result, None)]
      /\ errors \in 0 .. setting.errors
  BY DEF Inv, TypeOK, Rest
<1>2. /\ session' \in [Sessions -> Session]
      /\ session'[s].step = "idle" /\ session'[s].result # "saved"
      /\ session'[s].snapshot = None
      /\ \A q \in Sessions \ {s} : session'[q] = session[q]
  BY <1>1, RestingType
<1>3. /\ call' \in [Sessions -> Disk!Calls]
      /\ call'[s].status = status /\ call'[s].content = None
      /\ \A q \in Sessions \ {s} : call'[q] = call[q]
  BY <1>1 DEF Disk!Calls, Disk!Rest
<1>4. TypeOK'
  BY <1>2, <1>3 DEF Inv, TypeOK
<1>5. CallInv'
  BY <1>2, <1>3, CacheAssumption DEF Inv, CallInv
<1>6. SeenGood'
  <2>1. Seen' \subseteq Seen \cup {None}
    BY <1>2, <1>3 DEF Seen
  <2> QED
    BY <2>1, SeenGrows DEF Inv
<1>7. AloneInv'
  <2>1. errors' = 0 => errors = 0
    BY <1>1, CacheAssumption DEF Inv, TypeOK
  <2> QED
    BY <1>2, <1>3, <2>1 DEF Inv, AloneInv
<1>8. ScheduleOnDisk'
  BY <1>2 DEF Inv, ScheduleOnDisk
<1> QED
  BY <1>4, <1>5, <1>6, <1>7, <1>8 DEF Inv

\* The writer reports an error, or the process is killed.
LEMMA FailInv ==
    ASSUME Inv, NEW s \in Sessions, FailWrite(s) \/ Kill(s)
    PROVE  Inv'
<1>1. /\ errors \in 0 .. setting.errors /\ setting.errors \in Nat
      /\ crashes \in 0 .. MaxCrashes /\ MaxCrashes \in Nat
  BY CacheAssumption DEF Inv, TypeOK
<1>2. CASE FailWrite(s)
  <2>1. errors' \in {errors, errors + 1} /\ errors' \in 0 .. setting.errors
    BY <1>1, <1>2 DEF FailWrite, Error
  <2>2. /\ Rest(s, "unsaved", None) /\ call' = [call EXCEPT ![s] = Disk!Rest("failed")]
        /\ UNCHANGED <<file, kept, setting, now, saves, ticks, rewinds, crashes>>
    BY <1>2 DEF FailWrite, Disk!Refuse
  <2> QED
    BY <1>1, <2>1, <2>2, AbandonInv
<1>3. CASE Kill(s)
  <2>1. crashes' \in 0 .. MaxCrashes
    BY <1>1, <1>3 DEF Kill
  <2>2. /\ Rest(s, "none", None) /\ call' = [call EXCEPT ![s] = Disk!Rest("idle")]
        /\ UNCHANGED <<file, kept, setting, now, saves, ticks, rewinds, errors>>
    BY <1>3 DEF Kill, Disk!Crash
  <2> QED
    BY <1>1, <2>1, <2>2, AbandonInv
<1> QED
  BY <1>2, <1>3

\* A power loss brings back one of the kept files and ends every process.
LEMMA PowerLossInv ==
    ASSUME Inv, PowerLoss
    PROVE  Inv'
<1>1. /\ file' \in kept /\ kept' = {file'}
      /\ kept \in SUBSET (CacheFile \cup {Foreign, None})
      /\ call' = [p \in Sessions |-> Disk!Rest("idle")]
      /\ session' = [s \in Sessions |-> Resting("none", None)]
      /\ UNCHANGED <<now, setting, saves, ticks, rewinds, errors>>
      /\ crashes' \in 0 .. MaxCrashes
  BY CacheAssumption DEF Inv, TypeOK, PowerLoss, Disk!PowerLoss
<1>2. /\ session' \in [Sessions -> Session]
      /\ \A s \in Sessions : /\ session'[s].step = "idle" /\ session'[s].result = "none"
                             /\ session'[s].snapshot = None
  BY <1>1, RestingType
<1>3. /\ call' \in [Sessions -> Disk!Calls]
      /\ \A s \in Sessions : call'[s].status = "idle" /\ call'[s].content = None
  BY <1>1 DEF Disk!Calls, Disk!Rest
<1>4. TypeOK'
  BY <1>1, <1>2, <1>3 DEF Inv, TypeOK
<1>5. CallInv'
  BY <1>2, <1>3, CacheAssumption DEF CallInv
<1>6. SeenGood'
  <2>1. Seen' \subseteq Seen \cup {None}
    BY <1>1, <1>2, <1>3 DEF Seen
  <2> QED
    BY <2>1, SeenGrows DEF Inv
<1>7. AloneInv'
  BY <1>2, <1>3 DEF AloneInv
<1>8. ScheduleOnDisk'
  BY <1>2 DEF ScheduleOnDisk
<1> QED
  BY <1>4, <1>5, <1>6, <1>7, <1>8 DEF Inv

\* The clock moves.
LEMMA ChangeClockInv ==
    ASSUME Inv, ChangeClock
    PROVE  Inv'
<1>1. /\ UNCHANGED <<file, kept, call, session, setting, saves, errors, crashes>>
      /\ now' \in {BeforeEpoch} \cup Time
      /\ ticks' \in 0 .. setting.ticks /\ rewinds' \in 0 .. MaxRewinds
  BY CacheAssumption DEF Inv, TypeOK, ChangeClock, disk
<1>2. TypeOK'
  BY <1>1 DEF Inv, TypeOK
<1>3. CallInv' /\ SeenGood' /\ AloneInv' /\ ScheduleOnDisk'
  BY <1>1 DEF Inv, CallInv, SeenGood, Seen, AloneInv, ScheduleOnDisk
<1> QED
  BY <1>2, <1>3 DEF Inv

\* Every step preserves the invariant.
LEMMA NextInv ==
    ASSUME Inv, [Next]_vars
    PROVE  Inv'
<1>1. ASSUME NEW s \in Sessions, s \in setting.users, SessionStep(s) \/ Kill(s)
      PROVE  Inv'
  <2>1. CASE OpenCache(s)
    BY <2>1, OpenCacheInv
  <2>2. CASE FinishLoad(s) \/ FailLoad(s) \/ FailStamp(s)
    BY <2>2, AnswerInv
  <2>3. CASE ReadPrevious(s)
    BY <2>3, ReadPreviousInv
  <2>4. CASE StartWrite(s)
    BY <2>4, StartWriteInv
  <2>5. CASE Publish(s)
    BY <1>1, <2>5, PublishInv
  <2>6. CASE FinishWrite(s)
    BY <1>1, <2>6, FinishWriteInv
  <2>7. CASE FailWrite(s) \/ Kill(s)
    BY <2>7, FailInv
  <2> QED
    BY <1>1, <2>1, <2>2, <2>3, <2>4, <2>5, <2>6, <2>7 DEF SessionStep
<1>2. CASE ChangeClock
  BY <1>2, ChangeClockInv
<1>3. CASE PowerLoss
  BY <1>3, PowerLossInv
<1>4. CASE UNCHANGED vars
  <2>1. UNCHANGED <<file, kept, call, now, session, setting, saves, ticks, rewinds,
                    errors, crashes>>
    BY <1>4 DEF vars, disk, bounds
  <2>2. TypeOK'
    BY <2>1 DEF Inv, TypeOK
  <2>3. CallInv' /\ SeenGood' /\ AloneInv' /\ ScheduleOnDisk'
    BY <2>1 DEF Inv, CallInv, SeenGood, Seen, AloneInv, ScheduleOnDisk
  <2> QED
    BY <2>2, <2>3 DEF Inv
<1>5. setting.users \subseteq Sessions
  BY CacheAssumption DEF Inv, TypeOK
<1> QED
  BY <1>1, <1>2, <1>3, <1>4, <1>5 DEF Next

-----------------------------------------------------------------------------
(* Theorems.                                                               *)

\* The inductive invariant holds in every reachable state.
LEMMA Invariant == Spec => []Inv
<1>1. Init => Inv
  BY InitInv
<1>2. Inv /\ [Next]_vars => Inv'
  BY NextInv
<1> QED
  BY <1>1, <1>2, PTL DEF Spec

\* The types of the file, the calls and the processes (generation_cache.rs).
THEOREM TypesOfCache == Spec => []TypeOK
<1>1. Inv => TypeOK
  BY DEF Inv
<1> QED
  BY <1>1, Invariant, PTL

\* Whatever this version writes decodes again: the schedule that the encoder
\* computes, from any header and at any time, passes every check of the decoder.
THEOREM SavedFilesDecode == Spec => []OwnFilesDecode
<1>1. Inv => OwnFilesDecode
  BY DEF Inv, SeenGood, Seen, OwnFilesDecode, Files, Good
<1> QED
  BY <1>1, Invariant, PTL

\* A restart finds the schedule that the last successful save was told.
THEOREM ScheduleSurvives == Spec => []ScheduleOnDisk
<1>1. Inv => ScheduleOnDisk
  BY DEF Inv
<1> QED
  BY <1>1, Invariant, PTL

\* Whatever the clock does, no load defers a retry past RETRY_MAX_DELAY_MS.
THEOREM DeferralsAreBounded == Spec => DeferralBounded
<1> DEFINE Bounded ==
      \A s \in Sessions :
         /\ session[s].step = "opened" /\ session'[s].step = "idle"
         /\ session'[s].result = "deferred"
         => session'[s].schedule.notBefore \in now + 1 .. now + MaxDelay
<1>1. ASSUME Inv, Next, NEW s \in Sessions,
             session[s].step = "opened", session'[s].step = "idle",
             session'[s].result = "deferred"
      PROVE  session'[s].schedule.notBefore \in now + 1 .. now + MaxDelay
  <2> DEFINE result == LoadResult(s, session[s].snapshot)
  <2>1. session \in [Sessions -> Session]
    BY <1>1 DEF Inv, TypeOK
  <2>2. ASSUME NEW q \in setting.users, SessionStep(q)
        PROVE  q = s /\ FinishLoad(s)
    <3>1. q = s
      BY <1>1, <2>1, <2>2 DEF SessionStep, OpenCache, FinishLoad, FailLoad, ReadPrevious,
           StartWrite, FailStamp, Publish, FinishWrite, FailWrite, Rest
    <3>2. ~FailLoad(s)
      BY <1>1, <2>1 DEF FailLoad, Rest, Resting
    <3> QED
      BY <1>1, <2>2, <3>1, <3>2 DEF SessionStep, OpenCache, ReadPrevious,
         StartWrite, FailStamp, Publish, FinishWrite, FailWrite
  <2>3. ASSUME NEW q \in setting.users, Kill(q)
        PROVE  FALSE
    BY <1>1, <2>1, <2>3 DEF Kill, Rest, Resting
  <2>4. ~PowerLoss
    BY <1>1 DEF PowerLoss, Resting
  <2>5. ~ChangeClock
    BY <1>1 DEF ChangeClock
  <2>6. FinishLoad(s)
    BY <1>1, <2>2, <2>3, <2>4, <2>5 DEF Next
  <2>7. session'[s] = Resting(result[1], result[2])
    BY <2>1, <2>6 DEF FinishLoad, Rest
  <2>8. /\ session[s].snapshot \in CacheFile \cup {Foreign, None}
        /\ session[s].snapshot \notin {None, Foreign} => Good(session[s].snapshot)
        /\ now \in Time \cup {BeforeEpoch}
    BY <1>1, <2>1 DEF Inv, TypeOK, SeenGood, Seen, Session
  <2>9. result[1] = "deferred" => result[2].notBefore \in now + 1 .. now + MaxDelay
    BY <2>8, LoadResultType
  <2> HIDE DEF result
  <2> QED
    BY <1>1, <2>7, <2>9 DEF Resting
<1>2. Inv /\ [Next]_vars => [Bounded]_vars
  BY <1>1
<1> QED
  BY <1>2, Invariant, PTL DEF Spec, DeferralBounded

\* A process that has the file to itself and meets no error retries a lasting
\* failure ever later, through any number of restarts and changes of the clock.
THEOREM ScheduleEscalates == Spec => Escalates
<1> DEFINE Escalated ==
      \A f \in {file} \ {None, Foreign}, g \in {file'} \ {None, Foreign} :
         /\ \E s \in Sessions : setting.users = {s}
         /\ errors = 0 /\ crashes' = crashes
         /\ f # g /\ f.health # Healthy /\ f.health = g.health
         => g.retry.attempt = Lesser(f.retry.attempt + 1, MaxAttempt)
<1>1. ASSUME Inv, Next, file \notin {None, Foreign}, file' \notin {None, Foreign},
             NEW s \in Sessions, setting.users = {s}, errors = 0, crashes' = crashes,
             file # file', file.health # Healthy, file.health = file'.health
      PROVE  file'.retry.attempt = Lesser(file.retry.attempt + 1, MaxAttempt)
  <2>1. ~PowerLoss
    BY <1>1, CacheAssumption DEF PowerLoss, Inv, TypeOK
  <2>2. ~ChangeClock
    BY <1>1 DEF ChangeClock, disk
  <2>3. ~Kill(s)
    BY <1>1 DEF Kill, Disk!Crash
  <2>4. SessionStep(s)
    BY <1>1, <2>1, <2>2, <2>3 DEF Next
  <2>5. Publish(s)
    BY <1>1, <2>4 DEF SessionStep, OpenCache, FinishLoad, FailLoad, ReadPrevious,
       StartWrite, FailStamp, FinishWrite, FailWrite, disk, Disk!OpenWith,
       Disk!Acknowledge, Disk!Refuse
  <2>6. call[s].status = "open" /\ file' = call[s].content
    BY <2>5 DEF Publish, Disk!Publish
  <2>7. file'.retry = NextRetry(file'.health, Previous(file), file'.savedAt)
    BY <1>1, <2>6 DEF Inv, AloneInv
  <2>8. file \in CacheFile /\ Good(file) /\ file' \in CacheFile
    <3>1. call[s] \in Disk!Calls
      BY <1>1 DEF Inv, TypeOK
    <3> QED
      BY <1>1, <2>6, <3>1 DEF Inv, TypeOK, SeenGood, Seen, Disk!Calls
  <2>9. Previous(file) = file.retry /\ file.retry \in Schedule
        /\ file.retry.signature = file.health
    <3>1. HeaderValid(file) /\ file.retry.signature = file.health
          /\ file.health \in Failures /\ file.retry \in Schedule \cup {NoRetry}
      BY <1>1, <2>8 DEF Good, Decodes, CacheFile
    <3>2. file.retry \in Schedule
      BY <3>1, CacheAssumption DEF NoRetry
    <3> QED
      BY <3>1, <3>2, ScheduleOfType DEF Previous
  <2>10. /\ file'.health \in Failures \cup {Healthy} /\ file'.health # Healthy
         /\ file'.savedAt \in Time
    BY <1>1, <2>8 DEF CacheFile
  <2>11. file'.retry.attempt = Attempt(file'.health, file.retry)
    BY <2>7, <2>9, <2>10, NextRetryType
  <2>12. file.retry # None
    BY <2>9, FileAssumption
  <2> QED
    BY <1>1, <2>9, <2>11, <2>12 DEF Attempt
<1>2. Inv /\ [Next]_vars => [Escalated]_vars
  BY <1>1
<1> QED
  BY <1>2, Invariant, PTL DEF Spec, Escalates

\* The cache uses the file only as AtomicFile allows: every step of a process
\* is a call of the writer, its publication, its answer, a crash or no step of it.
THEOREM DiskUse == Spec => Disk!Spec
<1>1. Init => Disk!Init
  BY DEF Init
<1>2. ASSUME Inv, Next
      PROVE  [Disk!Next]_<<file, kept, call>>
  <2>1. setting.users \subseteq Sessions
    BY <1>2, CacheAssumption DEF Inv, TypeOK
  <2>2. ASSUME NEW s \in Sessions, StartWrite(s)
        PROVE  Disk!Open(s)
    <3> DEFINE f == [savedAt |-> now,
                     retry |-> NextRetry(session[s].health, session[s].previous, now),
                     health |-> session[s].health, config |-> Config[s]]
    <3>1. session[s] \in Session /\ now \in Time
      BY <1>2, <2>2 DEF Inv, TypeOK, StartWrite
    <3>2. f \in CacheFile
      BY <3>1, BuiltFile DEF Session
    <3>3. Disk!OpenWith(s, f)
      BY <2>2 DEF StartWrite
    <3> HIDE DEF f
    <3> QED
      BY <3>2, <3>3 DEF Disk!Open
  <2>3. ASSUME NEW s \in Sessions, SessionStep(s)
        PROVE  [Disk!Next]_<<file, kept, call>>
    BY <2>2, <2>3 DEF SessionStep, OpenCache, FinishLoad, FailLoad, ReadPrevious,
       FailStamp, Publish, FinishWrite, FailWrite, disk, Disk!Next
  <2>4. ASSUME NEW s \in Sessions, Kill(s)
        PROVE  Disk!Next
    BY <2>4 DEF Kill, Disk!Next
  <2>5. CASE ChangeClock
    BY <2>5 DEF ChangeClock, disk
  <2>6. CASE PowerLoss
    BY <2>6 DEF PowerLoss, Disk!Next
  <2> QED
    BY <1>2, <2>1, <2>3, <2>4, <2>5, <2>6 DEF Next
<1>3. Inv /\ [Next]_vars => [Disk!Next]_Disk!vars
  BY <1>2 DEF vars, disk, Disk!vars
<1> QED
  BY <1>1, <1>3, Invariant, PTL DEF Spec, Disk!Spec
=============================================================================
