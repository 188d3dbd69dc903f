---------------------------- MODULE ClaudeAppend ----------------------------
(***************************************************************************)
(* Verified append parsing of a Claude transcript (claude/incremental.rs):    *)
(* acquisitions parse one growing file, keep what they parsed in a shard with  *)
(* a checkpoint of the parser, and resume from it after hashing the prefix it  *)
(* covers.  The client changes the file between any two reads, and            *)
(* acquisitions of several processes share the shard without a lock.          *)
(*                                                                         *)
(* A hash is the lines that were hashed.  The engine around the driver and     *)
(* damaged shards are in ShardCache; sidecar files and projects are left out.  *)
(***************************************************************************)
EXTENDS ClaudeTranscript, TranscriptFile, FiniteSets

CONSTANTS
    Acquirers,
    MaxFaults     \* bound: cancellations, and failing reads and writes

Usage == [input : Nat, split : BOOLEAN, output : Nat]
Line ==
    [kind : LineKinds, side : BOOLEAN, key : STRING \cup {None},
     usage : Usage \cup {None}, advisor : Usage \cup {None}]
Lines == UNION {{d[n] : n \in DOMAIN d} : d \in Drafts}

ASSUME ClaudeAssumption ==
    /\ Drafts \subseteq Seq(Line) /\ Drafts # {}
    /\ \A x \in Lines : x.kind \in {"assistant", "undated", "cost"} => x.usage # None
    /\ \A x \in Lines, part \in {"message", "advisor"} : <<x.key, part>> # None
    /\ {MaxChanges, MaxRewrites, MaxFaults} \subseteq Nat

VARIABLES
    shard,       \* the shard of the transcript
    acquirer,    \* the acquisition each process is in
    faults

vars == <<disk, path, rewrites, shard, acquirer, faults>>

Plain(kind) ==
    [kind |-> kind, side |-> FALSE, key |-> None, usage |-> None, advisor |-> None]

Keys == {x.key : x \in Lines}
\* A shard is the stamp it was written for and what it keeps: with a checkpoint the
\* parser's state, raw records included, and the hash of the prefix, without one
\* finished records that cannot be resumed.  In an acquisition "protected" is the
\* store's mark on a shard that went missing, and "save" the step of one that has
\* condemned its shard.
NoReport == Finished(StartState)
NoStamp == [inode |-> 0, mtime |-> 0, text |-> [lines |-> <<>>, tail |-> "whole"]]

Resting ==
    [step |-> "idle", snapshot |-> NoStamp, planned |-> None,
     inode |-> 0, at |-> 0, newline |-> FALSE, hash |-> <<>>,
     state |-> StartState, report |-> NoReport, status |-> "complete",
     protected |-> FALSE]

Init ==
    /\ FileInit
    /\ shard = None
    /\ acquirer = [a \in Acquirers |-> Resting]
    /\ faults = 0

\* Faults strike one acquisition at a time: a bound, like their number.
Alone(a) == \A b \in Acquirers \ {a} : acquirer[b].step \in {"idle", "done"}
Fault(a) == faults < MaxFaults /\ Alone(a) /\ faults' = faults + 1
NoFault == UNCHANGED faults
Set(a, q) == acquirer' = [acquirer EXCEPT ![a] = q]
At(a, step) == acquirer[a].step = step
World == <<disk, path, rewrites>>

-----------------------------------------------------------------------------
(* Planning, from the header of the shard.                                  *)

\* What an acquisition keeps is dropped when it ends.
Done(q) ==
    [Resting EXCEPT !.step = "done", !.snapshot = q.snapshot,
                    !.report = q.report, !.status = q.status]

\* prepare_snapshot.
Begin(a) ==
    /\ acquirer[a].step \in {"idle", "done"} /\ (faults = 0 \/ Alone(a))
    /\ Set(a, [Resting EXCEPT !.step = "plan", !.snapshot = Stamp])
    /\ UNCHANGED <<World, shard, faults>>

Exact(q) == shard # None /\ shard.stamp = q.snapshot

\* A checkpoint of the same inode and of a smaller size.
Resumable(q) ==
    /\ shard # None /\ shard.checkpoint
    /\ Size(shard.stamp.text) = 3 * Len(shard.hash)
    /\ IsAppendOf(q.snapshot, shard.stamp)

\* plan_cache_hit.
Plan(a) ==
    LET q == acquirer[a]
    IN  /\ At(a, "plan")
        /\ Set(a, IF Exact(q) \/ Resumable(q)
                  THEN [q EXCEPT !.step = "take", !.planned = shard]
                  ELSE [q EXCEPT !.step = "open"])
        /\ UNCHANGED <<World, shard, faults>>

-----------------------------------------------------------------------------
(* resolve_unit.                                                           *)

\* reparse: the input is snapshotted anew and parsed from its start.
Reparsed(q) ==
    [Resting EXCEPT !.step = "open", !.snapshot = Stamp, !.protected = q.protected]

\* take_records by the planned fingerprint.
TakenOver(q) == shard # None /\ shard.stamp = q.planned.stamp

\* The checkpoint was read with the header, the records are read now.
CheckpointState(q) == [q.planned.state EXCEPT !.records = shard.state.records]

\* matches_records.
Matches(q) == Len(q.planned.state.records) = Len(shard.state.records)

TakeRecords(a) ==
    LET q == acquirer[a]
        taken == TakenOver(q)
        answer(report) == Done([q EXCEPT !.report = report])
    IN  /\ At(a, "take")
        /\ \/ /\ taken /\ ~q.planned.checkpoint
              /\ Set(a, answer(shard.report)) /\ NoFault
           \/ /\ taken /\ q.planned.checkpoint /\ Matches(q)
              /\ Set(a, IF q.planned.stamp = q.snapshot
                        THEN answer(Finished(CheckpointState(q)))
                        ELSE [q EXCEPT !.step = "append", !.state = CheckpointState(q)])
              /\ NoFault
           \/ /\ taken => q.planned.checkpoint /\ ~Matches(q)
              /\ Set(a, Reparsed([q EXCEPT !.protected = shard = None])) /\ NoFault
           \/ Set(a, Reparsed(q)) /\ Fault(a)
        /\ UNCHANGED <<World, shard>>

Unavailable(q) == Done([q EXCEPT !.status = "unavailable"])

\* read_append opens the file.
OpenAppend(a) ==
    /\ At(a, "append")
    /\ Set(a, [acquirer[a] EXCEPT !.step = "verify", !.inode = path, !.newline = TRUE])
    /\ UNCHANGED <<World, shard, faults>>

\* Mutant: only the size of the prefix is checked.
PrefixAgrees(q) == Size(disk[q.inode].text) >= q.at + 3

\* The next line of the file is the next line of the prefix.
PrefixContinues(q) ==
    LET n == Len(q.hash) + 1
        text == disk[q.inode].text
    IN  /\ Size(text) >= q.at + 3
        /\ text.lines[n] = q.planned.hash[n]

\* The prefix is hashed as it is read, and compared at its end; what differs
\* earlier differs then.
VerifyPrefix(a) ==
    LET q == acquirer[a]
        n == Len(q.hash) + 1
    IN  /\ At(a, "verify")
        /\ \/ /\ n > Len(q.planned.hash) /\ NoFault
              /\ Set(a, [q EXCEPT !.step = "read"])
           \/ /\ n <= Len(q.planned.hash) /\ PrefixContinues(q) /\ NoFault
              /\ Set(a, [q EXCEPT !.hash = Append(@, q.planned.hash[n]), !.at = @ + 3])
           \/ /\ n <= Len(q.planned.hash) /\ ~PrefixContinues(q) /\ NoFault
              /\ Set(a, Reparsed(q))
           \/ Set(a, Unavailable(q)) /\ Fault(a)
        /\ UNCHANGED <<World, shard>>

\* read_full opens the file.
OpenFull(a) ==
    LET q == acquirer[a]
    IN  /\ At(a, "open")
        /\ \/ Set(a, [q EXCEPT !.step = "read", !.inode = path]) /\ NoFault
           \/ Set(a, Unavailable(q)) /\ Fault(a)
        /\ UNCHANGED <<World, shard>>

\* The next turn of the loop of parse_claude_reader: cancelled or unreadable, at
\* the end, or one line further.
ParseLine(a) ==
    LET q == acquirer[a]
        next == ReadLine(q.inode, q.at, Plain("malformed"), Plain("blank"))
        parsed == ParsedLine(q.state, next.line)
    IN  /\ At(a, "read")
        /\ \/ /\ ~More(q.inode, q.at) /\ NoFault
              /\ Set(a, [q EXCEPT !.step = "validate"])
           \/ /\ More(q.inode, q.at) /\ NoFault
              /\ Set(a, [q EXCEPT !.step = IF parsed.interrupted THEN "validate" ELSE "read",
                                  !.state = parsed, !.at = next.at, !.newline = next.newline,
                                  !.hash = IF q.at % 3 = 0 THEN Append(@, next.line) ELSE @])
           \/ Set(a, [q EXCEPT !.step = "validate", !.state.interrupted = TRUE]) /\ Fault(a)
        /\ UNCHANGED <<World, shard>>

-----------------------------------------------------------------------------
(* finish_scan.                                                            *)

\* Mutant: the inode that was read is not compared with the snapshot.
OfTheSameSize(q) ==
    Stamp = q.snapshot /\ (q.state.interrupted \/ q.at = Size(q.snapshot.text))

\* Nothing has changed since the snapshot, which is of the file that was read, to
\* its end.
Unchanged(q) ==
    /\ Stamp = q.snapshot
    /\ q.inode = q.snapshot.inode
    /\ q.state.interrupted \/ q.at = Size(q.snapshot.text)

Validate(a) ==
    LET q == acquirer[a]
        agrees == [q EXCEPT !.step = "write"]
    IN  /\ At(a, "validate")
        /\ \/ Unchanged(q) /\ Set(a, agrees) /\ NoFault
           \/ ~Unchanged(q) /\ Set(a, [agrees EXCEPT !.state.interrupted = TRUE]) /\ NoFault
           \/ Set(a, [agrees EXCEPT !.state.interrupted = TRUE]) /\ Fault(a)
        /\ UNCHANGED <<World, shard>>

\* Raw records with a checkpoint when the last line ended, finished ones if not.
NewShard(q) ==
    IF q.newline
    THEN [stamp |-> q.snapshot, checkpoint |-> TRUE, hash |-> q.hash,
          state |-> q.state, report |-> NoReport]
    ELSE [stamp |-> q.snapshot, checkpoint |-> FALSE, hash |-> <<>>,
          state |-> StartState, report |-> Finished(q.state)]

Settled(q) ==
    [q EXCEPT !.report = Finished(q.state),
              !.status = IF q.state.interrupted THEN "partial" ELSE "complete"]

\* A complete scan is written, and a partial one condemns the shard, unless it
\* is protected.
WriteShard(a) ==
    LET q == acquirer[a]
        partial == q.state.interrupted
    IN  /\ At(a, "write")
        /\ \/ /\ ~partial /\ NoFault
              /\ shard' = NewShard(q) /\ Set(a, Done(Settled(q)))
           \/ /\ ~partial /\ Fault(a)
              /\ UNCHANGED shard /\ Set(a, Done(Settled(q)))
           \/ /\ partial /\ NoFault
              /\ UNCHANGED shard
              /\ Set(a, IF q.protected THEN Done(Settled(q))
                        ELSE [Settled(q) EXCEPT !.step = "save"])
        /\ UNCHANGED World

\* save_if_dirty.
Unlink(a) ==
    /\ At(a, "save")
    /\ shard' = None /\ Set(a, Done(acquirer[a]))
    /\ UNCHANGED <<World, faults>>

Change == ChangeFile /\ UNCHANGED <<shard, acquirer, faults>>

AcquirerStep(a) ==
    \/ Begin(a) \/ Plan(a) \/ TakeRecords(a) \/ OpenAppend(a) \/ VerifyPrefix(a)
    \/ OpenFull(a) \/ ParseLine(a) \/ Validate(a) \/ WriteShard(a) \/ Unlink(a)

Next == Change \/ \E a \in Acquirers : AcquirerStep(a)

Spec == Init /\ [][Next]_vars

-----------------------------------------------------------------------------
(* Properties.                                                             *)

\* The parse of every text the client writes.
Parse == [lines \in Beginnings |-> FullParse(lines)]

\* A shard is what a full parse of the file it is stamped with would leave, and
\* so is the checkpoint in it, hash and pending turn included: however often the
\* parse was resumed, and whatever happened to the file while it was read.
\* Partial scans are never cached (ADR 0026).
SealedCheckpoint ==
    shard # None =>
        LET text == shard.stamp.text
            parse == Parse[text.lines]
        IN  /\ text.tail # "half" /\ ~parse.interrupted
            /\ shard.checkpoint => shard.state = parse /\ shard.hash = text.lines
            /\ shard.checkpoint => text.tail = "whole"
            /\ ~shard.checkpoint => shard.report = Finished(parse)

\* A report that calls itself complete is that of a full parse of the file as it
\* was when the acquisition took its snapshot: no line is missed, counted twice
\* or taken from another version (ADR 0026: "derive the same result as a full
\* scan").
CompleteIsFullParse ==
    \A a \in Acquirers :
        LET q == acquirer[a]
            text == q.snapshot.text
        IN  At(a, "done") /\ q.status = "complete" =>
                /\ text.tail # "half"
                /\ q.report = Finished(Parse[text.lines])

\* In a complete report the copies of a message count once, and so does each call
\* of an advisor they mention: split input wins over snapshots and the largest copy
\* over the others, whichever came first and on whichever side of a checkpoint
\* (ADR 0018, ADR 0031).
CountedOnce(records, key, seen) ==
    LET mine == {n \in DOMAIN records : records[n].key = key}
    IN  IF seen = {} \/ ~Positive(Declared(seen)) THEN mine = {}
        ELSE /\ Cardinality(mine) = 1
             /\ \A n \in mine : records[n].usage = Declared(seen)

MessagesCountOnce ==
    \A a \in Acquirers, key \in Keys \ {None} :
        At(a, "done") /\ acquirer[a].status = "complete" =>
            LET lines == acquirer[a].snapshot.text.lines
                copies == {lines[n] : n \in {m \in DOMAIN lines :
                               lines[m].kind = "assistant" /\ lines[m].key = key}}
                records == acquirer[a].report.records
            IN  /\ CountedOnce(records, <<key, "message">>, {c.usage : c \in copies})
                /\ CountedOnce(records, <<key, "advisor">>,
                               {c.advisor : c \in copies} \ {None})
=============================================================================
