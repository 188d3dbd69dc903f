---------------------------- MODULE CodexAppend ----------------------------
(***************************************************************************)
(* Verified append parsing of a Codex rollout (codex/mod.rs).  Unlike Claude's  *)
(* driver it resumes while inputs are parsed, from the checkpoint in the       *)
(* header of the shard, and joins the cached records to the new ones while     *)
(* they are folded; it never fails a parse because the file changed, but does    *)
(* not cache it then.  The client writes, and acquisitions of other processes    *)
(* share the shard, between any two reads.                                   *)
(*                                                                         *)
(* A hash is the lines that were hashed.  Archives and the engine around the    *)
(* driver are left out.                                                     *)
(***************************************************************************)
EXTENDS CodexSession, TranscriptFile

CONSTANTS
    Acquirers,
    Settings     \* bounds of a behaviour: how many lines of which kinds, changes,
                 \* acquisitions, faults, and whether the client writes in pieces

Line ==
    [kind : LineKinds, id : Nat \cup {None}, usage : Nat, total : Nat, own : BOOLEAN,
     turn : Nat \cup {None}, model : STRING \cup {None},
     fault : {None, "invalid", "undated", "unshaped"}]

\* The drafts are what the file may be replaced or overwritten with.
ASSUME CodexAssumption ==
    /\ Drafts \subseteq Seq(Line)
    /\ {MaxChanges, MaxRewrites} \subseteq Nat
    /\ Settings \subseteq [lines : Nat, kinds : SUBSET LineKinds, changes : 0 .. MaxChanges,
                           acquirers : SUBSET Acquirers, faults : Nat, pieces : BOOLEAN]

\* What replaces the file is what another session has written.
SessionsOnly == \A d \in Drafts : IsSession(d)

VARIABLES
    shard,       \* the shard of the rollout
    acquirer,    \* the acquisition each process is in
    faults, setting

vars == <<disk, path, rewrites, shard, acquirer, faults, setting>>
World == <<disk, path, rewrites, setting>>

\* CodexParseState: what a checkpoint keeps of the parser.
Checkpoint(s) == [s EXCEPT !.messages = <<>>, !.unmodelled = <<>>, !.rejected = 0]

NoStamp == [inode |-> 0, mtime |-> 0, text |-> [lines |-> <<>>, tail |-> "whole"]]
NoReport == [messages |-> <<>>, rejected |-> 0]

\* An acquisition.  "pass" says what it does with the file, "hash" what it has
\* hashed, "plan" is the shard it may write; "invalid" and "damaged" condemn the
\* shard, "protected" is the store's mark on one that went missing.
Resting ==
    [step |-> "idle", pass |-> "full", snapshot |-> NoStamp, planned |-> None,
     inode |-> 0, at |-> 0, newline |-> TRUE, hash |-> <<>>, state |-> StartState,
     plan |-> None, invalid |-> FALSE, damaged |-> FALSE, protected |-> FALSE,
     report |-> NoReport, status |-> "complete"]

Init ==
    /\ FileInit
    /\ shard = None
    /\ acquirer = [a \in Acquirers |-> Resting]
    /\ faults = 0
    /\ setting \in Settings

At(a, step) == acquirer[a].step = step
Set(a, q) == acquirer' = [acquirer EXCEPT ![a] = q]
Alone(a) == \A b \in Acquirers \ {a} : acquirer[b].step \in {"idle", "done"}
Fault(a) == faults < setting.faults /\ Alone(a) /\ faults' = faults + 1
NoFault == UNCHANGED faults

\* What an acquisition keeps is dropped when it ends, except what it read.
Done(q) ==
    [Resting EXCEPT !.step = "done", !.snapshot = q.snapshot, !.hash = q.hash,
                    !.report = q.report, !.status = q.status]

\* A condemned shard is unlinked when the store is saved, unless it is protected.
Ending(q) ==
    IF (q.invalid \/ q.damaged) /\ ~q.protected THEN [q EXCEPT !.step = "save"] ELSE Done(q)

-----------------------------------------------------------------------------
(* Planning and parsing.                                                    *)

\* prepare_snapshot.
Begin(a) ==
    /\ a \in setting.acquirers
    /\ acquirer[a].step \in {"idle", "done"} /\ (faults = 0 \/ Alone(a))
    /\ Set(a, [Resting EXCEPT !.step = "plan", !.snapshot = Stamp])
    /\ UNCHANGED <<World, shard, faults>>

Exact(q) == shard # None /\ shard.stamp = q.snapshot

\* The candidate has grown: only its size is compared before it is verified.
Longer(q) == shard # None /\ Size(q.snapshot.text) > 3 * Len(shard.hash)

\* plan_exact_codex_cache_hit, and the choice of load_or_parse_codex_unit.
Plan(a) ==
    LET q == acquirer[a]
    IN  /\ At(a, "plan")
        /\ \/ /\ Exact(q) /\ NoFault
              /\ Set(a, [q EXCEPT !.step = "take", !.pass = "hit", !.planned = shard,
                                  !.hash = shard.hash])
           \/ /\ ~Exact(q) /\ Longer(q) /\ NoFault
              /\ Set(a, [q EXCEPT !.step = "open", !.pass = "append", !.planned = shard])
           \/ /\ ~Exact(q) /\ ~Longer(q) /\ NoFault
              /\ Set(a, [q EXCEPT !.step = "open", !.invalid = shard # None])
           \/ Set(a, [q EXCEPT !.step = "open"]) /\ Fault(a)
        /\ UNCHANGED <<World, shard>>

Unavailable(q) ==
    Ending([q EXCEPT !.status = "unavailable", !.report = NoReport, !.invalid = FALSE])

Open(a) ==
    LET q == acquirer[a]
        opened == [q EXCEPT !.inode = path, !.at = 0, !.hash = <<>>, !.newline = TRUE,
                            !.state = StartState]
    IN  /\ At(a, "open")
        /\ \/ Set(a, [opened EXCEPT !.step = IF q.pass = "append" THEN "verify" ELSE "read"])
              /\ NoFault
           \/ Set(a, Unavailable(q)) /\ Fault(a)
        /\ UNCHANGED <<World, shard>>

\* reparse_from_start, with the snapshot of the plan.
FromStart(q) == [q EXCEPT !.step = "open", !.pass = "full", !.invalid = TRUE]

\* The next line of the file is the next line of the prefix.
PrefixContinues(q) ==
    LET text == disk[q.inode].text
    IN  Size(text) >= q.at + 3 /\ text.lines[Len(q.hash) + 1] = q.planned.hash[Len(q.hash) + 1]

\* The prefix is hashed as it is read, and compared at its end; what differs
\* earlier differs then.
VerifyPrefix(a) ==
    LET q == acquirer[a]
        n == Len(q.hash) + 1
    IN  /\ At(a, "verify")
        /\ \/ /\ n > Len(q.planned.hash) /\ NoFault
              /\ Set(a, [q EXCEPT !.step = "read", !.state = q.planned.state])
           \/ /\ n <= Len(q.planned.hash) /\ PrefixContinues(q) /\ NoFault
              /\ Set(a, [q EXCEPT !.hash = Append(@, disk[q.inode].text.lines[n]),
                                  !.at = @ + 3])
           \/ /\ n <= Len(q.planned.hash) /\ ~PrefixContinues(q) /\ NoFault
              /\ Set(a, FromStart(q))
           \/ Set(a, Unavailable(q)) /\ Fault(a)
        /\ UNCHANGED <<World, shard>>

\* The next turn of the loop of parse_codex_reader: cancelled or unreadable, at
\* the end, or one line further.
ParseLine(a) ==
    LET q == acquirer[a]
        next == ReadLine(q.inode, q.at, Plain("malformed"), Plain("blank"))
        parsed == ParsedLine(q.state, next.line)
    IN  /\ At(a, "read")
        /\ \/ /\ ~More(q.inode, q.at) /\ NoFault
              /\ Set(a, [q EXCEPT !.step = "measure", !.state = Ended(@)])
           \/ /\ More(q.inode, q.at) /\ NoFault
              /\ Set(a, [q EXCEPT !.step = IF parsed.interrupted THEN "measure" ELSE "read",
                                  !.state = parsed, !.at = next.at, !.newline = next.newline,
                                  !.hash = IF q.at % 3 = 0 THEN Append(@, next.line) ELSE @])
           \/ Set(a, [q EXCEPT !.step = "measure", !.state.interrupted = TRUE]) /\ Fault(a)
        /\ UNCHANGED <<World, shard>>

-----------------------------------------------------------------------------
(* The cache metadata and the fold.                                         *)

\* Mutant: the file may have changed since its snapshot.
OfTheSameFile(q) ==
    q.inode = q.snapshot.inode /\ q.at = Size(q.snapshot.text) /\ q.newline

\* build_codex_cache_metadata: the file that was read is the one of the snapshot,
\* unchanged, was read to its end and ends with a newline.
Cacheable(q) ==
    /\ Stamp = q.snapshot
    /\ q.inode = q.snapshot.inode
    /\ q.at = Size(q.snapshot.text)
    /\ q.newline

NewShard(q) ==
    [stamp |-> q.snapshot, hash |-> q.hash, state |-> Checkpoint(q.state),
     records |-> q.state.messages, rejected |-> q.state.rejected]

\* What was parsed is reported; the records of an append are still to be joined.
\* A recovery leaves the verdict on the shard to what went before.
Parsed(q, plan) ==
    LET interrupted == q.state.interrupted
    IN  [q EXCEPT !.report = [messages |-> q.state.messages, rejected |-> q.state.rejected],
                  !.status = IF interrupted THEN "partial" ELSE "complete",
                  !.invalid = @ \/ (interrupted /\ q.pass # "again"),
                  !.plan = plan,
                  !.step = IF q.pass = "append" THEN "take" ELSE "write"]

\* An append that cannot be cached is parsed again from the start; a full parse is
\* reported even so.
Measure(a) ==
    LET q == acquirer[a]
        interrupted == q.state.interrupted
    IN  /\ At(a, "measure")
        /\ \/ interrupted /\ Set(a, Parsed(q, None)) /\ NoFault
           \/ ~interrupted /\ Cacheable(q) /\ Set(a, Parsed(q, NewShard(q))) /\ NoFault
           \/ /\ ~interrupted /\ ~Cacheable(q) /\ NoFault
              /\ Set(a, IF q.pass = "append" THEN FromStart(q) ELSE Parsed(q, None))
           \/ ~interrupted /\ Set(a, Unavailable(q)) /\ Fault(a)
        /\ UNCHANGED <<World, shard>>

\* take_records by the fingerprint of the plan.
TakenOver(q) == shard # None /\ shard.stamp = q.planned.stamp

\* Mutant: what the prefix has rejected is forgotten.
RejectionsOfTheTail(q) ==
    [messages |-> shard.records \o (IF q.pass = "append" THEN q.report.messages ELSE <<>>),
     rejected |-> q.report.rejected]

\* The cached records, and those of the tail after them.
Joined(q) ==
    [messages |-> shard.records \o (IF q.pass = "append" THEN q.report.messages ELSE <<>>),
     rejected |-> q.planned.rejected + q.report.rejected]

\* The plan of an append is completed with the records it is written with.
Completed(q) ==
    IF q.plan = None THEN None
    ELSE [q.plan EXCEPT !.records = Joined(q).messages, !.rejected = Joined(q).rejected]

\* reparse_full_codex_messages: snapshotted anew, and its own health is reported.
Refolded(q) ==
    [q EXCEPT !.step = "open", !.pass = "again", !.snapshot = Stamp, !.plan = None]

TakeRecords(a) ==
    LET q == acquirer[a]
    IN  /\ At(a, "take")
        /\ \/ /\ TakenOver(q) /\ NoFault
              /\ Set(a, [q EXCEPT !.step = "write", !.report = Joined(q), !.plan = Completed(q)])
           \/ /\ ~TakenOver(q) /\ NoFault
              /\ Set(a, Refolded([q EXCEPT !.protected = shard = None]))
           \/ Set(a, Refolded([q EXCEPT !.damaged = TRUE])) /\ Fault(a)
        /\ UNCHANGED <<World, shard>>

\* write_codex_cache_and_apply_recovery.  A failed write disables the store.
WriteShard(a) ==
    LET q == acquirer[a]
    IN  /\ At(a, "write")
        /\ \/ q.plan # None /\ shard' = q.plan /\ Set(a, Done(q)) /\ NoFault
           \/ q.plan # None /\ Fault(a) /\ Set(a, Done(q)) /\ UNCHANGED shard
           \/ q.plan = None /\ Set(a, Ending(q)) /\ NoFault /\ UNCHANGED shard
        /\ UNCHANGED World

\* save_if_dirty.
Unlink(a) ==
    /\ At(a, "save")
    /\ shard' = None /\ Set(a, Done(acquirer[a]))
    /\ UNCHANGED <<World, faults>>

-----------------------------------------------------------------------------
(* The session.                                                            *)

\* It writes a line, at once or in pieces, or the part of it that is missing.
Write ==
    LET text == Current.text
        lines == {l \in Written(text.lines) : l.kind \in setting.kinds}
        tails == IF setting.pieces THEN Tails ELSE {"whole"}
        put(more) == disk' = [disk EXCEPT ![path] = Changed(more)]
    IN  /\ \/ /\ text.tail = "whole" /\ Len(text.lines) < setting.lines
              /\ \E line \in lines, t \in tails :
                     put([lines |-> Append(text.lines, line), tail |-> t])
           \/ /\ text.tail # "whole"
              /\ \E t \in {"open", "whole"} \ {text.tail} : put([text EXCEPT !.tail = t])
        /\ UNCHANGED <<path, rewrites>>

Change ==
    /\ LastChange < setting.changes
    /\ Write \/ (setting.pieces /\ (RewriteFile \/ RestoreFile))
    /\ UNCHANGED <<shard, acquirer, faults, setting>>

AcquirerStep(a) ==
    \/ Begin(a) \/ Plan(a) \/ Open(a) \/ VerifyPrefix(a) \/ ParseLine(a) \/ Measure(a)
    \/ TakeRecords(a) \/ WriteShard(a) \/ Unlink(a)

Next == Change \/ \E a \in setting.acquirers : AcquirerStep(a)

Spec == Init /\ [][Next]_vars

-----------------------------------------------------------------------------
(* Properties.                                                             *)

\* A shard is what a full parse of the file it is stamped with would leave, and
\* its checkpoint is the state of the parser there: the totals, the response that
\* waits to be settled, those settled early and the turn that is open, however
\* often the parse was resumed and whatever was written meanwhile.  It is never of
\* a parse that broke off (docs/facts/codex.md).
SealedCheckpoint ==
    shard # None =>
        LET parse == FullParse(shard.stamp.text.lines)
        IN  /\ shard.stamp.text.tail = "whole" /\ ~parse.interrupted
            /\ shard.hash = shard.stamp.text.lines
            /\ shard.state = Checkpoint(parse)
            /\ shard.records = parse.messages /\ shard.rejected = parse.rejected

\* A report that calls itself complete is that of a full parse of the lines it was
\* made from, though a resumed one takes them from a shard, a prefix that was read
\* twice and a tail.  Unless the file was overwritten in place they are the
\* beginning of one version of it, and nothing that was there when the acquisition
\* took its snapshot is missing.
CompleteIsFullParse ==
    \A a \in Acquirers :
        LET q == acquirer[a]
            parse == FullParse(q.hash)
        IN  At(a, "done") /\ q.status = "complete" =>
                /\ q.report = [messages |-> parse.messages, rejected |-> parse.rejected]
                /\ ~parse.interrupted
                /\ rewrites = Len(disk) - 1 =>
                       \E i \in Inodes :
                           /\ IsPrefix(q.hash, disk[i].text.lines)
                           /\ i = q.snapshot.inode => IsPrefix(q.snapshot.text.lines, q.hash)

\* In whichever order a session writes its records and counts, also in a forked
\* child, a parse that did not break off has counted no response twice, nothing of
\* a parent, and every response that was settled; and it marks no more turn starts
\* than there were human inputs, but the one that was answered (ADR 0025).  Only of
\* a session with a repeated count that cannot be told by its total (Misleads),
\* and of a response whose compaction is followed by a late count of another
\* (IsOver, not IsSettled), nothing is said: there it fails.
ResponsesCountOnce ==
    LET lines == Current.text.lines
        parse == FullParse(lines)
        settled == {id \in Responses(lines) : IsSettled(lines, id)}
    IN  ~parse.interrupted /\ ~Misleads(lines) =>
            /\ ResponsesAgree(lines, parse.messages, settled)
            /\ InputsAgree(lines, parse.messages)

\* What ADR 0025 promises of every session: responses that are over are counted
\* exactly once, and "a counter that emits nothing or describes another response
\* settles compaction separately" (docs/adr/0025, line 19).
CountedExactlyOnce ==
    LET lines == Current.text.lines
        parse == FullParse(lines)
        over == {id \in Responses(lines) : IsOver(lines, id)}
    IN  ~parse.interrupted => ResponsesAgree(lines, parse.messages, over)
=============================================================================
