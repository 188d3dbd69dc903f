-------------------------- MODULE ClaudeTranscript --------------------------
(***************************************************************************)
(* The parser of one Claude transcript (claude/decode.rs), as a fold over    *)
(* its lines.  A message is written several times while it streams; its      *)
(* copies share a key and are merged into one record.  What the parser has   *)
(* carried from one line to the next is its state, which a checkpoint saves.  *)
(*                                                                         *)
(* Abstractions: a line is what the parser does with it; of the token        *)
(* buckets, "input" is the one with two conventions and "output" stands for   *)
(* those that are merged by maximum; rejections are a number; the sidechain   *)
(* stands for everything the first entry decides.                            *)
(***************************************************************************)
EXTENDS Naturals, Sequences, SequencesExt

CONSTANT None

\* A line of the transcript.  "malformed" is not JSON, "untyped" has a blank
\* entry type, "invalid" an assistant message with negative counters, "undated"
\* one without a timestamp; "synthetic" stands for messages that are skipped.
LineKinds ==
    {"blank", "malformed", "untyped", "cost", "user", "assistant", "synthetic",
     "invalid", "undated"}

\* Mutant: the larger input wins, whichever convention it was reported in.
LargerInput(u, v) == IF u.input >= v.input THEN u.input ELSE v.input

\* merge_input: split input supersedes a snapshot of the whole prompt.
MergedInput(u, v) ==
    CASE v.split /\ ~u.split -> v.input
      [] u.split /\ ~v.split -> u.input
      [] OTHER -> IF u.input >= v.input THEN u.input ELSE v.input

\* merge_claude_duplicate.
MergedUsage(u, v) ==
    [input |-> MergedInput(u, v), split |-> u.split \/ v.split,
     output |-> IF u.output >= v.output THEN u.output ELSE v.output]

Positive(u) == u.input > 0 \/ u.output > 0

\* ClaudeParseState and the records so far.
StartState ==
    [records |-> <<>>, pending |-> FALSE, side |-> None, cost |-> None,
     rejected |-> 0, interrupted |-> FALSE]

\* The dedup key of a message or of an advisor's call, None without a message id.
RecordKey(line, part) == IF line.key = None THEN None ELSE <<line.key, part>>

\* The index of the record with a key, 0 for none: processed_hashes.
IndexOf(records, key) ==
    SelectInSeq(records, LAMBDA r : key # None /\ r.key = key)

\* A further observation of a record, or a first one.
Observed(records, key, usage, turn, side) ==
    LET at == IndexOf(records, key)
    IN  IF at # 0 THEN [records EXCEPT ![at].usage = MergedUsage(@, usage)]
        ELSE Append(records, [key |-> key, usage |-> usage, turn |-> turn, side |-> side])

\* advisor_records: the calls of an advisor, keyed by their parent and position.
WithAdvisor(records, line, side) ==
    IF line.advisor = None THEN records
    ELSE Observed(records, RecordKey(line, "advisor"), line.advisor, FALSE, side)

\* An assistant message with usage.
Answered(s, line) ==
    LET key == RecordKey(line, "message")
        new == IndexOf(s.records, key) = 0
        records == Observed(s.records, key, line.usage, s.pending, s.side)
    IN  [s EXCEPT !.records = WithAdvisor(records, line, s.side),
                  !.pending = @ /\ ~new]

\* The first entry that is not a cost state decides for the whole file.
Sided(s, line) ==
    IF s.side # None THEN s
    ELSE [s EXCEPT !.side = IF line.side THEN "sidechain" ELSE "main"]

Rejected(s) == [s EXCEPT !.rejected = @ + 1]

\* One line of parse_claude_reader.
ParsedLine(s, line) ==
    LET t == Sided(s, line)
    IN  IF s.interrupted THEN s
        ELSE CASE line.kind = "blank" -> s
             [] line.kind = "malformed" -> [Rejected(s) EXCEPT !.interrupted = TRUE]
             [] line.kind = "untyped" -> Rejected(s)
             [] line.kind = "cost" -> [s EXCEPT !.cost = line.usage]
             [] line.kind = "user" -> [t EXCEPT !.pending = TRUE]
             [] line.kind = "synthetic" -> t
             [] line.kind = "invalid" -> Rejected(t)
             [] line.kind = "undated" ->
                    IF Positive(line.usage) THEN [Rejected(t) EXCEPT !.pending = FALSE]
                    ELSE [t EXCEPT !.pending = FALSE]
             [] line.kind = "assistant" -> Answered(t, line)

\* The records that count anything, in their order: Vec::retain.
Retained(records) ==
    LET kept[n \in 0 .. Len(records)] ==
          IF n = 0 THEN <<>>
          ELSE IF Positive(records[n].usage) THEN Append(kept[n - 1], records[n])
          ELSE kept[n - 1]
    IN  kept[Len(records)]

\* RawClaudeScan::finish_with_project: what the acquisition folds.
Finished(s) ==
    [records |-> Retained(s.records), cost |-> s.cost, rejected |-> s.rejected]

\* The parse of a whole text.
FullParse(lines) ==
    LET parse[n \in 0 .. Len(lines)] ==
          IF n = 0 THEN StartState ELSE ParsedLine(parse[n - 1], lines[n])
    IN  parse[Len(lines)]

-----------------------------------------------------------------------------
(* Reference: what a transcript says of one message, without a parser.      *)

\* The observations of a message, as ADR 0018 counts them: split input alone if
\* any copy reports it, the largest copy otherwise.
Declared(usages) ==
    LET split == {u \in usages : u.split}
        inputs == IF split = {} THEN usages ELSE split
        Largest(set) == CHOOSE n \in set : \A m \in set : m <= n
    IN  [input |-> Largest({u.input : u \in inputs}), split |-> split # {},
         output |-> Largest({u.output : u \in usages})]
=============================================================================
