-------------------------- MODULE CodexTranscript --------------------------
(***************************************************************************)
(* The parser of one Codex rollout (codex/decode.rs), as a fold over its      *)
(* lines.  A response is written twice: a token_usage_record when it ends and  *)
(* a token_count that reports it, at once, late or never.  The parser holds a   *)
(* record back until it is settled one way or the other (ADR 0025), and skips   *)
(* the history a forked session replays.                                     *)
(*                                                                         *)
(* Abstractions: the token buckets are one number, and a cumulative total is    *)
(* positive; a rejection is counted, not described; agents, workspaces, tiers    *)
(* and records of other threads are left out.                                *)
(***************************************************************************)
EXTENDS Integers, Sequences, SequencesExt

CONSTANT None

\* PendingResponse: a record that is held back.
Held ==
    [usage : Nat, turn : Nat \cup {None}, model : STRING, start : BOOLEAN,
     compacted : BOOLEAN]

\* Whatever an Option holds is not its None.
ASSUME NoneAssumption ==
    /\ None \notin Nat /\ None \notin STRING /\ None \notin Held
    /\ None \notin {"invalid", "undated", "unshaped"}

\* A line of the rollout.  "malformed" is not JSON; "odd" is JSON that is no
\* entry and cannot affect the state; "other" an event the parser does not
\* use; "started" is task_started, "end" task_complete or turn_aborted; "fork"
\* and "parent" are the session_meta of a forked child and of its parent.
LineKinds ==
    {"blank", "malformed", "odd", "other", "fork", "parent", "turn", "started",
     "end", "human", "compacted", "record", "count"}

\* A fault is None, "invalid" when a usage fails validation, "undated" without a
\* timestamp, or "unshaped" when a required part is missing: of a record its
\* response, of a count its usage, of a human input its item, else the payload.
\* "id" is a response id: a count carries none in the file, there it is history,
\* like "own", which tells the lines of the session from those it replays, except
\* that the turn of a child is told by the time in its id.
Plain(kind) ==
    [kind |-> kind, id |-> None, usage |-> 0, total |-> 0, turn |-> None,
     model |-> None, own |-> TRUE, fault |-> None]

\* CodexParseState, with what the parser keeps beside it: the messages, those that
\* wait for their model, and the rejections.  "previous" is 0 for none.
StartState ==
    [model |-> None, previous |-> 0, turn |-> None, started |-> FALSE,
     pending |-> None, settled |-> <<>>, seen |-> {},
     waiting |-> FALSE, replaying |-> FALSE, baseline |-> 0,
     messages |-> <<>>, unmodelled |-> <<>>, rejected |-> 0, interrupted |-> FALSE]

Message(usage, model, start) == [usage |-> usage, model |-> model, start |-> start]

Or(first, second) == IF first # None THEN first ELSE second

\* reject_record and interrupt_on_record: the record leaves no trace but this.
Rejected(s) == [s EXCEPT !.rejected = @ + 1]
Interrupted(s) == [Rejected(s) EXCEPT !.interrupted = TRUE]

-----------------------------------------------------------------------------
(* Settlement.                                                             *)

\* ResponseSignature::same_context and ::matches.
SameContext(signature, turn, model) ==
    /\ turn = None \/ signature.turn = None \/ signature.turn = turn
    /\ model = None \/ signature.model = model

Matches(signature, usage, turn, model) ==
    signature.usage = usage /\ SameContext(signature, turn, model)

\* settle_response: the record counts on its own evidence; a turn start goes to
\* the first response that is counted after it.
Settled(s) ==
    IF s.pending = None THEN s
    ELSE LET p == s.pending
             start == p.start /\ s.started
         IN  [s EXCEPT !.pending = None, !.started = @ /\ ~start,
                       !.messages = Append(@, Message(p.usage, p.model, start)),
                       !.settled = Append(@, [usage |-> p.usage, turn |-> p.turn,
                                              model |-> p.model])]

AfterCompacted(s) == s.pending # None /\ s.pending.compacted

\* A token_count that emits nothing settles a compaction.
Unadvanced(s) == IF AfterCompacted(s) THEN Settled(s) ELSE s

\* flush_pending_model_messages.
Modelled(s, model) ==
    IF model = None THEN s
    ELSE [s EXCEPT !.model = model, !.unmodelled = <<>>,
                   !.messages = @ \o [n \in DOMAIN s.unmodelled |->
                                        [s.unmodelled[n] EXCEPT !.model = model]]]

\* token_usage_record.
ParsedRecord(s, line) ==
    LET model == Or(line.model, s.model)
    IN  IF line.fault # None \/ model = None THEN Rejected(s)
        ELSE IF line.usage = 0 \/ line.id \in s.seen THEN s
        ELSE [Settled(s) EXCEPT
                !.seen = @ \cup {line.id},
                !.pending = [usage |-> line.usage, turn |-> Or(line.turn, s.turn),
                             model |-> model, start |-> s.started, compacted |-> FALSE]]

\* looks_like_stale_regression.
Stale(total, previous, last) ==
    /\ 0 < total /\ total < previous /\ last > 0
    /\ total * 100 >= previous * 98 \/ total + last * 2 >= previous

\* A snapshot that reports nothing new.
Repeats(s, line) ==
    \/ s.previous # 0 /\ (line.total = s.previous \/ Stale(line.total, s.previous, line.usage))
    \/ line.usage = 0

Confirms(s, line, model) == s.pending # None /\ Matches(s.pending, line.usage, line.turn, model)

\* Mutant: every count that does not confirm the pending record is new.
NoneIsLate(s, line) == 0

\* The settled response a late count reports, 0 for none.
LateFor(s, line) ==
    SelectInSeq(s.settled, LAMBDA q : Matches(q, line.usage, line.turn, line.model))

\* A compacted response, or one of another turn or model, is settled; the count
\* is the authority on an adjacent one.
Superseded(s, line) ==
    IF AfterCompacted(s) \/ (s.pending # None /\ ~SameContext(s.pending, line.turn, line.model))
    THEN Settled(s)
    ELSE [s EXCEPT !.pending = None]

\* A message with a model, or one that waits for it.
Emitted(s, line, model) ==
    LET message == Message(line.usage, model, s.started)
        t == [s EXCEPT !.started = FALSE]
    IN  IF model # None THEN [t EXCEPT !.messages = Append(@, message)]
        ELSE [t EXCEPT !.unmodelled = Append(@, message)]

\* A validated token_count whose last state is s and whose model is known or not.
Reported(s, line, model) ==
    IF s.baseline # 0 /\ line.total <= s.baseline THEN [s EXCEPT !.pending = None]
    ELSE IF Repeats(s, line) THEN Unadvanced([s EXCEPT !.baseline = 0])
    ELSE LET t == [s EXCEPT !.baseline = 0, !.previous = line.total]
         IN  CASE Confirms(s, line, model) -> Emitted([t EXCEPT !.pending = None], line, model)
               [] ~Confirms(s, line, model) /\ LateFor(s, line) # 0 ->
                      [t EXCEPT !.settled = RemoveAt(@, LateFor(s, line))]
               [] OTHER -> Emitted(Superseded(t, line), line, model)

\* token_count.  Only one that is counted needs its timestamp.
ParsedCount(s, line) ==
    LET model == Or(line.model, Or(IF s.pending = None THEN None ELSE s.pending.model, s.model))
        t == Modelled(s, model)
        reported == Reported(t, line, model)
        counted == Len(reported.messages) + Len(reported.unmodelled)
                       > Len(t.messages) + Len(t.unmodelled)
    IN  CASE line.fault = "unshaped" -> Interrupted(s)
          [] line.fault = "invalid" -> Rejected(s)
          [] line.fault = "undated" /\ counted /\ ~Repeats(s, line) -> Interrupted(s)
          [] OTHER -> reported

-----------------------------------------------------------------------------
(* The other entries.                                                      *)

\* A new turn or task, or the end of the one the pending response belongs to.
ClosesPending(s, line) ==
    /\ s.pending # None
    /\ CASE line.kind = "turn" -> s.pending.turn # line.turn
         [] line.kind = "started" -> s.pending.turn # line.turn \/ line.turn = None
         [] line.kind = "end" -> s.pending.turn = line.turn \/ line.turn = None
         [] OTHER -> FALSE

Closed(s, line) ==
    LET t == IF ClosesPending(s, line) THEN Settled(s) ELSE s
    IN  IF line.kind \in {"turn", "started"} THEN [t EXCEPT !.turn = line.turn] ELSE t

\* A compaction may have no payload: then it is nothing but that.
Bare(line) == line.kind = "compacted" /\ line.fault = "unshaped"

\* A count without a model must be followed by an entry that has one and uses it.
Undecided(s, line) ==
    /\ s.unmodelled # <<>> /\ ~Bare(line)
    /\ \/ line.kind \in {"started", "end", "other"}
       \/ line.model = None /\ line.kind \notin {"fork", "parent"}

ParsedEntry(s, line) ==
    LET t == Closed(s, line)
    IN  IF Undecided(s, line) \/ (line.kind = "human" /\ line.fault = "unshaped")
        THEN Interrupted(s)
        ELSE CASE line.kind = "turn" -> [Modelled(t, line.model) EXCEPT !.model = line.model]
               [] line.kind = "human" -> [t EXCEPT !.started = TRUE]
               [] line.kind = "compacted" ->
                      IF t.pending = None THEN t ELSE [t EXCEPT !.pending.compacted = TRUE]
               [] line.kind = "fork" -> [t EXCEPT !.waiting = TRUE, !.replaying = FALSE, !.baseline = 0]
               [] OTHER -> t

\* A forked session up to the first turn of its own: of the replay only the
\* last total is remembered.
StartsOwn(s, line) == line.kind = "turn" /\ (~s.replaying \/ line.own)

Replayed(s, line) ==
    CASE line.kind = "parent" -> [s EXCEPT !.replaying = TRUE]
      [] line.kind = "count" ->
             IF line.fault \in {"invalid", "unshaped"} THEN Rejected(s)
             ELSE [s EXCEPT !.previous = line.total, !.baseline = line.total]
      [] OTHER -> s

\* What breaks the parse off even in a replay: no JSON, an entry without its
\* payload, and what has none while a message waits for its model.
Unreadable(s, line) ==
    \/ line.kind = "malformed"
    \/ /\ line.fault = "unshaped"
       /\ line.kind \in {"fork", "parent", "turn", "started", "end", "other"}
    \/ s.unmodelled # <<>> /\ (line.kind = "odd" \/ (s.waiting /\ Bare(line)))

\* One line of parse_codex_reader.
ParsedLine(s, line) ==
    IF s.interrupted \/ line.kind = "blank" THEN s
    ELSE IF Unreadable(s, line) THEN Interrupted(s)
    ELSE IF s.waiting
    THEN IF StartsOwn(s, line)
         THEN ParsedEntry([s EXCEPT !.waiting = FALSE, !.replaying = FALSE], line)
         ELSE Replayed(s, line)
    ELSE CASE line.kind = "odd" -> Rejected(s)
           [] line.kind = "record" -> ParsedRecord(s, line)
           [] line.kind = "count" -> ParsedCount(s, line)
           [] OTHER -> ParsedEntry(s, line)

\* The end of the input: a message must not wait for its model any longer.
Ended(s) == IF s.interrupted \/ s.unmodelled = <<>> THEN s ELSE Interrupted(s)

\* The parse of some lines, and of a whole text.
ParsedLines(lines) ==
    LET parse[n \in 0 .. Len(lines)] ==
          IF n = 0 THEN StartState ELSE ParsedLine(parse[n - 1], lines[n])
    IN  parse[Len(lines)]

FullParse(lines) == Ended(ParsedLines(lines))
=============================================================================
