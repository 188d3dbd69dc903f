---------------------------- MODULE CodexSession ----------------------------
(***************************************************************************)
(* What a Codex session writes in its rollout, line by line, and what it has   *)
(* used by then, told without a parser.  The client is not in this repository:  *)
(* its protocol is the one ADR 0025, docs/facts/codex.md and the comments of    *)
(* the parser describe.                                                      *)
(*                                                                         *)
(* A response leaves a record when it ends and is reported by a count, at once,  *)
(* late or never; counts repeat; after a compaction one need not advance; an     *)
(* older client writes counts only; a forked child replays its parent first.     *)
(***************************************************************************)
EXTENDS CodexTranscript, FiniteSets

CONSTANTS
    Usages,                   \* what a response may use
    Models,                   \* the models of the turns, one after the other
    MaxResponses, MaxHumans,  \* bounds, as is that of lines the parser rejects
    MaxFaulty

ASSUME SessionAssumption ==
    /\ Usages \subseteq Nat \ {0}
    /\ Models \in Seq(STRING) \ {<<>>}
    /\ {MaxResponses, MaxHumans, MaxFaulty} \subseteq Nat

Of(lines, kind) == {n \in DOMAIN lines : lines[n].kind = kind}
Own(lines) == {n \in DOMAIN lines : lines[n].own}
OwnCounts(lines) == Of(lines, "count") \cap Own(lines)

\* The number of the session's own turn, 0 before the first.
TurnOf(lines) == Cardinality(Of(lines, "turn") \cap Own(lines))
Forked(lines) == Of(lines, "fork") # {}
Total(lines) == Max({0} \cup {lines[n].total : n \in Of(lines, "count")})

\* The responses, numbered as they end.
Responses(lines) == {lines[n].id : n \in Own(lines)} \ {None}
Recorded(lines) == {lines[n].id : n \in Of(lines, "record") \cap Own(lines)}
FirstOf(lines, id) == Min({n \in DOMAIN lines : lines[n].id = id})
Counted(lines) == {lines[n].id : n \in {m \in OwnCounts(lines) : lines[m].fault = None}}
UsageOf(lines, id) == lines[FirstOf(lines, id)].usage
TurnIn(lines, id) == TurnOf(SubSeq(lines, 1, FirstOf(lines, id)))

\* The counts that are not another one's repetition.
Told(lines) == {n \in OwnCounts(lines) : lines[n].id # None}

-----------------------------------------------------------------------------
(* The lines a session may write next.                                      *)

Inputs(lines) ==
    IF Cardinality(Of(lines, "human") \cap Own(lines)) < MaxHumans THEN {Plain("human")} ELSE {}

Turns(lines) ==
    LET turn == TurnOf(lines)
    IN  IF turn >= Len(Models) THEN {}
        ELSE {[Plain("turn") EXCEPT !.turn = turn + 1, !.model = Models[turn + 1]]}

Ends(lines) ==
    IF TurnOf(lines) = 0 THEN {}
    ELSE {[Plain("end") EXCEPT !.turn = t] : t \in {None, TurnOf(lines)}}

Fresh(lines) ==
    IF Cardinality(Responses(lines)) = MaxResponses THEN {}
    ELSE {Cardinality(Responses(lines)) + 1}

RecordOf(id, usage) == [Plain("record") EXCEPT !.id = id, !.usage = usage]

\* A record of a new response, or the last one again.
Records(lines) ==
    LET older == Responses(lines) # Recorded(lines)
    IN  {lines[n] : n \in Of(lines, "record") \cap Own(lines) \cap {Len(lines)}} \cup
        IF TurnOf(lines) = 0 \/ older THEN {}
        ELSE {RecordOf(id, u) : id \in Fresh(lines), u \in Usages}

CountOf(lines, id, usage, turn) ==
    [Plain("count") EXCEPT !.id = id, !.usage = usage, !.turn = turn,
                           !.total = Total(lines) + usage]

\* Whether the counts of the session name their turn: they all do, or none does.
Naming(lines) ==
    IF Told(lines) = {} THEN BOOLEAN ELSE {lines[n].turn # None : n \in Told(lines)}

\* The count of a recorded response, or of one that an older client does not record.
Counts(lines) ==
    LET Turn(id, named) == IF named THEN TurnIn(lines, id) ELSE None
    IN  {CountOf(lines, id, UsageOf(lines, id), Turn(id, named)) :
            id \in Recorded(lines) \ Counted(lines), named \in Naming(lines)} \cup
        IF Recorded(lines) # {} THEN {}
        ELSE {CountOf(lines, id, u, None) : id \in Fresh(lines), u \in Usages}

\* A count again that was told before, of the session or of its parent; without
\* any an empty one.  Not the last of them is a snapshot out of order.
Repeated(lines) ==
    LET told == Told(lines) \cup (Of(lines, "count") \ Own(lines))
    IN  IF told = {} THEN {Plain("count")}
        ELSE {[lines[n] EXCEPT !.id = None, !.own = TRUE] : n \in told}

\* A count without a valid usage and an entry of no known shape.
Faulty(lines) ==
    LET faulty == {n \in DOMAIN lines : lines[n].fault # None} \cup Of(lines, "odd")
    IN  IF Cardinality(faulty) = MaxFaulty THEN {}
        ELSE {Plain("odd"), [Plain("count") EXCEPT !.model = Last(Models), !.fault = "invalid"]}

\* A parent's entries, and its counts once more after the child's first turn.
Parents(lines) ==
    LET count == [Plain("count") EXCEPT !.own = FALSE, !.usage = 2, !.total = 2]
    IN  IF ~Forked(lines) THEN {}
        ELSE IF TurnOf(lines) > 0 THEN {count : n \in Of(lines, "count") \ Own(lines)}
        ELSE {count, [Plain("parent") EXCEPT !.own = FALSE], [Plain("human") EXCEPT !.own = FALSE],
               [Plain("record") EXCEPT !.own = FALSE, !.usage = 2]} \cup
              IF Of(lines, "parent") = {} THEN {}
              ELSE {[Plain("turn") EXCEPT !.own = FALSE, !.turn = 0, !.model = Models[1]]}

Written(lines) ==
    IF Forked(lines) /\ TurnOf(lines) = 0 THEN Parents(lines) \cup Turns(lines)
    ELSE UNION {Inputs(lines), Turns(lines), Ends(lines), Records(lines), Counts(lines),
                Repeated(lines), Faulty(lines), Parents(lines), {Plain("compacted")},
                IF lines = <<>> THEN {Plain("fork")} ELSE {}}

IsSession(lines) == \A n \in DOMAIN lines : lines[n] \in Written(SubSeq(lines, 1, n - 1))

-----------------------------------------------------------------------------
(* What it has used.                                                       *)

\* A later entry settles the response in the parser: its count, another record, a
\* new turn, the end of its own, or a repeated count after a compaction.
IsSettled(lines, id) ==
    LET first == FirstOf(lines, id)
        turn == TurnIn(lines, id)
        Later(kind) == {n \in Of(lines, kind) \cap Own(lines) : n > first}
    IN  \/ id \in Counted(lines)
        \/ \E n \in Later("record") : lines[n].id # id
        \/ Later("turn") # {}
        \/ \E n \in Later("end") : lines[n].turn \in {None, turn}
        \/ \E n \in Later("compacted"), m \in Later("count") :
               m > n /\ lines[m].id = None /\ lines[m].fault = None

\* The response is over as ADR 0025 has it: after a compaction a count that
\* describes another response says so as well.
IsOver(lines, id) ==
    \/ IsSettled(lines, id)
    \/ \E n \in Of(lines, "compacted"), m \in OwnCounts(lines) :
           FirstOf(lines, id) < n /\ n < m /\ lines[m].fault = None

\* Line n is a count that was told before, and whether it is one cannot be seen
\* from its total.  While a child has not told a count of its own the parser takes
\* all that stay within the total of its parent for a replay, whatever waits then;
\* else it takes one for a repetition that has the last total or is Stale.
Doubtful(lines, n) ==
    LET before == SubSeq(lines, 1, n - 1)
        total == Total(before)
        line == lines[n]
        open == {id \in Recorded(before) : ~IsSettled(before, id)}
    IN  /\ line.kind = "count" /\ line.id = None /\ line.fault = None
        /\ ~(Forked(before) /\ TurnOf(before) = 0)
        /\ IF Told(before) = {} /\ total > 0 THEN open # {}
           ELSE line.usage # 0 /\ line.total # total /\ ~Stale(line.total, total, line.usage)

Misleads(lines) == \E n \in DOMAIN lines : Doubtful(lines, n)

With(lines, usage) ==
    {id \in Responses(lines) : UsageOf(lines, id) = usage}

\* No response is counted twice, nothing else is counted, and none of those that
\* are said to be over is missing; a count that could be that of two responses
\* settles one of them early.
ResponsesAgree(lines, messages, over) ==
    /\ \A n \in DOMAIN messages : messages[n].usage \in Usages
    /\ \A u \in Usages :
           LET counted == Cardinality({n \in DOMAIN messages : messages[n].usage = u})
           IN  /\ counted <= Cardinality(With(lines, u))
               /\ counted >= Cardinality(With(lines, u) \cap over)

\* A human input marks one response, the first that is counted after it.
InputsAgree(lines, messages) ==
    LET marks == Cardinality({n \in DOMAIN messages : messages[n].start})
        inputs == Of(lines, "human") \cap Own(lines)
        answered == \E n \in inputs, id \in Responses(lines) :
                        n < FirstOf(lines, id) /\ IsSettled(lines, id)
    IN  marks <= Cardinality(inputs) /\ (answered => marks > 0)
=============================================================================
