--------------------------- MODULE MCCodexAppend ---------------------------
(* TLC instances of CodexAppend.                                           *)
EXTENDS CodexAppend, TLC

CONSTANTS tui, warm

TurnModels == <<"first", "second">>

\* Another session, of an older client.
Replacements ==
    {<<[Plain("turn") EXCEPT !.turn = 1, !.model = "first"],
       [Plain("count") EXCEPT !.id = 1, !.usage = 1, !.total = 1]>>}

Bounds(lines, kinds, changes, acquirers, faultsMost, pieces) ==
    [lines |-> lines, kinds |-> kinds, changes |-> changes, acquirers |-> acquirers,
     faults |-> faultsMost, pieces |-> pieces]

\* A session alone; a session that is resumed; one that two processes parse, with
\* faults and with rewriting; and one written in pieces with both.
Sessions ==
    {Bounds(6, LineKinds, 6, {}, 0, FALSE), Bounds(3, LineKinds, 3, {tui}, 0, FALSE),
     Bounds(2, {"turn", "record"}, 2, {tui, warm}, 1, FALSE),
     Bounds(2, {"turn", "record"}, 2, {tui, warm}, 0, TRUE),
     Bounds(2, {"turn", "record"}, 3, {tui}, 1, TRUE)}

\* Sessions of the current client that compact; children of it with one response;
\* sessions of an older client.
Compacting == {Bounds(5, {"turn", "record", "compacted", "count"}, 5, {}, 0, FALSE)}
Forking == {Bounds(6, {"fork", "turn", "record", "compacted", "count"}, 6, {}, 0, FALSE)}
Counting == {Bounds(4, {"turn", "count"}, 4, {}, 0, FALSE)}

\* The hypothesis of the theorem on ResponsesCountOnce is that of the run.
ASSUME MCAssumption == SessionsOnly

Interchangeable == Permutations(Acquirers)
=============================================================================
