--------------------------- MODULE MCClaudeAppend ---------------------------
(* TLC instances of ClaudeAppend.                                          *)
EXTENDS ClaudeAppend, TLC

CONSTANTS tui, warm

Tokens(input, split, output) == [input |-> input, split |-> split, output |-> output]

\* A copy of one message; an advisor was asked for its answer.
Copy(input, split, output) ==
    [Plain("assistant") EXCEPT !.key = "m", !.usage = Tokens(input, split, output),
                               !.advisor = Tokens(1, FALSE, output)]

\* A human turn and two copies of its answer as it streams, which report their
\* input differently; another file.
Streams ==
    {<<Plain("user"), Copy(2, FALSE, 0), Copy(1, TRUE, 1)>>,
     <<[Plain("cost") EXCEPT !.usage = Tokens(3, TRUE, 0)]>>}

Interchangeable == Permutations(Acquirers)
=============================================================================
