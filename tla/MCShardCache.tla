--------------------------- MODULE MCShardCache ---------------------------
(* TLC instances of ShardCache.                                            *)
EXTENDS ShardCache, TLC

CONSTANTS tui, warm, i1, i2

\* Two processes share one input, which changes and whose shard is damaged.
Shared ==
    [users |-> {tui, warm}, groups |-> <<<<i1>>>>, empty |-> {}, prunes |-> FALSE,
     faults |-> 0, cancels |-> 0]

\* One process and prune share it, a system call fails, and an acquisition is cut
\* short.
Pruned == [Shared EXCEPT !.users = {tui}, !.prunes = TRUE, !.faults = 1, !.cancels = 1]

\* One process finds two inputs of one integration and none of another, and a
\* system call fails.
Failing ==
    [users |-> {tui}, groups |-> <<<<i1, i2>>, <<>>>>, empty |-> {1}, prunes |-> FALSE,
     faults |-> 1, cancels |-> 0]

Instances == {Shared, Pruned, Failing}
=============================================================================
