------------------------- MODULE MCGenerationCache -------------------------
(* TLC instances of GenerationCache.                                       *)
EXTENDS GenerationCache, TLC

CONSTANTS tui, warm, own, other, f1, f2

\* A session and a command under another configuration.
Configs == (tui :> own) @@ (warm :> other)

\* The session has the file to itself, or both use it.
AloneOrShared ==
    {[users |-> {tui}, failures |-> {f1, f2},
      saves |-> 3, errors |-> 1, ticks |-> 2],
     [users |-> {tui, warm}, failures |-> {f1},
      saves |-> 2, errors |-> 0, ticks |-> 1]}
=============================================================================
