------------------------- MODULE PublishedGeneration -------------------------
(***************************************************************************)
(* What the interactive session promises about generations (ADR 0007 and    *)
(* ADR 0015, as the code keeps it): one generation is shown at a time, a     *)
(* newer one replaces it whole and nothing takes it away, only the shown     *)
(* generation is ever written to the cache file, and once the session has    *)
(* sealed the file at shutdown no write follows.                            *)
(***************************************************************************)
EXTENDS Naturals

CONSTANTS Generation, None

VARIABLES shown, durable, phase

vars == <<shown, durable, phase>>

Newer(generation) == shown = None \/ shown.serial < generation.serial

Init ==
    /\ shown = None
    /\ durable \in Generation \cup {None}
    /\ phase = "open"

\* A loaded generation, or the cached one at startup, becomes the shown one.
Show ==
    /\ phase = "open"
    /\ shown' \in Generation
    /\ Newer(shown')
    /\ UNCHANGED <<durable, phase>>

\* The cache file is replaced by the generation on display.
Save ==
    /\ phase # "sealed"
    /\ shown # None
    /\ durable' = shown
    /\ UNCHANGED <<shown, phase>>

Close ==
    /\ phase = "open"
    /\ phase' = "closing"
    /\ UNCHANGED <<shown, durable>>

Seal ==
    /\ phase = "closing"
    /\ phase' = "sealed"
    /\ UNCHANGED <<shown, durable>>

Next == Show \/ Save \/ Close \/ Seal

Spec == Init /\ [][Next]_vars
=============================================================================
