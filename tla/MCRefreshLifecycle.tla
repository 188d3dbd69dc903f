------------------------- MODULE MCRefreshLifecycle -------------------------
(* Small instances of RefreshLifecycle for TLC.                            *)
EXTENDS RefreshLifecycle, TLC

\* The members of the three sets are interchangeable: no definition tells
\* one from another.  Used by the safety runs only.
Interchangeable ==
    Permutations(Orders) \cup Permutations(Catalogs) \cup Permutations(Fingerprints)
=============================================================================
