----------------------------- MODULE MCFsAtomic -----------------------------
(* TLC instances of FsAtomic.                                              *)
EXTENDS FsAtomic, TLC

CONSTANTS p1, p2

\* Every process has an id of its own.
OwnPids == (p1 :> 1) @@ (p2 :> 2)
\* Two containers that mount one home directory.
SharedPids == (p1 :> 1) @@ (p2 :> 1)

DurableShared == {[pid |-> SharedPids, durable |-> TRUE]}
Both == {[pid |-> OwnPids, durable |-> TRUE], [pid |-> SharedPids, durable |-> FALSE]}
=============================================================================
