----------------------- MODULE CachelessAcquisition -----------------------
(***************************************************************************)
(* What an acquisition promises about each input, said without mentioning   *)
(* the record cache: README.md calls caches disposable, they "accelerate    *)
(* reads but never replace authoritative client data".  ShardCache is shown *)
(* to implement this module.                                                *)
(*                                                                         *)
(* An input is a file whose every change gives it a version of its own; an  *)
(* acquisition takes an inventory of versions and then reports, once per    *)
(* input, either the records of a version the input has had since then or   *)
(* an honest failure.                                                       *)
(***************************************************************************)
EXTENDS Naturals

CONSTANTS
    Acquirers,   \* processes that acquire
    Inputs,      \* the inputs they discover
    MaxVersion,  \* bound: the last version of an input
    None

VARIABLES
    version,      \* version of each input
    present,      \* whether the input exists
    acquisition   \* what each process has been told so far

vars == <<version, present, acquisition>>

Versions == 0 .. MaxVersion

Report == [status : {"complete"}, records : Versions]
          \cup [status : {"partial", "unavailable"}, records : {None}]

Acquisition ==
    [phase : {"idle", "running", "done"},
     cancelled : BOOLEAN,
     inventory : [Inputs -> Versions \cup {None}],
     unreadable : SUBSET Inputs,       \* a system call on it failed
     report : [Inputs -> Report \cup {None}]]

Idle ==
    [phase |-> "idle", cancelled |-> FALSE,
     inventory |-> [i \in Inputs |-> None], unreadable |-> {},
     report |-> [i \in Inputs |-> None]]

Init ==
    /\ version = [i \in Inputs |-> 0]
    /\ present \in [Inputs -> BOOLEAN]
    /\ acquisition = [a \in Acquirers |-> Idle]

Change(i) ==
    /\ version[i] < MaxVersion
    /\ version' = [version EXCEPT ![i] = @ + 1]
    /\ \E p \in BOOLEAN : present' = [present EXCEPT ![i] = p]
    /\ UNCHANGED acquisition

\* Inputs that do not exist, or whose metadata cannot be read, are not in the
\* inventory.
Inventory(unread) ==
    [i \in Inputs |-> IF present[i] /\ i \notin unread THEN version[i] ELSE None]

\* What follows is said of one acquisition: q before the step, r after it.
Begin(q, r) ==
    /\ q.phase # "running"
    /\ r.phase = "running" /\ r.unreadable \subseteq Inputs
    /\ r = [Idle EXCEPT !.phase = "running", !.inventory = Inventory(r.unreadable),
                        !.unreadable = r.unreadable]

Fail(q, r) ==
    /\ q.phase = "running"
    /\ \E i \in Inputs : r = [q EXCEPT !.unreadable = @ \cup {i}]

\* An input that has not changed since the inventory is reported complete,
\* with its records, unless reading the input itself failed.
Reportable(q, i) ==
    LET complete == [status : {"complete"},
                     records : q.inventory[i] .. version[i]]
        degraded == [status : {"partial", "unavailable"}, records : {None}]
    IN  IF version[i] # q.inventory[i] \/ i \in q.unreadable \/ q.cancelled
        THEN complete \cup degraded
        ELSE complete

Tell(q, r) ==
    /\ q.phase = "running"
    /\ \E i \in Inputs :
        /\ q.inventory[i] # None /\ q.report[i] = None
        /\ r.report[i] \in Reportable(q, i)
        /\ r = [q EXCEPT !.report[i] = r.report[i]]

\* An acquisition ends with a report on every input of its inventory.
Finish(q, r) ==
    /\ q.phase = "running" /\ ~q.cancelled
    /\ \A i \in Inputs : q.inventory[i] # None => q.report[i] # None
    /\ r = [q EXCEPT !.phase = "done"]

Cancel(q, r) ==
    /\ q.phase = "running"
    /\ r = [q EXCEPT !.cancelled = TRUE]

\* A cancelled acquisition answers with an error and no report, and one whose
\* process dies does not answer.
Abandon(q, r) ==
    /\ q.phase = "running"
    /\ r = Idle

Step(q, r) ==
    \/ Begin(q, r) \/ Fail(q, r) \/ Tell(q, r)
    \/ Finish(q, r) \/ Cancel(q, r) \/ Abandon(q, r)

Next ==
    \/ \E i \in Inputs : Change(i)
    \/ /\ UNCHANGED <<version, present>>
       /\ \E a \in Acquirers :
           /\ Step(acquisition[a], acquisition'[a])
           /\ acquisition' = [acquisition EXCEPT ![a] = acquisition'[a]]

Spec == Init /\ [][Next]_vars
=============================================================================
