----------------------------- MODULE AtomicFile -----------------------------
(***************************************************************************)
(* What fs_atomic.rs promises its callers: a path names nothing or one       *)
(* complete content, a writer replaces it whole or not at all, and a write   *)
(* that was answered "saved" is not undone by a power loss, which can only    *)
(* bring back what was replaced since the last acknowledged write.           *)
(***************************************************************************)
CONSTANTS Processes, Contents, None

VARIABLES
    visible,   \* what the path names now
    recover,   \* what the path may name after a power loss
    call       \* the call each process has under way, or its last answer

vars == <<visible, recover, call>>

Calls ==
    [status : {"idle", "saved", "failed"}, content : {None}]
        \cup [status : {"open", "published"}, content : Contents]

Rest(status) == [status |-> status, content |-> None]

Init ==
    /\ visible \in Contents \cup {None}
    /\ recover = {visible}
    /\ call = [p \in Processes |-> Rest("idle")]

OpenWith(p, content) ==
    /\ call[p].content = None
    /\ call' = [call EXCEPT ![p] = [status |-> "open", content |-> content]]
    /\ UNCHANGED <<visible, recover>>

Open(p) == \E content \in Contents : OpenWith(p, content)

Publish(p) ==
    /\ call[p].status = "open"
    /\ visible' = call[p].content
    /\ recover' = recover \cup {visible'}
    /\ call' = [call EXCEPT ![p].status = "published"]

\* The answer covers everything that is visible by then.
Acknowledge(p) ==
    /\ call[p].status = "published"
    /\ recover' = {visible}
    /\ call' = [call EXCEPT ![p] = Rest("saved")]
    /\ UNCHANGED visible

\* An error tells nothing about whether the content was published.
Refuse(p) ==
    /\ call[p].status \in {"open", "published"}
    /\ call' = [call EXCEPT ![p] = Rest("failed")]
    /\ UNCHANGED <<visible, recover>>

Crash(p) ==
    /\ call' = [call EXCEPT ![p] = Rest("idle")]
    /\ UNCHANGED <<visible, recover>>

PowerLoss ==
    /\ visible' \in recover
    /\ recover' = {visible'}
    /\ call' = [p \in Processes |-> Rest("idle")]

Next ==
    \/ \E p \in Processes :
         Open(p) \/ Publish(p) \/ Acknowledge(p) \/ Refuse(p) \/ Crash(p)
    \/ PowerLoss

Spec == Init /\ [][Next]_vars
=============================================================================
