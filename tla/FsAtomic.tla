------------------------------ MODULE FsAtomic ------------------------------
(***************************************************************************)
(* write_atomic_with and write_atomic_visible_with (fs_atomic.rs), with the  *)
(* file system they run on: several processes write one path, and each may   *)
(* fail, be killed or lose power at any step.                                *)
(*                                                                         *)
(* A temporary file is named by the process id and a counter that starts at   *)
(* zero in every process.  Ids come back after a restart, and two processes   *)
(* in different containers on one home directory may have the same id, so     *)
(* names do collide; create_new decides who gets one.                         *)
(***************************************************************************)
EXTENDS Naturals, FiniteSets, Functions

CONSTANTS
    Processes,     \* writers of the path
    Contents,      \* what a caller may write
    Settings,      \* the process ids of the writers, and which writer they use:
                   \* write_atomic_with if durable, write_atomic_visible_with if not
    TempAttempts,  \* TEMP_CREATE_ATTEMPTS
    MaxNames,      \* bound: temporary names one process draws
    MaxFailures,   \* bound: failing system calls
    MaxCrashes,    \* bound: killed processes and power losses
    Torn,          \* a file that is not written to its end
    None

ASSUME WriterAssumption ==
    /\ Settings \subseteq [pid : [Processes -> Nat], durable : BOOLEAN]
    /\ TempAttempts \in Nat \ {0}
    /\ {MaxNames, MaxFailures, MaxCrashes} \subseteq Nat
    /\ Torn \notin Contents /\ None \notin Contents \cup Processes /\ Torn # None

VARIABLES
    final,     \* the file final_path names, or None
    entries,   \* what the directory may name after a power loss
    temps,     \* the temporary files, by name
    writer,    \* the call of each process
    counter,   \* TEMP_COUNTER of each process
    setting,   \* where the processes run
    failures, crashes

events == <<setting, failures, crashes>>
vars == <<final, entries, temps, writer, counter, events>>

\* An inode: what it holds, whether sync_all has reached the disk, and the
\* process that has it open (a name can be unlinked under its writer).
File ==
    [value : Contents \cup {Torn}, synced : BOOLEAN, by : Processes \cup {None}]
ASSUME FileAssumption == None \notin File
OpenFile(p, value, synced) == [value |-> value, synced |-> synced, by |-> p]
ClosedFile(value) == OpenFile(None, value, TRUE)

Answers == {"idle", "saved", "failed"}
BeforeRename == {"writing", "syncing", "replacing"}
Writer ==
    [step : Answers \cup BeforeRename \cup {"naming", "linking"},
     value : Contents \cup {None}, suffix : Nat, tries : 0 .. TempAttempts - 1]

Idle(answer) == [step |-> answer, value |-> None, suffix |-> 0, tries |-> 0]

\* temp_path.
TempName(p, suffix) == <<setting.pid[p], suffix>>
Temp(p) == TempName(p, writer[p].suffix)

Step(p, step) == writer' = [writer EXCEPT ![p].step = step]
Answer(p, answer) == writer' = [writer EXCEPT ![p] = Idle(answer)]
Without(name) == Restrict(temps, DOMAIN temps \ {name})
With(name, file) ==
    [other \in DOMAIN temps \cup {name} |-> IF other = name THEN file ELSE temps[other]]

Fail == failures < MaxFailures /\ failures' = failures + 1

Init ==
    /\ final \in {None} \cup {ClosedFile(value) : value \in Contents}
    /\ entries = {final}
    /\ temps = <<>>
    /\ writer = [p \in Processes |-> Idle("idle")]
    /\ counter = [p \in Processes |-> 0]
    /\ setting \in Settings
    /\ failures = 0 /\ crashes = 0

-----------------------------------------------------------------------------
Call(p) ==
    /\ writer[p].step \in Answers
    /\ counter[p] + TempAttempts <= MaxNames
    /\ \E value \in Contents :
         writer' = [writer EXCEPT ![p] = [step |-> "naming", value |-> value,
                                          suffix |-> 0, tries |-> 0]]
    /\ UNCHANGED <<final, entries, temps, counter, events>>

\* Mutant: the name is drawn once, outside the loop.
NameDrawnOnce(p) ==
    LET name == TempName(p, counter[p])
    IN  /\ writer[p].step = "naming"
        /\ IF name \in DOMAIN temps
           THEN UNCHANGED <<temps, writer, counter>>
           ELSE /\ temps' = With(name, OpenFile(p, Torn, FALSE))
                /\ writer' = [writer EXCEPT ![p].step = "writing",
                                            ![p].suffix = counter[p]]
                /\ counter' = [counter EXCEPT ![p] = @ + 1]
        /\ UNCHANGED <<final, entries, events>>

\* Mutant: one attempt too many.
OneMoreAttempt(tries) == tries = TempAttempts

\* The loop of write_atomic_with_options ends.
LastAttempt(tries) == tries + 1 = TempAttempts

\* create_temp_file: an existing name is skipped, any other error returned.
CreateTemp(p) ==
    LET name == TempName(p, counter[p])
    IN  /\ writer[p].step = "naming"
        /\ counter' = [counter EXCEPT ![p] = @ + 1]
        /\ IF name \in DOMAIN temps
           THEN /\ IF LastAttempt(writer[p].tries)
                   THEN Answer(p, "failed")
                   ELSE writer' = [writer EXCEPT ![p].tries = @ + 1]
                /\ UNCHANGED <<temps, failures>>
           ELSE \/ /\ temps' = With(name, OpenFile(p, Torn, FALSE))
                   /\ writer' = [writer EXCEPT ![p].step = "writing",
                                               ![p].suffix = counter[p]]
                   /\ UNCHANGED failures
                \/ Fail /\ Answer(p, "failed") /\ UNCHANGED temps
        /\ UNCHANGED <<final, entries, crashes, setting>>

\* The handle stays with the inode when another process unlinked its name.
HandleWrites(p, synced) ==
    temps' = [name \in DOMAIN temps |->
                IF temps[name].by = p THEN OpenFile(p, writer[p].value, synced)
                ELSE temps[name]]

\* Mutant: the durable writer does not wait for the disk.
SkipSync(p) ==
    /\ writer[p].step = "writing" /\ Step(p, "replacing")
    /\ HandleWrites(p, FALSE)
    /\ UNCHANGED <<final, entries, counter, events>>

\* The caller's closure and flush.
FillTemp(p) ==
    /\ writer[p].step = "writing"
    /\ Step(p, IF setting.durable THEN "syncing" ELSE "replacing")
    /\ HandleWrites(p, FALSE)
    /\ UNCHANGED <<final, entries, counter, events>>

SyncTemp(p) ==
    /\ writer[p].step = "syncing" /\ Step(p, "replacing")
    /\ HandleWrites(p, TRUE)
    /\ UNCHANGED <<final, entries, counter, events>>

\* replace_file renames by name; a name that is gone is an error.
Replace(p) ==
    /\ writer[p].step = "replacing"
    /\ IF Temp(p) \in DOMAIN temps
       THEN /\ final' = [temps[Temp(p)] EXCEPT !.by = None]
            /\ entries' = entries \cup {final'}
            /\ temps' = Without(Temp(p))
            /\ IF setting.durable THEN Step(p, "linking") ELSE Answer(p, "saved")
       ELSE Answer(p, "failed") /\ UNCHANGED <<final, entries, temps>>
    /\ UNCHANGED <<counter, events>>

\* An error before the rename removes the temporary file.
FailWrite(p) ==
    /\ writer[p].step \in BeforeRename /\ Fail /\ Answer(p, "failed")
    /\ temps' = Without(Temp(p))
    /\ UNCHANGED <<final, entries, counter, crashes, setting>>

\* Mutant: the answer does not wait for the directory.
AnswerAtOnce(p) ==
    /\ writer[p].step = "linking" /\ Answer(p, "saved")
    /\ UNCHANGED <<final, entries, temps, counter, events>>

\* sync_parent_dir.
SyncParent(p) ==
    /\ writer[p].step = "linking" /\ Answer(p, "saved")
    /\ entries' = {final}
    /\ UNCHANGED <<final, temps, counter, events>>

\* The rename stands; the cleanup then unlinks whatever has the old name.
FailParent(p) ==
    /\ writer[p].step = "linking" /\ Fail /\ Answer(p, "failed")
    /\ temps' = Without(Temp(p))
    /\ UNCHANGED <<final, entries, counter, crashes, setting>>

-----------------------------------------------------------------------------
\* A killed process leaves its file; the next one may get the same id.
Kill(p) ==
    /\ crashes < MaxCrashes /\ crashes' = crashes + 1
    /\ Answer(p, "idle") /\ counter' = [counter EXCEPT ![p] = 0]
    /\ temps' = [name \in DOMAIN temps |->
                   IF temps[name].by = p THEN [temps[name] EXCEPT !.by = None]
                   ELSE temps[name]]
    /\ UNCHANGED <<final, entries, failures, setting>>

\* A file that was not synced may come back torn.
Survivors(file) ==
    IF file = None THEN {None}
    ELSE {[file EXCEPT !.synced = TRUE]} \cup
         (IF file.synced THEN {} ELSE {ClosedFile(Torn)})

\* The visible writer promises nothing for it: a bound.
PowerLoss ==
    /\ setting.durable
    /\ crashes < MaxCrashes /\ crashes' = crashes + 1
    /\ final' \in UNION {Survivors(file) : file \in entries}
    /\ entries' = {final'}
    /\ \E left \in SUBSET DOMAIN temps :
         temps' = [name \in left |-> ClosedFile(Torn)]
    /\ writer' = [p \in Processes |-> Idle("idle")]
    /\ counter' = [p \in Processes |-> 0]
    /\ UNCHANGED <<failures, setting>>

WriterStep(p) ==
    \/ CreateTemp(p) \/ FillTemp(p) \/ SyncTemp(p) \/ Replace(p)
    \/ SyncParent(p) \/ FailWrite(p) \/ FailParent(p)

Next ==
    \/ \E p \in Processes : Call(p) \/ WriterStep(p) \/ Kill(p)
    \/ PowerLoss

Spec == Init /\ [][Next]_vars

\* Threads are scheduled and system calls return.
FairSpec == Spec /\ \A p \in Processes : WF_vars(WriterStep(p))

-----------------------------------------------------------------------------
(* Properties.                                                             *)

\* The type of every variable.
TypeOK ==
    /\ final \in File \cup {None} /\ entries \in SUBSET (File \cup {None})
    /\ \A name \in DOMAIN temps : name[1] \in Range(setting.pid) /\ temps[name] \in File
    /\ writer \in [Processes -> Writer] /\ counter \in [Processes -> Nat]
    /\ setting \in Settings
    /\ failures \in 0 .. MaxFailures /\ crashes \in 0 .. MaxCrashes

\* With the durable writer neither a reader nor the next boot ever sees a file
\* that is not written to its end and synced (fs_atomic.rs:9-13), as long as
\* every process has an id of its own.  With the visible writer readers see whole
\* files while the power lasts, with shared process ids as well: no cleanup
\* follows its rename (fs_atomic.rs:30).
WholeFiles ==
    IF setting.durable
    THEN \A file \in (entries \cup {final}) \ {None} : file.value # Torn /\ file.synced
    ELSE final # None => final.value # Torn

\* Every call is answered, with names left over from killed processes too.
CallsEnd == \A p \in Processes : writer[p].step = "naming" ~> writer[p].step \in Answers

\* The durable writer implements AtomicFile, as long as every process has an id of
\* its own.
ContentOf(file) == IF file = None THEN None ELSE file.value
CallOf(p) ==
    [status |-> CASE writer[p].step \in Answers -> writer[p].step
                  [] writer[p].step = "linking" -> "published"
                  [] OTHER -> "open",
     content |-> writer[p].value]
Visible == IF setting.durable THEN ContentOf(final) ELSE None
Recoverable == IF setting.durable THEN {ContentOf(file) : file \in entries} ELSE {None}
CallSeen(p) ==
    IF setting.durable THEN CallOf(p) ELSE [status |-> "idle", content |-> None]
Published == INSTANCE AtomicFile WITH
    visible <- Visible, recover <- Recoverable, call <- [p \in Processes |-> CallSeen(p)]
PublishedSpec == Published!Spec
=============================================================================
