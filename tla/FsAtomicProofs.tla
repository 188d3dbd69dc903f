--------------------------- MODULE FsAtomicProofs ---------------------------
(***************************************************************************)
(* Proofs about FsAtomic for any processes, contents and bounds: types, and   *)
(* for process ids that are distinct wherever the durable writer runs, that    *)
(* only whole files are published and that FsAtomic implements AtomicFile.     *)
(***************************************************************************)
EXTENDS FsAtomic, TLAPS

\* A process has a content exactly while a call of it is under way.
WriterInv == \A p \in Processes : writer[p].step \in Answers <=> writer[p].value = None

\* Where the durable writer runs, no two processes have one id.
DistinctIds ==
    setting.durable =>
        \A p, q \in Processes : setting.pid[p] = setting.pid[q] => p = q

\* Until it renames it, a process has its own temporary file open and no other.
OwnInv ==
    /\ \A p \in Processes :
           writer[p].step \in BeforeRename =>
               Temp(p) \in DOMAIN temps /\ temps[Temp(p)].by = p
    /\ \A name \in DOMAIN temps, p \in Processes :
           temps[name].by = p => writer[p].step \in BeforeRename /\ name = Temp(p)

\* The file is whole before it is renamed, and synced where that matters.
FillInv ==
    \A p \in Processes :
        /\ writer[p].step \in {"syncing", "replacing"} =>
               temps[Temp(p)].value = writer[p].value
        /\ writer[p].step = "replacing" /\ setting.durable => temps[Temp(p)].synced
        /\ writer[p].step = "linking" => setting.durable

Inv == TypeOK /\ WriterInv /\ DistinctIds /\ OwnInv /\ FillInv /\ WholeFiles

-----------------------------------------------------------------------------
(* Files and temporary names.                                              *)

\* OpenFile and ClosedFile make files.
LEMMA FileType ==
    ASSUME NEW p \in Processes, NEW value \in Contents \cup {Torn}, NEW synced \in BOOLEAN
    PROVE  /\ OpenFile(p, value, synced) \in File /\ ClosedFile(value) \in File
           /\ OpenFile(p, value, synced).value = value
           /\ OpenFile(p, value, synced).synced = synced
           /\ OpenFile(p, value, synced).by = p
           /\ ClosedFile(value).value = value /\ ClosedFile(value).synced = TRUE
           /\ ClosedFile(value).by = None
BY DEF OpenFile, ClosedFile, File

\* Removing a name leaves every other one.
LEMMA WithoutName ==
    ASSUME NEW name
    PROVE  /\ DOMAIN Without(name) = DOMAIN temps \ {name}
           /\ \A other \in DOMAIN temps \ {name} : Without(name)[other] = temps[other]
BY DEF Without, Restrict

\* A process without a call has no content, whatever it answered.
LEMMA IdleType ==
    ASSUME NEW answer \in Answers
    PROVE  /\ Idle(answer) \in Writer
           /\ Idle(answer).step = answer /\ Idle(answer).value = None
BY WriterAssumption DEF Idle, Writer, Answers

\* A call moves to another step and keeps its content and its name.
LEMMA StepType ==
    ASSUME TypeOK, WriterInv, NEW p \in Processes,
           NEW to \in BeforeRename \cup {"linking"},
           writer[p].step \notin Answers, Step(p, to)
    PROVE  /\ writer' \in [Processes -> Writer]
           /\ writer'[p].step = to /\ writer'[p].value = writer[p].value
           /\ writer'[p].suffix = writer[p].suffix
           /\ \A q \in Processes \ {p} : writer'[q] = writer[q]
           /\ WriterInv'
<1>1. writer \in [Processes -> Writer] /\ writer' = [writer EXCEPT ![p].step = to]
  BY DEF TypeOK, Step
<1>2. to \in Answers \cup BeforeRename \cup {"naming", "linking"} /\ to \notin Answers
  BY DEF Answers, BeforeRename
<1>3. /\ writer' \in [Processes -> Writer]
      /\ writer'[p].step = to /\ writer'[p].value = writer[p].value
      /\ writer'[p].suffix = writer[p].suffix
      /\ \A q \in Processes \ {p} : writer'[q] = writer[q]
  BY <1>1, <1>2 DEF Writer
<1>4. WriterInv'
  BY <1>2, <1>3 DEF WriterInv
<1> QED
  BY <1>3, <1>4

\* A call ends with an answer.
LEMMA AnswerType ==
    ASSUME TypeOK, WriterInv, NEW p \in Processes, NEW answer \in Answers, Answer(p, answer)
    PROVE  /\ writer' \in [Processes -> Writer]
           /\ writer'[p] = Idle(answer) /\ writer'[p].step = answer
           /\ \A q \in Processes \ {p} : writer'[q] = writer[q]
           /\ WriterInv'
<1>1. writer \in [Processes -> Writer] /\ writer' = [writer EXCEPT ![p] = Idle(answer)]
  BY DEF TypeOK, Answer
<1>2. /\ writer' \in [Processes -> Writer]
      /\ writer'[p] = Idle(answer) /\ writer'[p].step = answer /\ writer'[p].value = None
      /\ \A q \in Processes \ {p} : writer'[q] = writer[q]
  BY <1>1, IdleType
<1>3. WriterInv'
  BY <1>2 DEF WriterInv
<1> QED
  BY <1>2, <1>3

\* The number of failures stays within its bound.
LEMMA FailType == TypeOK /\ Fail => failures' \in 0 .. MaxFailures
BY WriterAssumption DEF TypeOK, Fail

-----------------------------------------------------------------------------
(* Every variable keeps its type, whatever the ids.                         *)

\* The temporary files are files of some process.
TempsOK(map) ==
    \A name \in DOMAIN map : name[1] \in Range(setting.pid) /\ map[name] \in File

\* A name of a process is one of some process's id.
LEMMA NameType ==
    ASSUME TypeOK, NEW p \in Processes, NEW suffix
    PROVE  TempName(p, suffix)[1] \in Range(setting.pid)
<1>1. setting.pid \in [Processes -> Nat]
  BY WriterAssumption DEF TypeOK
<1> QED
  BY <1>1 DEF TempName, Range

\* Writing through a handle keeps the names, and the files of the others.
LEMMA HandleType ==
    ASSUME TypeOK, NEW p \in Processes, writer[p].value \in Contents,
           NEW synced \in BOOLEAN, HandleWrites(p, synced)
    PROVE  /\ DOMAIN temps' = DOMAIN temps /\ TempsOK(temps')
           /\ \A name \in DOMAIN temps :
                temps'[name] = IF temps[name].by = p THEN OpenFile(p, writer[p].value, synced)
                               ELSE temps[name]
<1>1. OpenFile(p, writer[p].value, synced) \in File
  BY FileType
<1> QED
  BY <1>1 DEF HandleWrites, TempsOK, TypeOK

\* A step of a call keeps the types.
LEMMA WriterStepType ==
    ASSUME TypeOK, WriterInv, NEW p \in Processes, WriterStep(p)
    PROVE  TypeOK' /\ WriterInv'
<1>1. CASE CreateTemp(p)
  <2> DEFINE name == TempName(p, counter[p])
  <2>1. /\ writer[p].step = "naming" /\ counter' = [counter EXCEPT ![p] = @ + 1]
        /\ UNCHANGED <<final, entries, crashes, setting>>
    BY <1>1 DEF CreateTemp
  <2>2. counter' \in [Processes -> Nat] /\ counter[p] \in Nat
    BY <2>1 DEF TypeOK
  <2>3. name[1] \in Range(setting.pid)
    BY NameType
  <2>4. writer[p] \in Writer /\ writer[p].value # None
    BY <2>1 DEF TypeOK, WriterInv, Answers
  <2>5. ASSUME /\ writer' \in [Processes -> Writer] /\ WriterInv'
               /\ TempsOK(temps') /\ failures' \in 0 .. MaxFailures
        PROVE  TypeOK' /\ WriterInv'
    BY <2>1, <2>2, <2>5 DEF TypeOK, TempsOK
  <2>6. TempsOK(temps) /\ failures \in 0 .. MaxFailures
    BY DEF TypeOK, TempsOK
  <2>7. CASE Answer(p, "failed") /\ UNCHANGED temps /\ (UNCHANGED failures \/ Fail)
    BY <2>5, <2>6, <2>7, AnswerType, FailType DEF Answers
  <2>8. CASE /\ ~LastAttempt(writer[p].tries) /\ UNCHANGED <<temps, failures>>
             /\ writer' = [writer EXCEPT ![p].tries = @ + 1]
    <3>1. writer[p].tries \in 0 .. TempAttempts - 1 /\ TempAttempts \in Nat
      BY <2>4, WriterAssumption DEF Writer
    <3>2. writer[p].tries + 1 \in 0 .. TempAttempts - 1
      BY <2>8, <3>1 DEF LastAttempt
    <3>3. [writer[p] EXCEPT !.tries = writer[p].tries + 1] \in Writer
      BY <2>4, <3>2 DEF Writer
    <3>4. writer' = [writer EXCEPT ![p] = [writer[p] EXCEPT !.tries = writer[p].tries + 1]]
      BY <2>8 DEF TypeOK
    <3>5. writer' \in [Processes -> Writer]
      BY <3>3, <3>4 DEF TypeOK
    <3>6. WriterInv'
      BY <2>4, <3>3, <3>4 DEF TypeOK, WriterInv, Writer
    <3> QED
      BY <2>5, <2>6, <2>8, <3>5, <3>6
  <2>9. CASE /\ name \notin DOMAIN temps /\ temps' = With(name, OpenFile(p, Torn, FALSE))
             /\ writer' = [writer EXCEPT ![p].step = "writing", ![p].suffix = counter[p]]
             /\ UNCHANGED failures
    <3>1. OpenFile(p, Torn, FALSE) \in File
      BY FileType
    <3>2. TempsOK(temps')
      <4>1. /\ DOMAIN temps' = DOMAIN temps \cup {name}
            /\ temps'[name] = OpenFile(p, Torn, FALSE)
            /\ \A other \in DOMAIN temps : temps'[other] = temps[other]
        <5> HIDE DEF name
        <5> QED
          BY <2>9 DEF With
      <4> HIDE DEF name
      <4> QED
        BY <2>3, <2>6, <3>1, <4>1 DEF TempsOK
    <3>3. writer' = [writer EXCEPT ![p] = [writer[p] EXCEPT !.step = "writing",
                                                            !.suffix = counter[p]]]
      BY <2>9 DEF TypeOK
    <3>4. writer' \in [Processes -> Writer]
      BY <2>2, <2>4, <3>3 DEF TypeOK, Writer, BeforeRename
    <3>5. WriterInv'
      BY <2>4, <3>3 DEF TypeOK, WriterInv, Writer, Answers
    <3> QED
      BY <2>5, <2>6, <2>9, <3>2, <3>4, <3>5
  <2> QED
    BY <1>1, <2>7, <2>8, <2>9 DEF CreateTemp
<1>2. CASE FillTemp(p) \/ SyncTemp(p)
  <2>1. PICK synced \in BOOLEAN, to \in BeforeRename :
            HandleWrites(p, synced) /\ Step(p, to)
    BY <1>2 DEF FillTemp, SyncTemp, BeforeRename
  <2>2. /\ writer[p].step \in BeforeRename
        /\ UNCHANGED <<final, entries, counter, setting, failures, crashes>>
    BY <1>2 DEF FillTemp, SyncTemp, BeforeRename, events
  <2>3. writer[p].step \notin Answers /\ writer[p].value \in Contents
    BY <2>2 DEF TypeOK, WriterInv, Writer, Answers, BeforeRename
  <2>4. writer' \in [Processes -> Writer] /\ WriterInv'
    BY <2>1, <2>3, StepType
  <2>5. TempsOK(temps')
    BY <2>1, <2>3, HandleType
  <2> QED
    BY <2>2, <2>4, <2>5 DEF TypeOK, TempsOK
<1>3. CASE Replace(p)
  <2>1. /\ writer[p].step = "replacing" /\ UNCHANGED <<counter, setting, failures, crashes>>
    BY <1>3 DEF Replace, events
  <2>2. writer' \in [Processes -> Writer] /\ WriterInv'
    <3>1. writer[p].step \notin Answers
      BY <2>1 DEF Answers
    <3>2. Step(p, "linking") \/ Answer(p, "saved") \/ Answer(p, "failed")
      BY <1>3 DEF Replace
    <3> QED
      BY <3>1, <3>2, StepType, AnswerType DEF Answers
  <2>3. CASE Temp(p) \in DOMAIN temps
    <3>1. /\ final' = [temps[Temp(p)] EXCEPT !.by = None] /\ entries' = entries \cup {final'}
          /\ temps' = Without(Temp(p))
      BY <1>3, <2>3 DEF Replace
    <3>2. final' \in File
      BY <2>3, <3>1 DEF TypeOK, File
    <3>3. TempsOK(temps')
      BY <3>1, WithoutName DEF TypeOK, TempsOK
    <3> QED
      BY <2>1, <2>2, <3>1, <3>2, <3>3 DEF TypeOK, TempsOK
  <2>4. CASE Temp(p) \notin DOMAIN temps
    BY <1>3, <2>1, <2>2, <2>4 DEF Replace, TypeOK
  <2> QED
    BY <2>3, <2>4
<1>4. CASE SyncParent(p)
  <2>1. writer' \in [Processes -> Writer] /\ WriterInv'
    BY <1>4, AnswerType DEF SyncParent, Answers
  <2> QED
    BY <1>4, <2>1 DEF SyncParent, TypeOK, events
<1>5. CASE FailWrite(p) \/ FailParent(p)
  <2>1. /\ Fail /\ Answer(p, "failed") /\ temps' = Without(Temp(p))
        /\ UNCHANGED <<final, entries, counter, crashes, setting>>
    BY <1>5 DEF FailWrite, FailParent
  <2>2. writer' \in [Processes -> Writer] /\ WriterInv'
    BY <2>1, AnswerType DEF Answers
  <2>3. TempsOK(temps')
    BY <2>1, WithoutName DEF TypeOK, TempsOK
  <2> QED
    BY <2>1, <2>2, <2>3, FailType DEF TypeOK, TempsOK
<1> QED
  BY <1>1, <1>2, <1>3, <1>4, <1>5 DEF WriterStep

\* What a power loss leaves of a file is a file.
LEMMA SurvivorType ==
    ASSUME NEW f \in File \cup {None}, NEW g \in Survivors(f)
    PROVE  g \in File \cup {None}
<1>1. ClosedFile(Torn) \in File
  BY DEF ClosedFile, OpenFile, File
<1> QED
  BY <1>1 DEF Survivors, File

\* Every other step keeps the types.
LEMMA NextType ==
    ASSUME TypeOK, WriterInv, [Next]_vars
    PROVE  TypeOK' /\ WriterInv'
<1>1. ASSUME NEW p \in Processes, Call(p) PROVE TypeOK' /\ WriterInv'
  <2>1. PICK value \in Contents :
            writer' = [writer EXCEPT ![p] = [step |-> "naming", value |-> value,
                                             suffix |-> 0, tries |-> 0]]
    BY <1>1 DEF Call
  <2>2. /\ [step |-> "naming", value |-> value, suffix |-> 0, tries |-> 0] \in Writer
        /\ value # None /\ "naming" \notin Answers
    BY WriterAssumption DEF Writer, Answers
  <2>3. writer' \in [Processes -> Writer]
    BY <2>1, <2>2 DEF TypeOK
  <2>4. WriterInv'
    BY <2>1, <2>2 DEF TypeOK, WriterInv
  <2> QED
    BY <1>1, <2>3, <2>4 DEF Call, TypeOK, events
<1>2. ASSUME NEW p \in Processes, Kill(p) PROVE TypeOK' /\ WriterInv'
  <2>1. writer' \in [Processes -> Writer] /\ WriterInv'
    BY <1>2, AnswerType DEF Kill, Answers
  <2>2. crashes' \in 0 .. MaxCrashes /\ counter' \in [Processes -> Nat]
    BY <1>2, WriterAssumption DEF Kill, TypeOK
  <2>3. TempsOK(temps')
    BY <1>2 DEF Kill, TypeOK, TempsOK, File
  <2> QED
    BY <1>2, <2>1, <2>2, <2>3 DEF Kill, TypeOK, TempsOK
<1>3. CASE PowerLoss
  <2>1. writer' \in [Processes -> Writer] /\ WriterInv' /\ counter' \in [Processes -> Nat]
    BY <1>3, IdleType DEF PowerLoss, WriterInv, Answers
  <2>2. crashes' \in 0 .. MaxCrashes
    BY <1>3, WriterAssumption DEF PowerLoss, TypeOK
  <2>3. TempsOK(temps')
    <3>1. ClosedFile(Torn) \in File
      BY DEF ClosedFile, OpenFile, File
    <3>2. PICK left \in SUBSET DOMAIN temps : temps' = [name \in left |-> ClosedFile(Torn)]
      BY <1>3 DEF PowerLoss
    <3> QED
      BY <3>1, <3>2 DEF TypeOK, TempsOK
  <2>4. final' \in File \cup {None} /\ entries' = {final'}
    BY <1>3, SurvivorType DEF PowerLoss, TypeOK
  <2> QED
    BY <1>3, <2>1, <2>2, <2>3, <2>4 DEF PowerLoss, TypeOK, TempsOK
<1>4. CASE UNCHANGED vars
  BY <1>4 DEF vars, events, TypeOK, WriterInv
<1> QED
  BY <1>1, <1>2, <1>3, <1>4, WriterStepType DEF Next

\* The types hold at first.
LEMMA InitType == Init => TypeOK /\ WriterInv
<1> SUFFICES ASSUME Init PROVE TypeOK /\ WriterInv
  OBVIOUS
<1>1. final \in File \cup {None}
  <2>1. \A value \in Contents : ClosedFile(value) \in File
    BY DEF ClosedFile, OpenFile, File
  <2> QED
    BY <2>1 DEF Init
<1>2. writer \in [Processes -> Writer] /\ WriterInv
  BY IdleType DEF Init, WriterInv, Answers
<1>3. failures \in 0 .. MaxFailures /\ crashes \in 0 .. MaxCrashes
  BY WriterAssumption DEF Init
<1> QED
  BY <1>1, <1>2, <1>3 DEF Init, TypeOK

\* Every variable keeps its type, with shared process ids as well.
THEOREM WriterTypes == Spec => []TypeOK
<1>1. TypeOK /\ WriterInv /\ [Next]_vars => (TypeOK /\ WriterInv)'
  BY NextType
<1> QED
  BY <1>1, InitType, PTL DEF Spec

-----------------------------------------------------------------------------
(* With ids of their own the durable writers publish only whole files.        *)

\* Neither a reader nor the next boot sees another file than before.
SameFiles == UNCHANGED <<final, entries, setting>>

\* A process outside the steps before the rename has nothing open, and its name, if
\* it is linking, belongs to no process that is before its rename.
LEMMA NameIsOwn ==
    ASSUME Inv, NEW p \in Processes, NEW q \in Processes \ {p},
           writer[p].step \in BeforeRename \cup {"linking"}, writer[q].step \in BeforeRename
    PROVE  Temp(p) # Temp(q)
<1>1. CASE writer[p].step \in BeforeRename
  BY <1>1 DEF Inv, OwnInv
<1>2. CASE writer[p].step = "linking"
  <2>1. setting.pid[p] # setting.pid[q]
    BY <1>2 DEF Inv, FillInv, DistinctIds
  <2> QED
    BY <2>1 DEF Temp, TempName
<1> QED
  BY <1>1, <1>2

\* A call that stops using its name removes it, or has renamed it: the others keep
\* theirs.
LEMMA ReleaseInv ==
    ASSUME Inv, NEW p \in Processes,
           writer[p].step \in BeforeRename \cup {"linking"},
           temps' = Without(Temp(p)), UNCHANGED setting,
           writer'[p].step \in Answers \cup {"linking"},
           writer'[p].step = "linking" => setting.durable,
           \A q \in Processes \ {p} : writer'[q] = writer[q]
    PROVE  OwnInv' /\ FillInv'
<1>1. /\ DOMAIN temps' = DOMAIN temps \ {Temp(p)}
      /\ \A name \in DOMAIN temps' : temps'[name] = temps[name]
  BY WithoutName
<1>2. writer'[p].step \notin BeforeRename
  BY DEF Answers, BeforeRename
<1>3. ASSUME NEW q \in Processes \ {p}, writer'[q].step \in BeforeRename
      PROVE  /\ Temp(q)' = Temp(q) /\ Temp(q) \in DOMAIN temps'
             /\ temps'[Temp(q)] = temps[Temp(q)] /\ temps[Temp(q)].by = q
  <2>1. writer[q].step \in BeforeRename /\ writer'[q] = writer[q]
    BY <1>3
  <2>2. Temp(q)' = Temp(q)
    BY <2>1 DEF Temp, TempName
  <2>3. Temp(q) \in DOMAIN temps /\ temps[Temp(q)].by = q /\ Temp(q) # Temp(p)
    BY <2>1, NameIsOwn DEF Inv, OwnInv
  <2> QED
    BY <1>1, <2>2, <2>3
<1>4. OwnInv'
  <2>1. ASSUME NEW q \in Processes, writer'[q].step \in BeforeRename
        PROVE  (Temp(q) \in DOMAIN temps /\ temps[Temp(q)].by = q)'
    BY <1>2, <1>3, <2>1
  <2>2. ASSUME NEW name \in DOMAIN temps', NEW q \in Processes, temps'[name].by = q
        PROVE  writer'[q].step \in BeforeRename /\ name = Temp(q)'
    <3>1. name \in DOMAIN temps /\ temps[name].by = q /\ name # Temp(p)
      BY <1>1, <2>2
    <3>2. writer[q].step \in BeforeRename /\ name = Temp(q)
      BY <3>1 DEF Inv, OwnInv
    <3>3. q # p /\ writer'[q] = writer[q]
      BY <3>1, <3>2
    <3> QED
      BY <3>2, <3>3 DEF Temp, TempName
  <2> QED
    BY <2>1, <2>2 DEF OwnInv
<1>5. FillInv'
  <2>1. ASSUME NEW q \in Processes
        PROVE  (/\ writer[q].step \in {"syncing", "replacing"} =>
                       temps[Temp(q)].value = writer[q].value
                /\ writer[q].step = "replacing" /\ setting.durable => temps[Temp(q)].synced
                /\ writer[q].step = "linking" => setting.durable)'
    <3>1. CASE q = p
      BY <1>2, <3>1 DEF BeforeRename
    <3>2. CASE q # p
      <4>1. writer'[q] = writer[q]
        BY <3>2
      <4>2. writer[q].step \in {"syncing", "replacing"} => temps'[Temp(q)'] = temps[Temp(q)]
        BY <1>3, <3>2, <4>1 DEF BeforeRename
      <4> QED
        BY <4>1, <4>2 DEF Inv, FillInv
    <3> QED
      BY <3>1, <3>2
  <2> QED
    BY <2>1 DEF FillInv
<1> QED
  BY <1>4, <1>5

\* Answering, without a temporary file to remove, disturbs nothing.
LEMMA KeepInv ==
    ASSUME Inv, NEW p \in Processes, writer[p].step \notin BeforeRename,
           writer'[p].step \notin BeforeRename \cup {"linking"},
           UNCHANGED <<temps, setting>>,
           \A q \in Processes \ {p} : writer'[q] = writer[q]
    PROVE  OwnInv' /\ FillInv'
<1>1. \A q \in Processes \ {p} : Temp(q)' = Temp(q)
  BY DEF Temp, TempName
<1>2. OwnInv'
  <2>1. ASSUME NEW q \in Processes, writer'[q].step \in BeforeRename
        PROVE  (Temp(q) \in DOMAIN temps /\ temps[Temp(q)].by = q)'
    BY <1>1, <2>1 DEF Inv, OwnInv
  <2>2. ASSUME NEW name \in DOMAIN temps', NEW q \in Processes, temps'[name].by = q
        PROVE  writer'[q].step \in BeforeRename /\ name = Temp(q)'
    <3>1. writer[q].step \in BeforeRename /\ name = Temp(q)
      BY <2>2 DEF Inv, OwnInv
    <3> QED
      BY <1>1, <3>1
  <2> QED
    BY <2>1, <2>2 DEF OwnInv
<1>3. FillInv'
  <2>1. ASSUME NEW q \in Processes
        PROVE  (/\ writer[q].step \in {"syncing", "replacing"} =>
                       temps[Temp(q)].value = writer[q].value
                /\ writer[q].step = "replacing" /\ setting.durable => temps[Temp(q)].synced
                /\ writer[q].step = "linking" => setting.durable)'
    <3>1. CASE q = p
      BY <3>1 DEF BeforeRename
    <3>2. CASE q # p
      BY <1>1, <3>2 DEF Inv, FillInv
    <3> QED
      BY <3>1, <3>2
  <2> QED
    BY <2>1 DEF FillInv
<1> QED
  BY <1>2, <1>3

\* What no other process has touched is whole if it was before.
LEMMA SameFilesWhole == Inv /\ SameFiles => DistinctIds' /\ WholeFiles'
BY DEF Inv, SameFiles, DistinctIds, WholeFiles

\* The creation of a temporary file, or its failure, keeps the invariant.
LEMMA CreateInv ==
    ASSUME Inv, NEW p \in Processes, CreateTemp(p)
    PROVE  OwnInv' /\ FillInv' /\ SameFiles
<1> DEFINE name == TempName(p, counter[p])
<1>1. /\ writer[p].step = "naming" /\ SameFiles /\ writer \in [Processes -> Writer]
      /\ TypeOK /\ WriterInv
  BY DEF CreateTemp, SameFiles, Inv, TypeOK
<1>2. CASE Answer(p, "failed") /\ UNCHANGED temps
  <2>1. /\ writer'[p].step = "failed" /\ \A q \in Processes \ {p} : writer'[q] = writer[q]
    BY <1>1, <1>2, AnswerType DEF Answers
  <2>2. writer[p].step \notin BeforeRename /\ "failed" \notin BeforeRename \cup {"linking"}
    BY <1>1 DEF BeforeRename
  <2> QED
    BY <1>1, <1>2, <2>1, <2>2, KeepInv DEF SameFiles
<1>3. CASE UNCHANGED temps /\ writer' = [writer EXCEPT ![p].tries = @ + 1]
  <2>1. /\ writer'[p].step = "naming" /\ \A q \in Processes \ {p} : writer'[q] = writer[q]
    BY <1>1, <1>3 DEF Writer
  <2>2. writer[p].step \notin BeforeRename /\ "naming" \notin BeforeRename \cup {"linking"}
    BY <1>1 DEF BeforeRename
  <2> QED
    BY <1>1, <1>3, <2>1, <2>2, KeepInv DEF SameFiles
<1>4. CASE /\ name \notin DOMAIN temps /\ temps' = With(name, OpenFile(p, Torn, FALSE))
           /\ writer' = [writer EXCEPT ![p].step = "writing", ![p].suffix = counter[p]]
  <2>1. /\ writer'[p].step = "writing" /\ writer'[p].suffix = counter[p]
        /\ \A q \in Processes \ {p} : writer'[q] = writer[q]
    BY <1>1, <1>4 DEF Writer
  <2>2. Temp(p)' = name /\ \A q \in Processes \ {p} : Temp(q)' = Temp(q)
    BY <1>1, <2>1 DEF Temp, TempName, SameFiles
  <2>3. /\ DOMAIN temps' = DOMAIN temps \cup {name}
        /\ temps'[name] = OpenFile(p, Torn, FALSE) /\ temps'[name].by = p
        /\ \A other \in DOMAIN temps : temps'[other] = temps[other]
    <3> HIDE DEF name
    <3>1. OpenFile(p, Torn, FALSE).by = p
      BY DEF OpenFile
    <3> QED
      BY <1>4, <3>1 DEF With
  <2> HIDE DEF name
  <2>4. OwnInv'
    <3>1. ASSUME NEW q \in Processes, writer'[q].step \in BeforeRename
          PROVE  (Temp(q) \in DOMAIN temps /\ temps[Temp(q)].by = q)'
      <4>1. CASE q = p
        BY <2>2, <2>3, <4>1
      <4>2. CASE q # p
        BY <2>1, <2>2, <2>3, <3>1, <4>2 DEF Inv, OwnInv
      <4> QED
        BY <4>1, <4>2
    <3>2. ASSUME NEW other \in DOMAIN temps', NEW q \in Processes, temps'[other].by = q
          PROVE  writer'[q].step \in BeforeRename /\ other = Temp(q)'
      <4>1. CASE other = name
        BY <2>1, <2>2, <2>3, <3>2, <4>1 DEF BeforeRename
      <4>2. CASE other # name
        <5>1. writer[q].step \in BeforeRename /\ other = Temp(q)
          BY <2>3, <3>2, <4>2 DEF Inv, OwnInv
        <5>2. q # p
          BY <1>1, <5>1 DEF BeforeRename
        <5> QED
          BY <2>1, <2>2, <5>1, <5>2
      <4> QED
        BY <4>1, <4>2
    <3> QED
      BY <3>1, <3>2 DEF OwnInv
  <2>5. FillInv'
    <3>1. ASSUME NEW q \in Processes
          PROVE  (/\ writer[q].step \in {"syncing", "replacing"} =>
                         temps[Temp(q)].value = writer[q].value
                  /\ writer[q].step = "replacing" /\ setting.durable => temps[Temp(q)].synced
                  /\ writer[q].step = "linking" => setting.durable)'
      <4>1. CASE q = p
        BY <2>1, <4>1
      <4>2. CASE q # p
        <5>1. writer'[q] = writer[q] /\ Temp(q)' = Temp(q) /\ setting' = setting
          BY <1>1, <2>1, <2>2, <4>2 DEF SameFiles
        <5>2. writer[q].step \in {"syncing", "replacing"} => Temp(q) \in DOMAIN temps
          BY DEF Inv, OwnInv, BeforeRename
        <5> QED
          BY <2>3, <5>1, <5>2 DEF Inv, FillInv
      <4> QED
        BY <4>1, <4>2
    <3> QED
      BY <3>1 DEF FillInv
  <2> QED
    BY <1>1, <2>4, <2>5
<1> QED
  BY <1>2, <1>3, <1>4 DEF CreateTemp

\* Filling and syncing the file keep the invariant: a handle is its owner's.
LEMMA FillKeepsInv ==
    ASSUME Inv, NEW p \in Processes, FillTemp(p) \/ SyncTemp(p)
    PROVE  OwnInv' /\ FillInv' /\ SameFiles
<1>1. PICK synced \in BOOLEAN, to \in {"syncing", "replacing"} :
          /\ HandleWrites(p, synced) /\ Step(p, to)
          /\ to = "replacing" /\ setting.durable => synced
  BY DEF FillTemp, SyncTemp
<1>2. /\ writer[p].step \in BeforeRename /\ SameFiles /\ TypeOK /\ WriterInv
      /\ writer[p].step \notin Answers
  BY DEF FillTemp, SyncTemp, BeforeRename, Answers, events, SameFiles, Inv
<1>3. writer[p].value \in Contents
  BY <1>2 DEF TypeOK, WriterInv, Writer
<1>4. /\ writer'[p].step = to /\ writer'[p].value = writer[p].value
      /\ writer'[p].suffix = writer[p].suffix
      /\ \A q \in Processes \ {p} : writer'[q] = writer[q]
  BY <1>1, <1>2, StepType DEF BeforeRename
<1>5. \A q \in Processes : Temp(q)' = Temp(q)
  BY <1>2, <1>4 DEF Temp, TempName, SameFiles
<1>6. /\ DOMAIN temps' = DOMAIN temps
      /\ \A name \in DOMAIN temps :
           temps'[name] = IF temps[name].by = p THEN OpenFile(p, writer[p].value, synced)
                          ELSE temps[name]
  BY <1>1, <1>2, <1>3, HandleType
<1>7. /\ OpenFile(p, writer[p].value, synced).by = p
      /\ OpenFile(p, writer[p].value, synced).value = writer[p].value
      /\ OpenFile(p, writer[p].value, synced).synced = synced
  BY DEF OpenFile
<1>8. \A name \in DOMAIN temps : temps'[name].by = temps[name].by
  BY <1>6, <1>7
<1>9. to \in BeforeRename /\ to # "linking"
  BY DEF BeforeRename
<1>10. OwnInv'
  <2>1. ASSUME NEW q \in Processes, writer'[q].step \in BeforeRename
        PROVE  (Temp(q) \in DOMAIN temps /\ temps[Temp(q)].by = q)'
    <3>1. writer[q].step \in BeforeRename
      BY <1>2, <1>4, <2>1
    <3> QED
      BY <1>5, <1>6, <1>8, <3>1 DEF Inv, OwnInv
  <2>2. ASSUME NEW name \in DOMAIN temps', NEW q \in Processes, temps'[name].by = q
        PROVE  writer'[q].step \in BeforeRename /\ name = Temp(q)'
    <3>1. writer[q].step \in BeforeRename /\ name = Temp(q)
      BY <1>6, <1>8, <2>2 DEF Inv, OwnInv
    <3> QED
      BY <1>4, <1>5, <1>9, <3>1
  <2> QED
    BY <2>1, <2>2 DEF OwnInv
<1>11. FillInv'
  <2>1. ASSUME NEW q \in Processes
        PROVE  (/\ writer[q].step \in {"syncing", "replacing"} =>
                       temps[Temp(q)].value = writer[q].value
                /\ writer[q].step = "replacing" /\ setting.durable => temps[Temp(q)].synced
                /\ writer[q].step = "linking" => setting.durable)'
    <3>1. CASE q = p
      <4>1. Temp(p) \in DOMAIN temps /\ temps[Temp(p)].by = p
        BY <1>2 DEF Inv, OwnInv
      <4>2. temps'[Temp(p)] = OpenFile(p, writer[p].value, synced)
        BY <1>6, <4>1
      <4> QED
        BY <1>1, <1>2, <1>4, <1>5, <1>7, <1>9, <3>1, <4>2 DEF SameFiles
    <3>2. CASE q # p
      <4>1. writer'[q] = writer[q] /\ Temp(q)' = Temp(q) /\ setting' = setting
        BY <1>2, <1>4, <1>5, <3>2 DEF SameFiles
      <4>2. writer[q].step \in {"syncing", "replacing"} =>
                Temp(q) \in DOMAIN temps /\ temps[Temp(q)].by = q
        BY DEF Inv, OwnInv, BeforeRename
      <4>3. writer[q].step \in {"syncing", "replacing"} => temps'[Temp(q)] = temps[Temp(q)]
        BY <1>6, <3>2, <4>2
      <4> QED
        BY <4>1, <4>3 DEF Inv, FillInv
    <3> QED
      BY <3>1, <3>2
  <2> QED
    BY <2>1 DEF FillInv
<1> QED
  BY <1>2, <1>10, <1>11

\* What a process renames is its own, whole file.
LEMMA ReplacedFile ==
    ASSUME Inv, NEW p \in Processes, Replace(p)
    PROVE  /\ final' \in File /\ final'.value = writer[p].value /\ final'.value \in Contents
           /\ setting.durable => final'.synced
           /\ entries' = entries \cup {final'} /\ temps' = Without(Temp(p))
           /\ IF setting.durable THEN Step(p, "linking") ELSE Answer(p, "saved")
           /\ writer[p].step = "replacing" /\ UNCHANGED setting
<1>1. writer[p].step = "replacing" /\ UNCHANGED setting
  BY DEF Replace, events
<1>2. Temp(p) \in DOMAIN temps /\ temps[Temp(p)].value = writer[p].value
      /\ (setting.durable => temps[Temp(p)].synced)
  BY <1>1 DEF Inv, OwnInv, FillInv, BeforeRename
<1>3. temps[Temp(p)] \in File
  BY <1>2 DEF Inv, TypeOK
<1>4. /\ final' = [temps[Temp(p)] EXCEPT !.by = None]
      /\ entries' = entries \cup {final'} /\ temps' = Without(Temp(p))
      /\ IF setting.durable THEN Step(p, "linking") ELSE Answer(p, "saved")
  BY <1>2 DEF Replace
<1>5. writer[p].value \in Contents
  BY <1>1 DEF Inv, TypeOK, WriterInv, Writer, Answers
<1>6. /\ final' \in File /\ final'.value = temps[Temp(p)].value
      /\ final'.synced = temps[Temp(p)].synced
  BY <1>3, <1>4 DEF File
<1> QED
  BY <1>1, <1>2, <1>4, <1>5, <1>6

\* The rename keeps the invariant.
LEMMA ReplaceInv ==
    ASSUME Inv, NEW p \in Processes, Replace(p)
    PROVE  OwnInv' /\ FillInv' /\ DistinctIds' /\ WholeFiles'
<1>1. /\ final' \in File /\ final'.value \in Contents /\ (setting.durable => final'.synced)
      /\ entries' = entries \cup {final'} /\ temps' = Without(Temp(p))
      /\ IF setting.durable THEN Step(p, "linking") ELSE Answer(p, "saved")
      /\ writer[p].step = "replacing" /\ UNCHANGED setting
  BY ReplacedFile
<1>2. /\ writer'[p].step \in Answers \cup {"linking"}
      /\ writer'[p].step = "linking" => setting.durable
      /\ \A q \in Processes \ {p} : writer'[q] = writer[q]
  <2>1. TypeOK /\ WriterInv /\ writer[p].step \notin Answers
    BY <1>1 DEF Inv, Answers
  <2>2. CASE setting.durable /\ Step(p, "linking")
    BY <2>1, <2>2, StepType
  <2>3. CASE Answer(p, "saved")
    BY <2>1, <2>3, AnswerType DEF Answers
  <2> QED
    BY <1>1, <2>2, <2>3
<1>3. OwnInv' /\ FillInv'
  BY <1>1, <1>2, ReleaseInv DEF BeforeRename
<1>4. DistinctIds'
  BY <1>1 DEF Inv, DistinctIds
<1>5. WholeFiles'
  <2>1. final'.value # Torn
    BY <1>1, WriterAssumption
  <2> QED
    BY <1>1, <2>1 DEF Inv, WholeFiles
<1> QED
  BY <1>3, <1>4, <1>5

\* A call, an answer and a failure keep the invariant.
LEMMA AnswerInv ==
    ASSUME Inv, NEW p \in Processes,
           Call(p) \/ SyncParent(p) \/ FailWrite(p) \/ FailParent(p)
    PROVE  OwnInv' /\ FillInv' /\ DistinctIds' /\ WholeFiles'
<1>1. TypeOK /\ WriterInv /\ writer \in [Processes -> Writer]
  BY DEF Inv, TypeOK
<1>2. CASE Call(p)
  <2>1. /\ writer'[p].step = "naming" /\ \A q \in Processes \ {p} : writer'[q] = writer[q]
    BY <1>1, <1>2 DEF Call
  <2>2. writer[p].step \notin BeforeRename /\ "naming" \notin BeforeRename \cup {"linking"}
    BY <1>2 DEF Call, Answers, BeforeRename
  <2>3. SameFiles /\ UNCHANGED temps
    BY <1>2 DEF Call, SameFiles, events
  <2> QED
    BY <2>1, <2>2, <2>3, KeepInv, SameFilesWhole DEF SameFiles
<1>3. CASE SyncParent(p)
  <2>1. /\ writer'[p].step = "saved" /\ \A q \in Processes \ {p} : writer'[q] = writer[q]
    BY <1>1, <1>3, AnswerType DEF SyncParent, Answers
  <2>2. writer[p].step \notin BeforeRename /\ "saved" \notin BeforeRename \cup {"linking"}
    BY <1>3 DEF SyncParent, BeforeRename
  <2>3. UNCHANGED <<final, temps, setting>> /\ entries' = {final}
    BY <1>3 DEF SyncParent, events
  <2>4. DistinctIds' /\ WholeFiles'
    BY <2>3 DEF Inv, DistinctIds, WholeFiles
  <2> QED
    BY <2>1, <2>2, <2>3, <2>4, KeepInv
<1>4. CASE FailWrite(p) \/ FailParent(p)
  <2>1. /\ writer'[p].step = "failed" /\ \A q \in Processes \ {p} : writer'[q] = writer[q]
    BY <1>1, <1>4, AnswerType DEF FailWrite, FailParent, Answers
  <2>2. /\ writer[p].step \in BeforeRename \cup {"linking"}
        /\ "failed" \in Answers \cup {"linking"} /\ "failed" # "linking"
        /\ temps' = Without(Temp(p)) /\ SameFiles
    BY <1>4 DEF FailWrite, FailParent, Answers, SameFiles
  <2> QED
    BY <2>1, <2>2, ReleaseInv, SameFilesWhole DEF SameFiles
<1> QED
  BY <1>2, <1>3, <1>4

\* A killed process owns nothing any more.
LEMMA KillInv ==
    ASSUME Inv, NEW p \in Processes, Kill(p)
    PROVE  OwnInv' /\ FillInv' /\ SameFiles
<1>1. /\ TypeOK /\ WriterInv /\ Answer(p, "idle") /\ SameFiles
      /\ temps' = [name \in DOMAIN temps |->
             IF temps[name].by = p THEN [temps[name] EXCEPT !.by = None] ELSE temps[name]]
  BY DEF Kill, Inv, SameFiles
<1>2. /\ writer'[p].step = "idle" /\ \A q \in Processes \ {p} : writer'[q] = writer[q]
  BY <1>1, AnswerType DEF Answers
<1>3. \A q \in Processes \ {p} : Temp(q)' = Temp(q)
  BY <1>1, <1>2 DEF Temp, TempName, SameFiles
<1>4. ASSUME NEW name \in DOMAIN temps
      PROVE  /\ name \in DOMAIN temps'
             /\ temps[name].by # p => temps'[name] = temps[name]
             /\ temps[name].by = p => temps'[name].by = None
  BY <1>1 DEF TypeOK, File
<1>5. DOMAIN temps' = DOMAIN temps
  BY <1>1
<1>6. "idle" \notin BeforeRename \cup {"linking", "syncing", "replacing"} /\ None \notin Processes
  BY WriterAssumption DEF BeforeRename
<1>7. OwnInv'
  <2>1. ASSUME NEW q \in Processes, writer'[q].step \in BeforeRename
        PROVE  (Temp(q) \in DOMAIN temps /\ temps[Temp(q)].by = q)'
    <3>1. q # p /\ writer[q].step \in BeforeRename
      BY <1>2, <1>6, <2>1
    <3>2. Temp(q) \in DOMAIN temps /\ temps[Temp(q)].by = q
      BY <3>1 DEF Inv, OwnInv
    <3> QED
      BY <1>3, <1>4, <3>1, <3>2
  <2>2. ASSUME NEW name \in DOMAIN temps', NEW q \in Processes, temps'[name].by = q
        PROVE  writer'[q].step \in BeforeRename /\ name = Temp(q)'
    <3>1. name \in DOMAIN temps /\ temps[name].by # p /\ temps[name].by = q
      BY <1>4, <1>5, <1>6, <2>2
    <3>2. writer[q].step \in BeforeRename /\ name = Temp(q) /\ q # p
      BY <3>1 DEF Inv, OwnInv
    <3> QED
      BY <1>2, <1>3, <3>2
  <2> QED
    BY <2>1, <2>2 DEF OwnInv
<1>8. FillInv'
  <2>1. ASSUME NEW q \in Processes
        PROVE  (/\ writer[q].step \in {"syncing", "replacing"} =>
                       temps[Temp(q)].value = writer[q].value
                /\ writer[q].step = "replacing" /\ setting.durable => temps[Temp(q)].synced
                /\ writer[q].step = "linking" => setting.durable)'
    <3>1. CASE q = p
      BY <1>2, <3>1
    <3>2. CASE q # p
      <4>1. writer'[q] = writer[q] /\ Temp(q)' = Temp(q) /\ setting' = setting
        BY <1>1, <1>2, <1>3, <3>2 DEF SameFiles
      <4>2. writer[q].step \in {"syncing", "replacing"} =>
                Temp(q) \in DOMAIN temps /\ temps[Temp(q)].by = q
        BY DEF Inv, OwnInv, BeforeRename
      <4>3. writer[q].step \in {"syncing", "replacing"} => temps'[Temp(q)] = temps[Temp(q)]
        BY <1>4, <3>2, <4>2
      <4> QED
        BY <4>1, <4>3 DEF Inv, FillInv
    <3> QED
      BY <3>1, <3>2
  <2> QED
    BY <2>1 DEF FillInv
<1> QED
  BY <1>1, <1>7, <1>8

\* A power loss brings back one of the synced files as it is.
LEMMA PowerFiles ==
    ASSUME Inv, PowerLoss
    PROVE  /\ setting.durable /\ UNCHANGED setting
           /\ final' \in entries /\ entries' = {final'}
<1>1. setting.durable /\ UNCHANGED setting /\ entries' = {final'}
  BY DEF PowerLoss
<1>2. PICK f \in entries : final' \in Survivors(f)
  BY DEF PowerLoss
<1>3. CASE f = None
  BY <1>1, <1>2, <1>3 DEF Survivors
<1>4. CASE f # None
  <2>1. f \in File /\ f.synced = TRUE
    BY <1>1, <1>4 DEF Inv, TypeOK, WholeFiles, File
  <2>2. [f EXCEPT !.synced = TRUE] = f
    BY <2>1 DEF File
  <2> QED
    BY <1>1, <1>2, <1>4, <2>1, <2>2 DEF Survivors
<1> QED
  BY <1>3, <1>4

\* A power loss keeps the invariant.
LEMMA PowerInv ==
    ASSUME Inv, PowerLoss
    PROVE  OwnInv' /\ FillInv' /\ DistinctIds' /\ WholeFiles'
<1>1. /\ writer' = [p \in Processes |-> Idle("idle")]
      /\ \E left \in SUBSET DOMAIN temps : temps' = [name \in left |-> ClosedFile(Torn)]
  BY DEF PowerLoss
<1>2. /\ \A p \in Processes : writer'[p].step = "idle"
      /\ "idle" \notin BeforeRename \cup {"syncing", "replacing", "linking"}
  BY <1>1, IdleType DEF Answers, BeforeRename
<1>3. \A name \in DOMAIN temps' : temps'[name].by \notin Processes
  BY <1>1, WriterAssumption DEF ClosedFile, OpenFile
<1>4. OwnInv' /\ FillInv'
  BY <1>2, <1>3 DEF OwnInv, FillInv
<1>5. DistinctIds' /\ WholeFiles'
  BY PowerFiles DEF Inv, DistinctIds, WholeFiles
<1> QED
  BY <1>4, <1>5

\* The invariant holds at first, where the ids allow it.
LEMMA InitInv == Init /\ DistinctIds => Inv
<1> SUFFICES ASSUME Init, DistinctIds PROVE Inv
  OBVIOUS
<1>1. \A p \in Processes : writer[p].step = "idle"
  BY IdleType DEF Init, Answers
<1>2. DOMAIN temps = {}
  BY DEF Init
<1>3. OwnInv /\ FillInv
  BY <1>1, <1>2 DEF OwnInv, FillInv, BeforeRename
<1>4. \A f \in (entries \cup {final}) \ {None} : f.value # Torn /\ f.synced
  <2>1. \A value \in Contents : ClosedFile(value).value # Torn /\ ClosedFile(value).synced
    BY WriterAssumption DEF ClosedFile, OpenFile
  <2> QED
    BY <2>1 DEF Init
<1>5. WholeFiles
  BY <1>4 DEF WholeFiles
<1> QED
  BY <1>3, <1>5, InitType DEF Inv

\* Every step keeps the invariant.
LEMMA NextInv == Inv /\ [Next]_vars => Inv'
<1> SUFFICES ASSUME Inv, [Next]_vars PROVE Inv'
  OBVIOUS
<1>1. TypeOK' /\ WriterInv'
  BY NextType DEF Inv
<1>2. ASSUME NEW p \in Processes, Call(p) \/ WriterStep(p) \/ Kill(p)
      PROVE  OwnInv' /\ FillInv' /\ DistinctIds' /\ WholeFiles'
  <2>1. CASE Call(p) \/ SyncParent(p) \/ FailWrite(p) \/ FailParent(p)
    BY <2>1, AnswerInv
  <2>2. CASE CreateTemp(p)
    BY <2>2, CreateInv, SameFilesWhole
  <2>3. CASE FillTemp(p) \/ SyncTemp(p)
    BY <2>3, FillKeepsInv, SameFilesWhole
  <2>4. CASE Replace(p)
    BY <2>4, ReplaceInv
  <2>5. CASE Kill(p)
    BY <2>5, KillInv, SameFilesWhole
  <2> QED
    BY <1>2, <2>1, <2>2, <2>3, <2>4, <2>5 DEF WriterStep
<1>3. CASE PowerLoss
  BY <1>1, <1>3, PowerInv DEF Inv
<1>4. CASE UNCHANGED vars
  <2>1. SameFiles /\ UNCHANGED <<temps, writer>>
    BY <1>4 DEF vars, events, SameFiles
  <2>2. OwnInv' /\ FillInv'
    BY <2>1 DEF Inv, OwnInv, FillInv, Temp, TempName, SameFiles
  <2> QED
    BY <1>1, <2>1, <2>2, SameFilesWhole DEF Inv
<1> QED
  BY <1>1, <1>2, <1>3, <1>4 DEF Next, Inv

\* The invariant, for ids that are distinct where the durable writer runs.
THEOREM WriterInvariant == Spec /\ DistinctIds => []Inv
<1> QED
  BY InitInv, NextInv, PTL DEF Spec

\* Neither a reader nor the next boot of a durable writer, and no reader of a
\* visible one, ever sees a file that is not written to its end.
THEOREM WritesWholeFiles == Spec /\ DistinctIds => []WholeFiles
<1>1. Inv => WholeFiles
  BY DEF Inv
<1> QED
  BY <1>1, WriterInvariant, PTL

-----------------------------------------------------------------------------
(* The durable writer implements AtomicFile.                                *)

\* What AtomicFile sees of every call.
CallsSeen == [p \in Processes |-> CallSeen(p)]

\* What it sees of the call of one process, by its step.
LEMMA CallOfStep ==
    ASSUME WriterInv, NEW p \in Processes
    PROVE  /\ writer[p].step \in Answers =>
                CallOf(p) = [status |-> writer[p].step, content |-> None]
           /\ writer[p].step = "linking" =>
                CallOf(p) = [status |-> "published", content |-> writer[p].value]
           /\ writer[p].step \in BeforeRename \cup {"naming"} =>
                CallOf(p) = [status |-> "open", content |-> writer[p].value]
BY DEF WriterInv, CallOf, Answers, BeforeRename

\* A step of one call changes what is seen of that call only.
LEMMA CallsSeenStep ==
    ASSUME setting.durable, UNCHANGED setting, NEW p \in Processes,
           \A q \in Processes \ {p} : writer'[q] = writer[q]
    PROVE  CallsSeen' = [CallsSeen EXCEPT ![p] = CallOf(p)']
<1>1. \A q \in Processes : CallSeen(q) = CallOf(q) /\ CallSeen(q)' = CallOf(q)'
  BY DEF CallSeen
<1>2. \A q \in Processes \ {p} : CallOf(q)' = CallOf(q)
  BY DEF CallOf
<1> QED
  BY <1>1, <1>2 DEF CallsSeen

\* Steps with the visible writer show AtomicFile nothing.
LEMMA VisibleStutters ==
    ASSUME ~setting.durable, UNCHANGED setting
    PROVE  UNCHANGED <<Visible, Recoverable, CallsSeen>>
BY DEF Visible, Recoverable, CallsSeen, CallSeen

\* The initial states are initial states of AtomicFile.
LEMMA InitRefines == Init => Published!Init
<1> SUFFICES ASSUME Init PROVE Published!Init
  OBVIOUS
<1>1. Visible \in Contents \cup {None}
  BY DEF Init, Visible, ContentOf, ClosedFile, OpenFile
<1>2. Recoverable = {Visible}
  BY DEF Init, Recoverable, Visible
<1>3. CallsSeen = [p \in Processes |-> [status |-> "idle", content |-> None]]
  <2>1. \A p \in Processes : CallOf(p) = [status |-> "idle", content |-> None]
    BY IdleType DEF Init, CallOf, Answers
  <2> QED
    BY <2>1 DEF CallsSeen, CallSeen
<1> QED
  BY <1>1, <1>2, <1>3 DEF Published!Init, Published!Rest, CallsSeen

\* A step of a call is a step of AtomicFile, or shows it nothing.
LEMMA CallRefines ==
    ASSUME Inv, Inv', setting.durable, NEW p \in Processes,
           Call(p) \/ WriterStep(p) \/ Kill(p)
    PROVE  \/ Published!Open(p) \/ Published!Publish(p) \/ Published!Acknowledge(p)
           \/ Published!Refuse(p) \/ Published!Crash(p)
           \/ UNCHANGED <<Visible, Recoverable, CallsSeen>>
<1>1. TypeOK /\ WriterInv /\ WriterInv' /\ writer \in [Processes -> Writer]
  BY DEF Inv, TypeOK
<1>2. CallsSeen[p] = CallOf(p)
  BY DEF CallsSeen, CallSeen
<1>3. ASSUME SameFiles PROVE UNCHANGED <<Visible, Recoverable>> /\ UNCHANGED setting
  BY <1>3 DEF SameFiles, Visible, Recoverable
<1>4. ASSUME SameFiles, Answer(p, "failed"), writer[p].step \notin Answers
      PROVE  Published!Refuse(p)
  <2>1. /\ writer'[p].step = "failed" /\ \A q \in Processes \ {p} : writer'[q] = writer[q]
    BY <1>1, <1>4, AnswerType DEF Answers
  <2>2. CallOf(p)' = [status |-> "failed", content |-> None]
    BY <1>1, <2>1, CallOfStep DEF Answers, WriterInv, CallOf
  <2>3. CallsSeen' = [CallsSeen EXCEPT ![p] = CallOf(p)']
    BY <1>3, <1>4, <2>1, CallsSeenStep
  <2>4. CallsSeen[p].status \in {"open", "published"}
    BY <1>1, <1>2, <1>4, CallOfStep DEF Writer
  <2> QED
    BY <1>3, <1>4, <2>2, <2>3, <2>4 DEF Published!Refuse, Published!Rest, CallsSeen
<1>5. ASSUME SameFiles, writer[p].step \in BeforeRename \cup {"naming"},
             writer'[p].step \in BeforeRename \cup {"naming"},
             writer'[p].value = writer[p].value,
             \A q \in Processes \ {p} : writer'[q] = writer[q]
      PROVE  UNCHANGED <<Visible, Recoverable, CallsSeen>>
  <2>1. CallOf(p) = [status |-> "open", content |-> writer[p].value] /\ CallOf(p)' = CallOf(p)
    <3>1. CallOf(p) = [status |-> "open", content |-> writer[p].value]
      BY <1>1, <1>5, CallOfStep
    <3>2. CallOf(p)' = [status |-> "open", content |-> writer'[p].value]
      BY <1>5 DEF CallOf, Answers, BeforeRename
    <3> QED
      BY <1>5, <3>1, <3>2
  <2>2. CallsSeen' = [CallsSeen EXCEPT ![p] = CallOf(p)']
    BY <1>3, <1>5, CallsSeenStep
  <2>3. CallsSeen' = CallsSeen
    BY <1>2, <2>1, <2>2 DEF CallsSeen
  <2> QED
    BY <1>3, <1>5, <2>3
<1>6. CASE Call(p)
  <2>1. PICK value \in Contents :
            writer' = [writer EXCEPT ![p] = [step |-> "naming", value |-> value,
                                             suffix |-> 0, tries |-> 0]]
    BY <1>6 DEF Call
  <2>2. /\ writer[p].step \in Answers /\ SameFiles
        /\ writer'[p].step = "naming" /\ writer'[p].value = value
        /\ \A q \in Processes \ {p} : writer'[q] = writer[q]
    BY <1>1, <1>6, <2>1 DEF Call, SameFiles, events
  <2>3. CallOf(p)' = [status |-> "open", content |-> value]
    BY <2>2 DEF CallOf, Answers
  <2>4. CallsSeen' = [CallsSeen EXCEPT ![p] = CallOf(p)']
    BY <1>3, <2>2, CallsSeenStep
  <2>5. CallsSeen[p].content = None
    BY <1>1, <1>2, <2>2, CallOfStep
  <2> QED
    BY <1>3, <2>2, <2>3, <2>4, <2>5 DEF Published!Open, Published!OpenWith, CallsSeen
<1>7. CASE CreateTemp(p)
  <2>1. writer[p].step = "naming" /\ SameFiles /\ writer[p].step \notin Answers
    BY <1>7 DEF CreateTemp, SameFiles, Answers
  <2>2. \/ Answer(p, "failed")
        \/ writer' = [writer EXCEPT ![p].tries = @ + 1]
        \/ writer' = [writer EXCEPT ![p].step = "writing", ![p].suffix = counter[p]]
    BY <1>7 DEF CreateTemp
  <2>3. CASE Answer(p, "failed")
    BY <1>4, <2>1, <2>3
  <2>4. CASE \/ writer' = [writer EXCEPT ![p].tries = @ + 1]
             \/ writer' = [writer EXCEPT ![p].step = "writing", ![p].suffix = counter[p]]
    <3>1. /\ writer'[p].step \in {"naming", "writing"} /\ writer'[p].value = writer[p].value
          /\ \A q \in Processes \ {p} : writer'[q] = writer[q]
      BY <1>1, <2>1, <2>4 DEF Writer
    <3> QED
      BY <1>5, <2>1, <3>1 DEF BeforeRename
  <2> QED
    BY <2>2, <2>3, <2>4
<1>8. CASE FillTemp(p) \/ SyncTemp(p)
  <2>1. PICK to \in BeforeRename : Step(p, to)
    BY <1>8 DEF FillTemp, SyncTemp, BeforeRename
  <2>2. writer[p].step \in BeforeRename /\ writer[p].step \notin Answers /\ SameFiles
    BY <1>8 DEF FillTemp, SyncTemp, BeforeRename, Answers, SameFiles, events
  <2>3. /\ writer'[p].step = to /\ writer'[p].value = writer[p].value
        /\ \A q \in Processes \ {p} : writer'[q] = writer[q]
    BY <1>1, <2>1, <2>2, StepType
  <2> QED
    BY <1>5, <2>2, <2>3
<1>9. CASE Replace(p)
  <2>1. /\ final' \in File /\ final'.value = writer[p].value /\ entries' = entries \cup {final'}
        /\ Step(p, "linking") /\ writer[p].step = "replacing" /\ UNCHANGED setting
    BY <1>9, ReplacedFile
  <2>2. Visible' = writer[p].value /\ Recoverable' = Recoverable \cup {Visible'}
    BY <2>1, FileAssumption DEF Visible, Recoverable, ContentOf
  <2>3. /\ writer'[p].step = "linking" /\ writer'[p].value = writer[p].value
        /\ \A q \in Processes \ {p} : writer'[q] = writer[q]
    BY <1>1, <2>1, StepType DEF Answers
  <2>4. CallOf(p) = [status |-> "open", content |-> writer[p].value]
    BY <1>1, <2>1, CallOfStep DEF BeforeRename
  <2>5. CallOf(p)' = [status |-> "published", content |-> writer[p].value]
    BY <2>3 DEF CallOf, Answers
  <2>6. CallsSeen' = [CallsSeen EXCEPT ![p] = CallOf(p)']
    BY <2>1, <2>3, CallsSeenStep
  <2>7. CallsSeen' = [CallsSeen EXCEPT ![p].status = "published"]
    <3>1. CallsSeen[p] = [status |-> "open", content |-> writer[p].value]
      BY <1>2, <2>4
    <3>2. [CallsSeen[p] EXCEPT !.status = "published"] = CallOf(p)'
      <4> HIDE DEF CallsSeen
      <4>1. [status |-> "open", content |-> writer[p].value].content = writer[p].value
        OBVIOUS
      <4> QED
        BY <2>5, <3>1
    <3> HIDE DEF CallsSeen
    <3> QED
      BY <2>6, <3>2
  <2> QED
    BY <1>2, <2>2, <2>4, <2>7 DEF Published!Publish, CallsSeen
<1>10. CASE SyncParent(p)
  <2>1. /\ writer[p].step = "linking" /\ entries' = {final} /\ UNCHANGED <<final, setting>>
        /\ Answer(p, "saved")
    BY <1>10 DEF SyncParent, events
  <2>2. Visible' = Visible /\ Recoverable' = {Visible}
    BY <2>1 DEF Visible, Recoverable
  <2>3. /\ writer'[p].step = "saved" /\ \A q \in Processes \ {p} : writer'[q] = writer[q]
    BY <1>1, <2>1, AnswerType DEF Answers
  <2>4. CallOf(p)' = [status |-> "saved", content |-> None]
    BY <1>1, <2>3 DEF Answers, WriterInv, CallOf
  <2>5. CallsSeen' = [CallsSeen EXCEPT ![p] = CallOf(p)']
    BY <2>1, <2>3, CallsSeenStep
  <2>6. CallsSeen[p].status = "published"
    BY <1>1, <1>2, <2>1, CallOfStep
  <2> QED
    BY <2>2, <2>4, <2>5, <2>6 DEF Published!Acknowledge, Published!Rest, CallsSeen
<1>11. CASE FailWrite(p) \/ FailParent(p)
  <2>1. Answer(p, "failed") /\ SameFiles /\ writer[p].step \notin Answers
    BY <1>11 DEF FailWrite, FailParent, BeforeRename, Answers, SameFiles
  <2> QED
    BY <1>4, <2>1
<1>12. CASE Kill(p)
  <2>1. Answer(p, "idle") /\ SameFiles
    BY <1>12 DEF Kill, SameFiles
  <2>2. /\ writer'[p].step = "idle" /\ \A q \in Processes \ {p} : writer'[q] = writer[q]
    BY <1>1, <2>1, AnswerType DEF Answers
  <2>3. CallOf(p)' = [status |-> "idle", content |-> None]
    BY <1>1, <2>2 DEF Answers, WriterInv, CallOf
  <2>4. CallsSeen' = [CallsSeen EXCEPT ![p] = CallOf(p)']
    BY <1>3, <2>1, <2>2, CallsSeenStep
  <2> QED
    BY <1>3, <2>1, <2>3, <2>4 DEF Published!Crash, Published!Rest, CallsSeen
<1> QED
  BY <1>6, <1>7, <1>8, <1>9, <1>10, <1>11, <1>12 DEF WriterStep

\* A power loss is one of AtomicFile.
LEMMA PowerRefines ==
    ASSUME Inv, PowerLoss
    PROVE  Published!PowerLoss
<1>1. setting.durable /\ UNCHANGED setting /\ final' \in entries /\ entries' = {final'}
  BY PowerFiles
<1>2. Visible' \in Recoverable /\ Recoverable' = {Visible'}
  BY <1>1 DEF Visible, Recoverable
<1>3. \A p \in Processes : writer'[p].step = "idle" /\ writer'[p].value = None
  BY IdleType DEF PowerLoss, Answers
<1>4. \A p \in Processes : CallSeen(p)' = [status |-> "idle", content |-> None]
  BY <1>1, <1>3 DEF CallSeen, CallOf, Answers
<1> QED
  BY <1>2, <1>4 DEF Published!PowerLoss, Published!Rest

\* Every behaviour of the durable writers, under ids of their own, is one of
\* AtomicFile: the file is replaced whole or not at all, and what was acknowledged
\* survives a power loss.
THEOREM WriterRefinement == Spec /\ DistinctIds => PublishedSpec
<1>1. Inv /\ Inv' /\ [Next]_vars => [Published!Next]_(Published!vars)
  <2> SUFFICES ASSUME Inv, Inv', [Next]_vars
               PROVE  \/ Published!Next \/ UNCHANGED <<Visible, Recoverable, CallsSeen>>
    BY DEF Published!vars, CallsSeen
  <2>1. CASE UNCHANGED vars
    BY <2>1 DEF vars, events, Visible, Recoverable, CallsSeen, CallSeen, CallOf
  <2>2. CASE PowerLoss
    BY <2>2, PowerRefines DEF Published!Next
  <2>3. ASSUME NEW p \in Processes, Call(p) \/ WriterStep(p) \/ Kill(p)
        PROVE  \/ Published!Next \/ UNCHANGED <<Visible, Recoverable, CallsSeen>>
    <3>1. UNCHANGED setting
      BY <2>3 DEF Call, WriterStep, CreateTemp, FillTemp, SyncTemp, Replace, SyncParent,
                  FailWrite, FailParent, Kill, events
    <3>2. CASE setting.durable
      BY <2>3, <3>2, CallRefines DEF Published!Next
    <3>3. CASE ~setting.durable
      BY <3>1, <3>3, VisibleStutters
    <3> QED
      BY <3>2, <3>3
  <2> QED
    BY <2>1, <2>2, <2>3 DEF Next
<1> QED
  BY <1>1, InitRefines, WriterInvariant, PTL DEF Spec, PublishedSpec, Published!Spec
=============================================================================
