------------------------- MODULE ClaudeAppendProofs -------------------------
(***************************************************************************)
(* Proofs about ClaudeAppend for any transcripts, acquisitions and bounds:    *)
(* what an acquisition caches is what a full parse of the file leaves, and     *)
(* what it reports as complete is a full parse of the file as it was when the   *)
(* acquisition took its snapshot.                                           *)
(***************************************************************************)
EXTENDS ClaudeAppend, TranscriptProofs, FiniteSetTheorems

\* The fields of the parser's state, and a record that has them and no other.
StateFields == DOMAIN StartState
StateOK(s) == DOMAIN s = StateFields /\ s = [f \in StateFields |-> s[f]]

\* What the parse of some lines has left after each of them.
Parses(parse, lines) ==
    parse = [n \in 0 .. Len(lines) |->
               IF n = 0 THEN StartState ELSE ParsedLine(parse[n - 1], lines[n])]

-----------------------------------------------------------------------------
(* The parser.                                                             *)

\* A state with a field replaced is a state.
LEMMA StateExcept ==
    ASSUME NEW s, StateOK(s), NEW f \in StateFields, NEW v
    PROVE  /\ StateOK([s EXCEPT ![f] = v]) /\ [s EXCEPT ![f] = v][f] = v
           /\ \A g \in StateFields \ {f} : [s EXCEPT ![f] = v][g] = s[g]
BY DEF StateOK

\* The names of the fields.
LEMMA Fields ==
    StateFields = {"records", "pending", "side", "cost", "rejected", "interrupted"}
BY DEF StateFields, StartState

\* A line leaves a state; a malformed one breaks the parse off.
LEMMA ParsedLineState ==
    ASSUME NEW s, StateOK(s), NEW line, line.kind \in LineKinds
    PROVE  /\ StateOK(ParsedLine(s, line))
           /\ s.interrupted \/ line.kind = "malformed"
                => ParsedLine(s, line).interrupted
<1> DEFINE t == Sided(s, line)
<1>1. StateOK(t)
  <2>1. CASE s.side # None
    BY <2>1 DEF Sided
  <2>2. CASE s.side = None
    BY <2>2, StateExcept, Fields DEF Sided
  <2> QED
    BY <2>1, <2>2
<1>2. ASSUME NEW r, StateOK(r) PROVE StateOK(Rejected(r))
  BY <1>2, StateExcept, Fields DEF Rejected
<1> HIDE DEF t
<1>3. CASE s.interrupted \/ line.kind = "blank"
  <2>1. ParsedLine(s, line) = s
    BY <1>3 DEF ParsedLine
  <2> QED
    BY <1>3, <2>1
<1>4. CASE ~s.interrupted /\ line.kind = "malformed"
  <2>1. ParsedLine(s, line) = [Rejected(s) EXCEPT !.interrupted = TRUE]
    BY <1>4 DEF ParsedLine
  <2>2. StateOK(Rejected(s))
    BY <1>2
  <2> QED
    BY <2>1, <2>2, StateExcept, Fields
<1>5. CASE ~s.interrupted /\ line.kind \in {"untyped", "synthetic", "invalid"}
  <2>1. ParsedLine(s, line) \in {Rejected(s), t, Rejected(t)}
    BY <1>5 DEF ParsedLine, t
  <2> QED
    BY <1>1, <1>2, <1>5, <2>1
<1>6. CASE ~s.interrupted /\ line.kind \in {"cost", "user"}
  <2>1. \/ ParsedLine(s, line) = [s EXCEPT !.cost = line.usage]
        \/ ParsedLine(s, line) = [t EXCEPT !.pending = TRUE]
    BY <1>6 DEF ParsedLine, t
  <2> QED
    BY <1>1, <1>6, <2>1, StateExcept, Fields
<1>7. CASE ~s.interrupted /\ line.kind = "undated"
  <2>1. \/ ParsedLine(s, line) = [Rejected(t) EXCEPT !.pending = FALSE]
        \/ ParsedLine(s, line) = [t EXCEPT !.pending = FALSE]
    BY <1>7 DEF ParsedLine, t
  <2>2. StateOK(Rejected(t))
    BY <1>1, <1>2
  <2> QED
    BY <1>1, <1>7, <2>1, <2>2, StateExcept, Fields
<1>8. CASE ~s.interrupted /\ line.kind = "assistant"
  <2>1. ParsedLine(s, line) = Answered(t, line)
    BY <1>8 DEF ParsedLine, t
  <2>2. PICK records, pending :
          Answered(t, line) = [[t EXCEPT !.records = records] EXCEPT !.pending = pending]
    BY DEF Answered
  <2> DEFINE u == [t EXCEPT !.records = records]
  <2>3. StateOK(u)
    BY <1>1, StateExcept, Fields
  <2> HIDE DEF u
  <2>4. StateOK([u EXCEPT !.pending = pending])
    BY <2>3, StateExcept, Fields
  <2> QED
    BY <1>8, <2>1, <2>2, <2>4 DEF u
<1> QED
  BY <1>3, <1>4, <1>5, <1>6, <1>7, <1>8 DEF LineKinds

\* Every sequence of lines has a parse: the recursion of FullParse is sound.
LEMMA ParseExists ==
    ASSUME NEW lines, Len(lines) \in Nat
    PROVE  \E parse : Parses(parse, lines)
<1> DEFINE Upto(g, n) == g = [i \in 0 .. n |-> IF i = 0 THEN StartState
                                               ELSE ParsedLine(g[i - 1], lines[i])]
           T == {n \in Nat : \E g : Upto(g, n)}
<1>1. 0 \in T
  <2> DEFINE g == [i \in 0 .. 0 |-> StartState]
  <2>1. Upto(g, 0)
    OBVIOUS
  <2> HIDE DEF g, Upto
  <2> QED
    BY <2>1
<1>2. ASSUME NEW n \in Nat, n \in T
      PROVE  n + 1 \in T
  <2>1. PICK g : Upto(g, n)
    BY <1>2
  <2> DEFINE h == [i \in 0 .. n + 1 |->
                     IF i = n + 1 THEN ParsedLine(g[n], lines[n + 1]) ELSE g[i]]
  <2>2. \A i \in 0 .. n : g[i] = IF i = 0 THEN StartState ELSE ParsedLine(g[i - 1], lines[i])
    BY <2>1
  <2>3. \A i \in 0 .. n + 1 :
          h[i] = IF i = 0 THEN StartState ELSE ParsedLine(h[i - 1], lines[i])
    <3> TAKE i \in 0 .. n + 1
    <3>1. CASE i = n + 1
      <4>1. h[i] = ParsedLine(g[n], lines[n + 1]) /\ h[n] = g[n] /\ i - 1 = n
        BY <3>1
      <4> QED
        BY <3>1, <4>1
    <3>2. CASE i \in 0 .. n
      <4>1. h[i] = g[i]
        BY <3>2
      <4>2. i # 0 => h[i - 1] = g[i - 1]
        BY <3>2
      <4> QED
        BY <2>2, <3>2, <4>1, <4>2
    <3> QED
      BY <3>1, <3>2
  <2>4. Upto(h, n + 1)
    BY <2>3
  <2> HIDE DEF h, Upto
  <2> QED
    BY <2>4
<1> HIDE DEF T
<1>3. Nat \subseteq T
  BY <1>1, <1>2, Induction
<1> QED
  BY <1>3 DEF T, Parses

\* FullParse is what a parse has left after the last line.
LEMMA FullParseDef ==
    ASSUME NEW lines, Len(lines) \in Nat
    PROVE  \E parse : Parses(parse, lines) /\ FullParse(lines) = parse[Len(lines)]
<1> DEFINE parse == CHOOSE g : Parses(g, lines)
<1>1. Parses(parse, lines)
  BY ParseExists
<1>2. FullParse(lines) = parse[Len(lines)]
  BY DEF FullParse, Parses
<1> QED
  BY <1>1, <1>2

\* The parse of a text and one more line is the parse of the line after that of
\* the text: what makes a parse resumable.
LEMMA ParseNext ==
    ASSUME NEW S, NEW lines \in Seq(S), NEW line \in S
    PROVE  FullParse(Append(lines, line)) = ParsedLine(FullParse(lines), line)
<1> DEFINE more == Append(lines, line)
<1>1. /\ Len(lines) \in Nat /\ Len(more) = Len(lines) + 1 /\ more[Len(lines) + 1] = line
      /\ \A i \in 1 .. Len(lines) : more[i] = lines[i]
  BY AppendProperties, LenProperties
<1> HIDE DEF more
<1>2. PICK f : Parses(f, lines) /\ FullParse(lines) = f[Len(lines)]
  BY <1>1, FullParseDef
<1>3. PICK g : Parses(g, more) /\ FullParse(more) = g[Len(more)]
  BY <1>1, FullParseDef
<1> DEFINE T == {n \in Nat : n <= Len(lines) => f[n] = g[n]}
<1>4. 0 \in T
  BY <1>1, <1>2, <1>3 DEF Parses
<1>5. ASSUME NEW n \in Nat, n \in T
      PROVE  n + 1 \in T
  <2> SUFFICES ASSUME n + 1 <= Len(lines) PROVE f[n + 1] = g[n + 1]
    OBVIOUS
  <2>1. f[n] = g[n] /\ more[n + 1] = lines[n + 1] /\ (n + 1) - 1 = n
    BY <1>1, <1>5
  <2>2. f[n + 1] = ParsedLine(f[n], lines[n + 1])
    BY <1>1, <1>2, <2>1 DEF Parses
  <2>3. g[n + 1] = ParsedLine(g[n], more[n + 1])
    BY <1>1, <1>3, <2>1 DEF Parses
  <2> QED
    BY <2>1, <2>2, <2>3
<1> HIDE DEF T
<1>6. Nat \subseteq T
  BY <1>4, <1>5, Induction
<1>7. f[Len(lines)] = g[Len(lines)]
  BY <1>1, <1>6 DEF T
<1>8. g[Len(lines) + 1] = ParsedLine(g[Len(lines)], line)
  BY <1>1, <1>3 DEF Parses
<1> QED
  BY <1>1, <1>2, <1>3, <1>7, <1>8 DEF more

\* The parse of no lines.
LEMMA ParseNothing == FullParse(<<>>) = StartState
<1>1. Len(<<>>) = 0
  OBVIOUS
<1>2. PICK f : Parses(f, <<>>) /\ FullParse(<<>>) = f[Len(<<>>)]
  BY <1>1, FullParseDef
<1> QED
  BY <1>1, <1>2 DEF Parses

\* A parse leaves a state.
LEMMA ParseState ==
    ASSUME NEW lines \in Seq(Line)
    PROVE  StateOK(FullParse(lines))
<1>1. /\ Len(lines) \in Nat
      /\ \A i \in 1 .. Len(lines) : lines[i].kind \in LineKinds
  <2>1. \A x \in Line : x.kind \in LineKinds
    BY DEF Line
  <2> QED
    BY <2>1, LenProperties, ElementOfSeq
<1>2. PICK f : Parses(f, lines) /\ FullParse(lines) = f[Len(lines)]
  BY <1>1, FullParseDef
<1> DEFINE T == {n \in Nat : n <= Len(lines) => StateOK(f[n])}
<1>3. 0 \in T
  <2>1. f[0] = StartState
    BY <1>1, <1>2 DEF Parses
  <2>2. StateOK(StartState)
    BY DEF StateOK, StateFields, StartState
  <2> QED
    BY <2>1, <2>2
<1>4. ASSUME NEW n \in Nat, n \in T
      PROVE  n + 1 \in T
  <2> SUFFICES ASSUME n + 1 <= Len(lines) PROVE StateOK(f[n + 1])
    OBVIOUS
  <2>1. StateOK(f[n]) /\ n + 1 \in 1 .. Len(lines) /\ (n + 1) - 1 = n
    BY <1>1, <1>4
  <2>2. f[n + 1] = ParsedLine(f[n], lines[n + 1])
    BY <1>1, <1>2, <2>1 DEF Parses
  <2> QED
    BY <1>1, <2>1, <2>2, ParsedLineState
<1> HIDE DEF T
<1>5. Nat \subseteq T
  BY <1>3, <1>4, Induction
<1> QED
  BY <1>1, <1>2, <1>5 DEF T

\* What a client writes is lines, and it may have written none.
LEMMA BeginningsAreLines ==
    Beginnings \subseteq Seq(Line) /\ <<>> \in Beginnings
<1>1. ASSUME NEW d \in Drafts, NEW n \in 0 .. Len(d)
      PROVE  SubSeq(d, 1, n) \in Seq(Line)
  <2>1. d \in Seq(Line) /\ Len(d) \in Nat
    BY ClaudeAssumption, LenProperties
  <2> QED
    BY <2>1, SubSeqProperties
<1>2. PICK d \in Drafts : TRUE
  BY ClaudeAssumption
<1>3. d \in Seq(Line) /\ Len(d) \in Nat
  BY ClaudeAssumption, LenProperties
<1>4. SubSeq(d, 1, 0) = <<>>
  BY <1>3, SubSeqProperties, EmptySeq
<1>5. <<>> \in {SubSeq(d, 1, n) : n \in 0 .. Len(d)}
  BY <1>3, <1>4
<1> QED
  BY <1>1, <1>2, <1>5 DEF Beginnings
-----------------------------------------------------------------------------
(* The invariant.                                                          *)

\* What has been read of a text so far.
Prefix(lines, text) ==
    /\ lines \in Seq(Line) /\ Len(lines) <= Len(text.lines)
    /\ \A i \in 1 .. Len(lines) : lines[i] = text.lines[i]

\* The file has not changed since the snapshot, which is of the file that is open.
Fresh(q) ==
    q.inode = q.snapshot.inode /\ disk[q.inode].mtime = q.snapshot.mtime

\* A shard is what the parse of the text it is stamped with leaves, with a
\* checkpoint exactly if that text ends with a complete line.
Sealed(sh) ==
    LET text == sh.stamp.text
        parse == FullParse(text.lines)
    IN  /\ text.lines \in Beginnings /\ text.tail # "half" /\ ~parse.interrupted
        /\ sh.checkpoint <=> text.tail = "whole" /\ text.lines # <<>>
        /\ sh.checkpoint => sh.state = parse /\ sh.hash = text.lines
        /\ ~sh.checkpoint => sh.report = Finished(parse)

\* Verification has come to the end of a line of the prefix; as long as the file is
\* that of the snapshot, what it agreed with is there.
Verified(q) ==
    LET text == disk[q.inode].text
    IN  /\ q.hash \in Seq(Line) /\ Len(q.hash) <= Len(q.planned.hash)
        /\ \A i \in 1 .. Len(q.hash) : q.hash[i] = q.planned.hash[i]
        /\ q.at = 3 * Len(q.hash) /\ q.newline
        /\ Fresh(q) => Prefix(q.hash, text) /\ q.at <= Size(text)

\* The scan has parsed a prefix of the file, up to the end of a line or up to the
\* end of a text whose last line is not ended.
Scanned(q) ==
    LET text == disk[q.inode].text
        n == Len(q.hash)
    IN  /\ Prefix(q.hash, text) /\ q.state = FullParse(q.hash)
        /\ \/ q.at = 3 * n /\ (q.newline <=> n # 0) /\ q.at <= Size(text)
           \/ /\ q.at = 3 * n - 1 /\ n = Len(text.lines) /\ n # 0
              /\ text.tail = "open" /\ ~q.newline

\* The scan has parsed all of the text of the snapshot.
Covered(q) ==
    LET text == q.snapshot.text
    IN  /\ text.lines \in Beginnings /\ text.tail # "half"
        /\ q.hash = text.lines /\ q.state = FullParse(text.lines)
        /\ q.newline <=> text.tail = "whole" /\ text.lines # <<>>

\* What the report of a finished acquisition says.
Answers(q) ==
    LET text == q.snapshot.text
    IN  /\ text.lines \in Beginnings /\ text.tail # "half"
        /\ ~FullParse(text.lines).interrupted
        /\ q.report = Finished(FullParse(text.lines))

AcquirerInv(q) ==
    /\ DOMAIN q = DOMAIN Resting /\ StateOK(q.state)
    /\ q.step # "idle" => StampOK(q.snapshot)
    /\ q.step \in {"take", "append", "verify"} => Sealed(q.planned)
    /\ q.step = "take" => q.planned.checkpoint \/ q.planned.stamp = q.snapshot
    /\ q.step \in {"append", "verify"} =>
         q.planned.checkpoint /\ q.state = FullParse(q.planned.hash)
    /\ q.step \in {"verify", "read", "validate"} => q.inode \in Inodes /\ q.at \in Nat
    /\ q.step = "verify" => Verified(q)
    /\ q.step \in {"plan", "take", "append", "open"} => q.at = 0 /\ q.hash = <<>>
    /\ q.step \in {"plan", "take", "open"} => q.state = StartState /\ ~q.newline
    /\ q.step \in {"read", "validate"} => (Fresh(q) /\ ~q.state.interrupted => Scanned(q))
    /\ q.step = "write" => (~q.state.interrupted => Covered(q))
    /\ q.step = "save" => q.status # "complete"
    /\ q.step = "done" => (q.status = "complete" => Answers(q))

ShardInv == shard # None => Sealed(shard)

Inv ==
    /\ FileOK(Beginnings) /\ ShardInv
    /\ acquirer = [a \in Acquirers |-> acquirer[a]]
    /\ \A a \in Acquirers : AcquirerInv(acquirer[a])

-----------------------------------------------------------------------------
(* Changes of the file.                                                    *)

\* A change of the file leaves what acquisitions know true: one whose file has
\* changed knows nothing of it any more.
LEMMA ChangeKeeps ==
    ASSUME NEW q, AcquirerInv(q), FileOK(Beginnings), FileOK(Beginnings)', Advances
    PROVE  AcquirerInv(q)'
<1>1. q.step # "idle" => StampOK(q.snapshot)'
  BY StampKept DEF AcquirerInv
<1>2. ASSUME q.step # "idle", Fresh(q)'
      PROVE  Fresh(q) /\ disk'[q.inode] = disk[q.inode]
  <2>1. /\ q.inode \in Inodes /\ q.snapshot.mtime <= disk[q.inode].mtime
        /\ q.snapshot.mtime \in Nat /\ disk[q.inode].mtime \in Nat
    BY <1>2, FileTypes DEF AcquirerInv, StampOK, Fresh
  <2>2. disk'[q.inode].mtime = q.snapshot.mtime
    BY <1>2 DEF Fresh
  <2>3. disk'[q.inode] = disk[q.inode]
    BY <2>1, <2>2 DEF Advances
  <2> QED
    BY <1>2, <2>3 DEF Fresh
<1>3. q.step = "verify" => Verified(q)'
  BY <1>2 DEF AcquirerInv, Verified
<1>4. q.step \in {"read", "validate"} =>
        (Fresh(q)' /\ ~q.state.interrupted => Scanned(q)')
  BY <1>2 DEF AcquirerInv, Scanned
<1>5. q.inode \in Inodes => q.inode \in Inodes'
  BY DEF Advances, Inodes
<1> QED
  BY <1>1, <1>3, <1>4, <1>5 DEF AcquirerInv

\* What a client writes next begins one of its drafts.
LEMMA ChangeAdvances ==
    ASSUME FileOK(Beginnings), ChangeFile
    PROVE  Advances /\ FileOK(Beginnings)'
<1> DEFINE text == Current.text
           File == [text : [lines : Beginnings, tail : Tails], mtime : Nat]
<1>1. /\ text \in [lines : Beginnings, tail : Tails]
      /\ text.tail # "whole" => text.lines # <<>>
  BY FileTypes DEF FileOK, Current, Inodes
<1>2. CASE AppendLine
  <2>1. PICK more \in Extensions(text) : disk' = [disk EXCEPT ![path] = Changed(more)]
    BY <1>2 DEF AppendLine
  <2>2. path' = path
    BY <1>2 DEF AppendLine
  <2> HIDE DEF text
  <2>3. CASE text.tail = "whole"
    <3>1. PICK l \in Beginnings, t \in Tails :
            Len(l) > Len(text.lines) /\ more = [lines |-> l, tail |-> t]
      BY <2>1, <2>3 DEF Extensions
    <3>2. Len(text.lines) \in Nat /\ Len(<<>>) = 0
      BY <1>1, BeginningsAreLines, LenProperties
    <3>3. l # <<>>
      BY <3>1, <3>2
    <3>4. more \in [lines : Beginnings, tail : Tails] /\ more.lines # <<>>
      BY <3>1, <3>3
    <3> QED
      BY <2>1, <2>2, <3>4, PutAdvances
  <2>4. CASE text.tail # "whole"
    <3>1. PICK t \in {"open", "whole"} : more = [text EXCEPT !.tail = t]
      BY <2>1, <2>4 DEF Extensions
    <3>2. more \in [lines : Beginnings, tail : Tails] /\ more.lines # <<>>
      BY <1>1, <2>4, <3>1 DEF Tails
    <3> QED
      BY <2>1, <2>2, <3>2, PutAdvances
  <2> QED
    BY <2>3, <2>4
<1>3. CASE RewriteFile
  <2>1. PICK l \in Beginnings :
          LET written == Changed([lines |-> l, tail |-> "whole"])
          IN  \/ disk' = [disk EXCEPT ![path] = written] /\ path' = path
              \/ disk' = Append(disk, written) /\ path' = Len(disk')
    BY <1>3 DEF RewriteFile
  <2> DEFINE more == [lines |-> l, tail |-> "whole"]
  <2>2. more \in [lines : Beginnings, tail : Tails] /\ more.tail = "whole"
    BY DEF Tails
  <2>3. \/ disk' = [disk EXCEPT ![path] = Changed(more)] /\ path' = path
        \/ disk' = Append(disk, Changed(more)) /\ path' = Len(disk')
    BY <2>1
  <2> HIDE DEF more
  <2> QED
    BY <2>2, <2>3, PutAdvances
<1>4. CASE RestoreFile
  <2>1. disk' = disk /\ path' \in 1 .. path - 1
    BY <1>4 DEF RestoreFile
  <2>2. /\ Len(disk) \in Nat /\ Inodes = 1 .. Len(disk) /\ path \in 1 .. Len(disk)
    BY FileTypes
  <2>3. path' \in Inodes
    BY <2>1, <2>2
  <2> QED
    BY <2>1, <2>3 DEF Advances, FileOK, Inodes
<1> QED
  BY <1>2, <1>3, <1>4 DEF ChangeFile
\* A change of the file preserves the invariant.
LEMMA ChangeStep ==
    ASSUME Inv, Change
    PROVE  Inv'
<1>1. Advances /\ FileOK(Beginnings)'
  BY ChangeAdvances DEF Inv, Change
<1>2. shard' = shard /\ acquirer' = acquirer
  BY DEF Change
<1>3. ASSUME NEW a \in Acquirers
      PROVE  AcquirerInv(acquirer[a])'
  <2>1. PICK q : q = acquirer[a]
    OBVIOUS
  <2>2. AcquirerInv(q) /\ FileOK(Beginnings)
    BY <2>1 DEF Inv
  <2>3. AcquirerInv(q)'
    BY <1>1, <2>2, ChangeKeeps
  <2>4. acquirer'[a] = q
    BY <1>2, <2>1
  <2> QED
    BY <2>3, <2>4
<1> QED
  BY <1>1, <1>2, <1>3 DEF Inv, ShardInv, Sealed

-----------------------------------------------------------------------------
(* Steps of an acquisition.                                                *)

\* A step that leaves an acquisition as it should be, and the shard too, preserves
\* the invariant.
LEMMA SetKeeps ==
    ASSUME Inv, NEW a \in Acquirers, NEW q, AcquirerInv(q), Set(a, q),
           UNCHANGED <<disk, path>>, ShardInv'
    PROVE  Inv'
<1>1. FileOK(Beginnings)'
  BY DEF Inv, FileOK, Inodes
<1>2. ASSUME NEW b \in Acquirers
      PROVE  AcquirerInv(acquirer[b])'
  <2>1. PICK r : r = acquirer'[b]
    OBVIOUS
  <2>2. r = IF b = a THEN q ELSE acquirer[b]
    BY <2>1 DEF Inv, Set
  <2>3. AcquirerInv(r)
    BY <2>2 DEF Inv
  <2>4. AcquirerInv(r)'
    BY <2>3 DEF AcquirerInv, StampOK, Inodes, Verified, Scanned, Fresh
  <2> QED
    BY <2>1, <2>4
<1> QED
  BY <1>1, <1>2 DEF Inv, Set
\* An acquisition has the fields of a resting one.
LEMMA AcquirerFields ==
    /\ DOMAIN Resting = {"step", "snapshot", "planned", "inode", "at", "newline",
                         "hash", "state", "report", "status", "protected"}
    /\ Resting.state = StartState /\ StateOK(StartState)
    /\ Resting.step = "idle" /\ Resting.at = 0 /\ Resting.hash = <<>>
    /\ Resting.newline = FALSE
BY DEF Resting, StateOK, StateFields, StartState

\* A stamp of the file is one.
LEMMA StampNow ==
    ASSUME Inv
    PROVE  StampOK(Stamp)
BY FileTypes DEF Inv, StampOK, Stamp, Current, FileOK, Inodes

\* An acquisition has ended well, or without a claim to be complete.
LEMMA DoneInv ==
    ASSUME NEW q, StampOK(q.snapshot), q.status = "complete" => Answers(q)
    PROVE  AcquirerInv(Done(q))
<1> DEFINE r == Done(q)
<1>1. /\ DOMAIN r = DOMAIN Resting /\ r.step = "done" /\ r.state = StartState
      /\ r.snapshot = q.snapshot /\ r.report = q.report /\ r.status = q.status
  BY AcquirerFields DEF Done
<1> HIDE DEF r
<1>2. StateOK(r.state) /\ StampOK(r.snapshot) /\ (r.status = "complete" => Answers(r))
  BY <1>1, AcquirerFields DEF Answers
<1>3. AcquirerInv(r)
  BY <1>1, <1>2 DEF AcquirerInv
<1> QED
  BY <1>3 DEF r

\* An acquisition that parses anew knows nothing yet.
LEMMA ReparsedInv ==
    ASSUME Inv, NEW q
    PROVE  AcquirerInv(Reparsed(q))
<1> DEFINE r == Reparsed(q)
<1>1. /\ DOMAIN r = DOMAIN Resting /\ r.step = "open" /\ r.state = StartState
      /\ r.snapshot = Stamp /\ r.at = 0 /\ r.hash = <<>> /\ ~r.newline
  BY AcquirerFields DEF Reparsed
<1> HIDE DEF r
<1>2. StateOK(r.state) /\ StampOK(r.snapshot)
  BY <1>1, AcquirerFields, StampNow
<1>3. AcquirerInv(r)
  BY <1>1, <1>2 DEF AcquirerInv
<1> QED
  BY <1>3 DEF r

\* A shard as it was when its header was read.
LEMMA PlanStep ==
    ASSUME Inv, NEW a \in Acquirers, Begin(a) \/ Plan(a)
    PROVE  Inv'
<1> DEFINE q == acquirer[a]
<1>1. AcquirerInv(q) /\ DOMAIN q = DOMAIN Resting
  BY DEF Inv, AcquirerInv
<1>2. UNCHANGED <<disk, path>> /\ ShardInv'
  BY DEF Begin, Plan, World, Inv, ShardInv, Sealed
<1>3. CASE Begin(a)
  <2> DEFINE r == [Resting EXCEPT !.step = "plan", !.snapshot = Stamp]
  <2>1. /\ DOMAIN r = DOMAIN Resting /\ r.step = "plan" /\ r.state = StartState
        /\ r.snapshot = Stamp /\ r.at = 0 /\ r.hash = <<>> /\ ~r.newline
    BY AcquirerFields
  <2>2. Set(a, r)
    BY <1>3 DEF Begin
  <2> HIDE DEF r
  <2>3. StateOK(r.state) /\ StampOK(r.snapshot)
    BY <2>1, AcquirerFields, StampNow
  <2>4. AcquirerInv(r)
    BY <2>1, <2>3 DEF AcquirerInv
  <2> QED
    BY <1>2, <2>2, <2>4, SetKeeps
<1>4. CASE Plan(a)
  <2>1. q.step = "plan"
    BY <1>4 DEF Plan, At
  <2>2. CASE Exact(q) \/ Resumable(q)
    <3> DEFINE r == [q EXCEPT !.step = "take", !.planned = shard]
    <3>1. Set(a, r)
      BY <1>4, <2>2 DEF Plan
    <3>2. /\ DOMAIN r = DOMAIN Resting /\ r.step = "take" /\ r.state = q.state
          /\ r.snapshot = q.snapshot /\ r.planned = shard
          /\ r.at = q.at /\ r.hash = q.hash /\ r.newline = q.newline
      BY <1>1, AcquirerFields
    <3> HIDE DEF r
    <3>3. Sealed(r.planned) /\ (r.planned.checkpoint \/ r.planned.stamp = r.snapshot)
      BY <2>2, <3>2 DEF Inv, ShardInv, Exact, Resumable
    <3>4. AcquirerInv(r)
      BY <1>1, <2>1, <3>2, <3>3 DEF AcquirerInv
    <3> QED
      BY <1>2, <3>1, <3>4, SetKeeps
  <2>3. CASE ~(Exact(q) \/ Resumable(q))
    <3> DEFINE r == [q EXCEPT !.step = "open"]
    <3>1. Set(a, r)
      BY <1>4, <2>3 DEF Plan
    <3>2. /\ DOMAIN r = DOMAIN Resting /\ r.step = "open" /\ r.state = q.state
          /\ r.snapshot = q.snapshot /\ r.at = q.at /\ r.hash = q.hash
          /\ r.newline = q.newline
      BY <1>1, AcquirerFields
    <3> HIDE DEF r
    <3>3. AcquirerInv(r)
      BY <1>1, <2>1, <3>2 DEF AcquirerInv
    <3> QED
      BY <1>2, <3>1, <3>3, SetKeeps
  <2> QED
    BY <2>2, <2>3
<1> QED
  BY <1>3, <1>4
\* The records belong to the header that was read: a shard of the same stamp is the
\* same shard, whoever wrote it.
LEMMA TakeStep ==
    ASSUME Inv, NEW a \in Acquirers, TakeRecords(a)
    PROVE  Inv'
<1> DEFINE q == acquirer[a]
           sh == q.planned
<1>1. /\ AcquirerInv(q) /\ DOMAIN q = DOMAIN Resting /\ q.step = "take"
      /\ StampOK(q.snapshot) /\ Sealed(sh) /\ StateOK(q.state)
      /\ sh.checkpoint \/ sh.stamp = q.snapshot
      /\ q.at = 0 /\ q.hash = <<>>
  BY DEF Inv, AcquirerInv, TakeRecords, At
<1>2. UNCHANGED <<disk, path, shard>> /\ ShardInv'
  BY DEF TakeRecords, World, Inv, ShardInv, Sealed
<1> DEFINE answer(report) == Done([q EXCEPT !.report = report])
<1>3. ASSUME TakenOver(q)
      PROVE  /\ Sealed(shard) /\ shard.stamp = sh.stamp
             /\ (shard.checkpoint <=> sh.checkpoint)
  BY <1>1, <1>3 DEF TakenOver, Inv, ShardInv, Sealed
<1>4. ASSUME NEW report, sh.stamp = q.snapshot,
             report = Finished(FullParse(sh.stamp.text.lines))
      PROVE  AcquirerInv(answer(report))
  <2> DEFINE r == [q EXCEPT !.report = report]
  <2>1. r.snapshot = q.snapshot /\ r.report = report
    BY <1>1, AcquirerFields
  <2> HIDE DEF r
  <2>2. Answers(r)
    BY <1>1, <1>4, <2>1 DEF Answers, Sealed
  <2>3. AcquirerInv(Done(r))
    BY <1>1, <2>1, <2>2, DoneInv
  <2> QED
    BY <2>3 DEF r
<1>5. ASSUME TakenOver(q), sh.checkpoint
      PROVE  CheckpointState(q) = FullParse(sh.hash) /\ StateOK(CheckpointState(q))
  <2> DEFINE parse == FullParse(sh.hash)
  <2>1. sh.hash \in Seq(Line) /\ sh.hash = sh.stamp.text.lines
        /\ sh.state = parse /\ shard.state = parse
    BY <1>1, <1>3, <1>5, BeginningsAreLines DEF Sealed
  <2>2. StateOK(parse)
    BY <2>1, ParseState
  <2> HIDE DEF parse
  <2>3. [parse EXCEPT !.records = parse.records] = parse
    BY <2>2 DEF StateOK
  <2> QED
    BY <2>1, <2>2, <2>3 DEF CheckpointState, parse
<1>6. CASE TakenOver(q) /\ ~sh.checkpoint /\ Set(a, answer(shard.report))
  <2>1. shard.report = Finished(FullParse(sh.stamp.text.lines)) /\ sh.stamp = q.snapshot
    BY <1>1, <1>3, <1>6 DEF Sealed
  <2>2. AcquirerInv(answer(shard.report))
    BY <1>4, <2>1
  <2> QED
    BY <1>2, <1>6, <2>2, SetKeeps
<1>7. CASE /\ TakenOver(q) /\ sh.checkpoint /\ sh.stamp = q.snapshot
           /\ Set(a, answer(Finished(CheckpointState(q))))
  <2>1. sh.hash = sh.stamp.text.lines
    BY <1>1, <1>7 DEF Sealed
  <2>2. AcquirerInv(answer(Finished(CheckpointState(q))))
    BY <1>4, <1>5, <1>7, <2>1
  <2> QED
    BY <1>2, <1>7, <2>2, SetKeeps
<1>8. CASE /\ TakenOver(q) /\ sh.checkpoint
           /\ Set(a, [q EXCEPT !.step = "append", !.state = CheckpointState(q)])
  <2> DEFINE r == [q EXCEPT !.step = "append", !.state = CheckpointState(q)]
  <2>1. /\ DOMAIN r = DOMAIN Resting /\ r.step = "append" /\ r.state = CheckpointState(q)
        /\ r.snapshot = q.snapshot /\ r.planned = sh /\ r.at = 0 /\ r.hash = <<>>
    BY <1>1, AcquirerFields
  <2>2. Set(a, r)
    BY <1>8
  <2> HIDE DEF r
  <2>3. AcquirerInv(r)
    BY <1>1, <1>5, <1>8, <2>1 DEF AcquirerInv
  <2> QED
    BY <1>2, <2>2, <2>3, SetKeeps
<1>9. CASE \/ Set(a, Reparsed([q EXCEPT !.protected = shard = None]))
           \/ Set(a, Reparsed(q))
  BY <1>2, <1>9, ReparsedInv, SetKeeps
<1> QED
  BY <1>6, <1>7, <1>8, <1>9 DEF TakeRecords
\* An acquisition that could not read says so.
LEMMA UnavailableInv ==
    ASSUME NEW q, DOMAIN q = DOMAIN Resting, StampOK(q.snapshot)
    PROVE  AcquirerInv(Unavailable(q))
<1> DEFINE r == [q EXCEPT !.status = "unavailable"]
<1>1. r.snapshot = q.snapshot /\ r.status # "complete"
  BY AcquirerFields
<1> HIDE DEF r
<1>2. AcquirerInv(Done(r))
  BY <1>1, DoneInv
<1> QED
  BY <1>2 DEF Unavailable, r

\* A file on disk has lines and a size.
LEMMA FileSizes ==
    ASSUME Inv, NEW i \in Inodes
    PROVE  LET text == disk[i].text
           IN  /\ text.lines \in Seq(Line) /\ text.lines \in Beginnings
               /\ text.tail \in Tails /\ Len(text.lines) \in Nat
               /\ Size(text) \in Nat
               /\ text.tail = "whole" => Size(text) = 3 * Len(text.lines)
               /\ text.tail = "open" => Size(text) = 3 * Len(text.lines) - 1
               /\ text.tail = "half" => Size(text) = 3 * Len(text.lines) - 2
<1> DEFINE text == disk[i].text
<1>1. /\ text.lines \in Beginnings /\ text.tail \in Tails
      /\ text.tail # "whole" => text.lines # <<>>
  BY FileTypes DEF Inv, FileOK
<1>2. text.lines \in Seq(Line)
  BY <1>1, BeginningsAreLines
<1>3. Len(text.lines) \in Nat /\ (text.lines # <<>> => Len(text.lines) # 0)
  BY <1>2, LenProperties, EmptySeq
<1> HIDE DEF text
<1>4. /\ Size(text) \in Nat
      /\ text.tail = "whole" => Size(text) = 3 * Len(text.lines)
      /\ text.tail = "open" => Size(text) = 3 * Len(text.lines) - 1
      /\ text.tail = "half" => Size(text) = 3 * Len(text.lines) - 2
  BY <1>1, <1>3, Sizes
<1> QED
  BY <1>1, <1>2, <1>3, <1>4 DEF text

\* Nothing has been compared, or parsed, when the file has just been opened.
LEMMA OpenStep ==
    ASSUME Inv, NEW a \in Acquirers, OpenAppend(a) \/ OpenFull(a)
    PROVE  Inv'
<1> DEFINE q == acquirer[a]
<1>1. AcquirerInv(q) /\ DOMAIN q = DOMAIN Resting /\ StateOK(q.state)
  BY DEF Inv, AcquirerInv
<1>2. UNCHANGED <<disk, path, shard>> /\ ShardInv'
  BY DEF OpenAppend, OpenFull, World, Inv, ShardInv, Sealed
<1>3. /\ path \in Inodes /\ <<>> \in Seq(Line) /\ Len(<<>>) = 0
      /\ Len(disk[path].text.lines) \in Nat /\ Size(disk[path].text) \in Nat
  BY FileSizes DEF Inv, FileOK
<1>4. CASE OpenAppend(a)
  <2> DEFINE r == [q EXCEPT !.step = "verify", !.inode = path, !.newline = TRUE]
  <2>1. /\ q.step = "append" /\ StampOK(q.snapshot) /\ Sealed(q.planned)
        /\ q.planned.checkpoint /\ q.state = FullParse(q.planned.hash)
        /\ q.at = 0 /\ q.hash = <<>>
    BY <1>1, <1>4 DEF OpenAppend, At, AcquirerInv
  <2>2. /\ DOMAIN r = DOMAIN Resting /\ r.step = "verify" /\ r.state = q.state
        /\ r.snapshot = q.snapshot /\ r.planned = q.planned /\ r.at = 0
        /\ r.hash = <<>> /\ r.newline /\ r.inode = path
    BY <1>1, <2>1, AcquirerFields
  <2>3. Set(a, r)
    BY <1>4 DEF OpenAppend
  <2>4. Len(r.planned.hash) \in Nat
    BY <2>1, <2>2, BeginningsAreLines, LenProperties DEF Sealed
  <2> HIDE DEF r
  <2>5. Verified(r)
    BY <1>3, <2>2, <2>4 DEF Verified, Prefix
  <2>6. AcquirerInv(r)
    BY <1>1, <1>3, <2>1, <2>2, <2>5 DEF AcquirerInv
  <2> QED
    BY <1>2, <2>3, <2>6, SetKeeps
<1>5. CASE OpenFull(a)
  <2>1. /\ q.step = "open" /\ StampOK(q.snapshot) /\ q.state = StartState
        /\ q.at = 0 /\ q.hash = <<>> /\ ~q.newline
    BY <1>1, <1>5 DEF OpenFull, At, AcquirerInv
  <2> DEFINE r == [q EXCEPT !.step = "read", !.inode = path]
  <2>2. CASE Set(a, r)
    <3>1. /\ DOMAIN r = DOMAIN Resting /\ r.step = "read" /\ r.state = StartState
          /\ r.snapshot = q.snapshot /\ r.at = 0
          /\ r.hash = <<>> /\ ~r.newline /\ r.inode = path
      BY <1>1, <2>1, AcquirerFields
    <3> HIDE DEF r
    <3>2. Scanned(r)
      BY <1>3, <3>1, ParseNothing DEF Scanned, Prefix
    <3>3. AcquirerInv(r)
      BY <1>1, <1>3, <2>1, <3>1, <3>2 DEF AcquirerInv
    <3> QED
      BY <1>2, <2>2, <3>3, SetKeeps
  <2>3. CASE Set(a, Unavailable(q))
    BY <1>1, <1>2, <2>1, <2>3, UnavailableInv, SetKeeps
  <2> QED
    BY <1>5, <2>2, <2>3 DEF OpenFull
<1> QED
  BY <1>4, <1>5

\* The prefix is the text of the checkpoint, line by line.
LEMMA VerifyStep ==
    ASSUME Inv, NEW a \in Acquirers, VerifyPrefix(a)
    PROVE  Inv'
<1> DEFINE q == acquirer[a]
           sh == q.planned
           n == Len(q.hash) + 1
           text == disk[q.inode].text
<1>1. /\ AcquirerInv(q) /\ DOMAIN q = DOMAIN Resting /\ q.step = "verify"
      /\ StateOK(q.state) /\ StampOK(q.snapshot) /\ Sealed(sh) /\ sh.checkpoint
      /\ q.state = FullParse(sh.hash) /\ Verified(q)
      /\ q.inode \in Inodes /\ q.at \in Nat
  BY DEF Inv, AcquirerInv, VerifyPrefix, At
<1>2. UNCHANGED <<disk, path, shard>> /\ ShardInv'
  BY DEF VerifyPrefix, World, Inv, ShardInv, Sealed
<1>3. sh.hash \in Seq(Line) /\ Len(sh.hash) \in Nat /\ Len(sh.hash) # 0
  <2>1. sh.hash \in Seq(Line) /\ sh.hash # <<>>
    BY <1>1, BeginningsAreLines DEF Sealed
  <2> QED
    BY <2>1, LenProperties, EmptySeq
<1>4. /\ q.hash \in Seq(Line) /\ Len(q.hash) \in Nat /\ Len(q.hash) <= Len(sh.hash)
      /\ \A i \in 1 .. Len(q.hash) : q.hash[i] = sh.hash[i]
      /\ q.at = 3 * Len(q.hash) /\ q.newline
      /\ Fresh(q) => Prefix(q.hash, text) /\ q.at <= Size(text)
  BY <1>1, LenProperties DEF Verified
<1>5. CASE n > Len(sh.hash) /\ Set(a, [q EXCEPT !.step = "read"])
  <2> DEFINE r == [q EXCEPT !.step = "read"]
  <2>1. /\ DOMAIN r = DOMAIN Resting /\ r.step = "read" /\ r.state = q.state
        /\ r.snapshot = q.snapshot /\ r.at = q.at /\ r.hash = q.hash
        /\ r.newline = q.newline /\ r.inode = q.inode
    BY <1>1, AcquirerFields
  <2>2. Set(a, r)
    BY <1>5
  <2> HIDE DEF r
  <2>3. q.hash = sh.hash
    BY <1>3, <1>4, <1>5, SeqEqual
  <2>4. Fresh(r) => Scanned(r)
    BY <1>1, <1>3, <1>4, <2>1, <2>3 DEF Scanned, Fresh
  <2>5. AcquirerInv(r)
    BY <1>1, <2>1, <2>4 DEF AcquirerInv
  <2> QED
    BY <1>2, <2>2, <2>5, SetKeeps
<1>6. CASE /\ n <= Len(sh.hash) /\ PrefixContinues(q)
           /\ Set(a, [q EXCEPT !.hash = Append(@, sh.hash[n]), !.at = @ + 3])
  <2> DEFINE r == [q EXCEPT !.hash = Append(@, sh.hash[n]), !.at = @ + 3]
             more == Append(q.hash, sh.hash[n])
  <2>1. /\ DOMAIN r = DOMAIN Resting /\ r.step = "verify" /\ r.state = q.state
        /\ r.snapshot = q.snapshot /\ r.planned = sh /\ r.at = q.at + 3
        /\ r.hash = more /\ r.newline = q.newline /\ r.inode = q.inode
    BY <1>1, AcquirerFields
  <2>2. Set(a, r)
    BY <1>6
  <2> HIDE DEF r
  <2>3. sh.hash[n] \in Line
    BY <1>3, <1>4, <1>6, ElementOfSeq
  <2>4. /\ more \in Seq(Line) /\ Len(more) = n /\ more[n] = sh.hash[n]
        /\ \A i \in 1 .. Len(q.hash) : more[i] = q.hash[i]
    BY <1>4, <2>3, AppendProperties
  <2> HIDE DEF more
  <2>5. \A i \in 1 .. Len(more) : more[i] = sh.hash[i]
    BY <1>4, <2>4
  <2>6. ASSUME Fresh(q)
        PROVE  Prefix(more, text) /\ q.at + 3 <= Size(text)
    <3>1. q.inode \in Inodes
      BY <1>1, <2>6 DEF Fresh, StampOK
    <3>2. Len(text.lines) \in Nat /\ Size(text) \in Nat /\ Size(text) <= 3 * Len(text.lines)
      BY <3>1, FileSizes DEF Tails
    <3>3. q.at + 3 <= Size(text) /\ text.lines[n] = sh.hash[n]
      BY <1>6, <1>4, <3>2 DEF PrefixContinues
    <3>4. n <= Len(text.lines)
      <4> DEFINE read == Len(q.hash)
                 len == Len(text.lines)
                 size == Size(text)
      <4>1. read \in Nat /\ len \in Nat /\ size \in Nat
            /\ 3 * read + 3 <= size /\ size <= 3 * len
        BY <1>4, <3>2, <3>3
      <4> HIDE DEF read, len, size
      <4>2. read + 1 <= len
        BY <4>1
      <4> QED
        BY <4>2 DEF read, len
    <3>5. ASSUME NEW i \in 1 .. n
          PROVE  more[i] = text.lines[i]
      <4>1. CASE i = n
        BY <2>4, <3>3, <4>1
      <4>2. CASE i \in 1 .. Len(q.hash)
        <5>1. q.hash[i] = text.lines[i]
          BY <1>4, <2>6, <4>2 DEF Prefix
        <5> QED
          BY <2>4, <4>2, <5>1
      <4>3. PICK read \in Nat : read = Len(q.hash)
        BY <1>4
      <4>4. i \in 1 .. read + 1
        BY <4>3
      <4>5. i = read + 1 \/ i \in 1 .. read
        BY <4>4
      <4> QED
        BY <4>1, <4>2, <4>3, <4>5
    <3> QED
      BY <2>4, <3>3, <3>4, <3>5 DEF Prefix
  <2>7. Verified(r)
    BY <1>4, <1>6, <2>1, <2>4, <2>5, <2>6 DEF Verified, Fresh
  <2>8. AcquirerInv(r)
    BY <1>1, <2>1, <2>7 DEF AcquirerInv
  <2> QED
    BY <1>2, <2>2, <2>8, SetKeeps
<1>7. CASE Set(a, Reparsed(q))
  BY <1>2, <1>7, ReparsedInv, SetKeeps
<1>8. CASE Set(a, Unavailable(q))
  BY <1>1, <1>2, <1>8, UnavailableInv, SetKeeps
<1> QED
  BY <1>5, <1>6, <1>7, <1>8 DEF VerifyPrefix
\* What is read at the end of a line is the next line, and the position after it
\* tells how it ended.
LEMMA NextLine ==
    ASSUME Inv, NEW i \in Inodes, NEW at \in Nat, More(i, at)
    PROVE  LET text == disk[i].text
               next == ReadLine(i, at, Plain("malformed"), Plain("blank"))
           IN  /\ next.line \in Line /\ next.at \in Nat
               /\ \A n \in Nat : at = 3 * n =>
                    /\ at % 3 = 0 /\ n + 1 <= Len(text.lines)
                    /\ next.line = text.lines[n + 1] \/ next.line.kind = "malformed"
                    /\ \/ next.at = 3 * (n + 1) /\ next.newline
                          /\ 3 * (n + 1) <= Size(text)
                       \/ /\ next.at = 3 * (n + 1) - 1 /\ ~next.newline
                          /\ n + 1 = Len(text.lines) /\ text.tail = "open"
                       \/ next.line.kind = "malformed"
<1> DEFINE text == disk[i].text
           next == ReadLine(i, at, Plain("malformed"), Plain("blank"))
<1>1. /\ text.lines \in Seq(Line) /\ text.tail \in Tails /\ Len(text.lines) \in Nat
      /\ text.tail # "whole" => Len(text.lines) # 0
  <2>1. /\ text.lines \in Seq(Line) /\ text.tail \in Tails
        /\ text.tail # "whole" => text.lines # <<>>
    BY FileSizes, FileTypes DEF Inv, FileOK
  <2> HIDE DEF text
  <2> QED
    BY <2>1, LenProperties, EmptySeq
<1>2. /\ Plain("malformed") \in Line /\ Plain("malformed").kind = "malformed"
      /\ Plain("blank") \in Line
  BY DEF Plain, Line, LineKinds
<1>3. /\ next.at \in Nat
      /\ \/ next.line \in {Plain("malformed"), Plain("blank")}
         \/ \E n \in 1 .. Len(text.lines) : next.line = text.lines[n]
      /\ \A n \in Nat : at = 3 * n =>
           /\ at % 3 = 0 /\ n + 1 <= Len(text.lines)
           /\ next.line = text.lines[n + 1] \/ next.line = Plain("malformed")
           /\ \/ next.at = 3 * (n + 1) /\ next.newline
                 /\ 3 * (n + 1) <= Size(text)
              \/ /\ next.at = 3 * (n + 1) - 1 /\ ~next.newline
                 /\ n + 1 = Len(text.lines) /\ text.tail = "open"
              \/ next.line = Plain("malformed")
  BY <1>1, ReadNext
<1> HIDE DEF text, next
<1>4. next.line \in Line
  BY <1>1, <1>2, <1>3, ElementOfSeq
<1> QED
  BY <1>2, <1>3, <1>4 DEF text, next

\* A line further, or the end of the scan.
LEMMA ParseStep ==
    ASSUME Inv, NEW a \in Acquirers, ParseLine(a)
    PROVE  Inv'
<1> DEFINE q == acquirer[a]
           text == disk[q.inode].text
           next == ReadLine(q.inode, q.at, Plain("malformed"), Plain("blank"))
           parsed == ParsedLine(q.state, next.line)
<1>1. /\ AcquirerInv(q) /\ DOMAIN q = DOMAIN Resting /\ q.step = "read"
      /\ StateOK(q.state) /\ StampOK(q.snapshot) /\ q.inode \in Inodes /\ q.at \in Nat
      /\ Fresh(q) /\ ~q.state.interrupted => Scanned(q)
  BY DEF Inv, AcquirerInv, ParseLine, At
<1>2. UNCHANGED <<disk, path, shard>> /\ ShardInv'
  BY DEF ParseLine, World, Inv, ShardInv, Sealed
<1>3. CASE Set(a, [q EXCEPT !.step = "validate"])
  <2> DEFINE r == [q EXCEPT !.step = "validate"]
  <2>1. /\ DOMAIN r = DOMAIN Resting /\ r.step = "validate" /\ r.state = q.state
        /\ r.snapshot = q.snapshot /\ r.at = q.at /\ r.hash = q.hash
        /\ r.newline = q.newline /\ r.inode = q.inode
    BY <1>1, AcquirerFields
  <2>2. Set(a, r)
    BY <1>3
  <2> HIDE DEF r
  <2>3. Fresh(r) /\ ~r.state.interrupted => Scanned(r)
    BY <1>1, <2>1 DEF Fresh, Scanned
  <2>4. AcquirerInv(r)
    BY <1>1, <2>1, <2>3 DEF AcquirerInv
  <2> QED
    BY <1>2, <2>2, <2>4, SetKeeps
<1>4. CASE Set(a, [q EXCEPT !.step = "validate", !.state.interrupted = TRUE])
  <2> DEFINE state == [q.state EXCEPT !.interrupted = TRUE]
             r == [q EXCEPT !.step = "validate", !.state = state]
  <2>1. StateOK(state) /\ state.interrupted
    BY <1>1, StateExcept, Fields
  <2>2. Set(a, r)
    BY <1>1, <1>4
  <2> HIDE DEF state
  <2>3. /\ DOMAIN r = DOMAIN Resting /\ r.step = "validate" /\ r.state = state
        /\ r.snapshot = q.snapshot /\ r.at = q.at /\ r.inode = q.inode
    BY <1>1, AcquirerFields
  <2> HIDE DEF r
  <2>4. AcquirerInv(r)
    BY <1>1, <2>1, <2>3 DEF AcquirerInv
  <2> QED
    BY <1>2, <2>2, <2>4, SetKeeps
<1>5. CASE /\ More(q.inode, q.at)
           /\ Set(a, [q EXCEPT !.step = IF parsed.interrupted THEN "validate" ELSE "read",
                               !.state = parsed, !.at = next.at, !.newline = next.newline,
                               !.hash = IF q.at % 3 = 0 THEN Append(@, next.line) ELSE @])
  <2> DEFINE step == IF parsed.interrupted THEN "validate" ELSE "read"
             hash == IF q.at % 3 = 0 THEN Append(q.hash, next.line) ELSE q.hash
             r == [q EXCEPT !.step = step, !.state = parsed, !.at = next.at,
                            !.newline = next.newline, !.hash = hash]
  <2>1. Set(a, r)
    BY <1>5
  <2>2. /\ next.line \in Line /\ next.at \in Nat
        /\ \A n \in Nat : q.at = 3 * n =>
             /\ q.at % 3 = 0 /\ n + 1 <= Len(text.lines)
             /\ next.line = text.lines[n + 1] \/ next.line.kind = "malformed"
             /\ \/ next.at = 3 * (n + 1) /\ next.newline /\ 3 * (n + 1) <= Size(text)
                \/ /\ next.at = 3 * (n + 1) - 1 /\ ~next.newline
                   /\ n + 1 = Len(text.lines) /\ text.tail = "open"
                \/ next.line.kind = "malformed"
    BY <1>1, <1>5, NextLine
  <2> HIDE DEF next
  <2>3. /\ StateOK(parsed)
        /\ q.state.interrupted \/ next.line.kind = "malformed" => parsed.interrupted
    <3>1. next.line.kind \in LineKinds
      BY <2>2 DEF Line
    <3> QED
      BY <1>1, <3>1, ParsedLineState
  <2> HIDE DEF parsed
  <2>4. step \in {"validate", "read"}
    OBVIOUS
  <2> HIDE DEF step, hash
  <2>5. /\ DOMAIN r = DOMAIN Resting /\ r.step = step /\ r.state = parsed
        /\ r.snapshot = q.snapshot /\ r.at = next.at /\ r.hash = hash
        /\ r.newline = next.newline /\ r.inode = q.inode
    BY <1>1, AcquirerFields
  <2> HIDE DEF r
  <2>6. ASSUME Fresh(q), ~parsed.interrupted
        PROVE  Scanned(r)
    <3>1. Scanned(q) /\ next.line.kind # "malformed"
      BY <1>1, <2>3, <2>6
    <3>2. /\ text.lines \in Seq(Line) /\ Len(text.lines) \in Nat /\ Size(text) \in Nat
          /\ text.tail = "open" => Size(text) = 3 * Len(text.lines) - 1
      BY <1>1, FileSizes
    <3>3. PICK n \in Nat : n = Len(q.hash)
      BY <3>1, LenProperties DEF Scanned, Prefix
    <3>4. q.at = 3 * n
      <4>1. \/ q.at = 3 * n
            \/ q.at = 3 * n - 1 /\ n = Len(text.lines) /\ text.tail = "open"
        BY <3>1, <3>3 DEF Scanned
      <4>2. PICK size \in Nat : size = Size(text)
        BY <3>2
      <4>3. size > q.at
        BY <1>5, <4>2 DEF More
      <4>4. text.tail = "open" /\ n = Len(text.lines) => size = 3 * n - 1
        BY <3>2, <4>2
      <4> QED
        BY <4>1, <4>3, <4>4
    <3>5. /\ q.at % 3 = 0 /\ n + 1 <= Len(text.lines) /\ next.line = text.lines[n + 1]
          /\ \/ next.at = 3 * (n + 1) /\ next.newline /\ 3 * (n + 1) <= Size(text)
             \/ /\ next.at = 3 * (n + 1) - 1 /\ ~next.newline
                /\ n + 1 = Len(text.lines) /\ text.tail = "open"
      BY <2>2, <3>1, <3>4
    <3>6. q.hash \in Seq(Line) /\ \A i \in 1 .. n : q.hash[i] = text.lines[i]
      BY <3>1, <3>3 DEF Scanned, Prefix
    <3>7. /\ hash = Append(q.hash, next.line) /\ hash \in Seq(Line) /\ Len(hash) = n + 1
          /\ hash[n + 1] = next.line /\ \A i \in 1 .. n : hash[i] = q.hash[i]
      <4>1. hash = Append(q.hash, next.line)
        BY <3>5 DEF hash
      <4>2. /\ hash \in Seq(Line) /\ Len(hash) = Len(q.hash) + 1
            /\ hash[Len(q.hash) + 1] = next.line
            /\ \A i \in 1 .. Len(q.hash) : hash[i] = q.hash[i]
        BY <2>2, <3>6, <4>1, AppendProperties
      <4> QED
        BY <3>3, <4>1, <4>2
    <3>8. parsed = FullParse(hash)
      <4>1. q.state = FullParse(q.hash)
        BY <3>1 DEF Scanned
      <4> QED
        BY <2>2, <3>6, <3>7, <4>1, ParseNext DEF parsed
    <3>9. ASSUME NEW i \in 1 .. n + 1
          PROVE  hash[i] = text.lines[i]
      <4>1. i = n + 1 \/ i \in 1 .. n
        OBVIOUS
      <4> QED
        BY <3>5, <3>6, <3>7, <4>1
    <3>10. Prefix(hash, text)
      BY <3>5, <3>7, <3>9 DEF Prefix
    <3>11. /\ r.state = FullParse(r.hash) /\ Len(r.hash) = n + 1
           /\ Prefix(r.hash, disk[r.inode].text) /\ n + 1 # 0
      BY <2>5, <3>7, <3>8, <3>10
    <3>12. \/ /\ r.at = 3 * (n + 1) /\ r.newline /\ r.at <= Size(disk[r.inode].text)
           \/ /\ r.at = 3 * (n + 1) - 1 /\ n + 1 = Len(disk[r.inode].text.lines)
              /\ disk[r.inode].text.tail = "open" /\ ~r.newline
      BY <2>5, <3>5
    <3> QED
      BY <3>11, <3>12 DEF Scanned
  <2>7. AcquirerInv(r)
    BY <1>1, <2>2, <2>3, <2>4, <2>5, <2>6 DEF AcquirerInv, Fresh
  <2> QED
    BY <1>2, <2>1, <2>7, SetKeeps
<1> QED
  BY <1>3, <1>4, <1>5 DEF ParseLine
\* A scan to the size of the snapshot, of the inode of the snapshot, with the stamp
\* unchanged, has parsed the text of the snapshot.
LEMMA UnchangedCovers ==
    ASSUME Inv, NEW q, StampOK(q.snapshot), q.inode \in Inodes, Unchanged(q),
           ~q.state.interrupted, Fresh(q) => Scanned(q)
    PROVE  Covered(q)
<1> DEFINE text == disk[q.inode].text
<1>1. q.snapshot.text = text /\ Fresh(q)
  BY DEF Unchanged, Stamp, Current, Fresh
<1>2. /\ text.lines \in Seq(Line) /\ text.lines \in Beginnings
      /\ text.tail \in Tails /\ Len(text.lines) \in Nat
      /\ text.tail = "whole" => Size(text) = 3 * Len(text.lines)
      /\ text.tail = "open" => Size(text) = 3 * Len(text.lines) - 1
      /\ text.tail = "half" => Size(text) = 3 * Len(text.lines) - 2
  BY FileSizes
<1>3. q.at = Size(text)
  BY <1>1 DEF Unchanged
<1>4. /\ q.hash \in Seq(Line) /\ q.state = FullParse(q.hash)
      /\ \A i \in 1 .. Len(q.hash) : q.hash[i] = text.lines[i]
      /\ \/ q.at = 3 * Len(q.hash) /\ (q.newline <=> Len(q.hash) # 0)
         \/ /\ q.at = 3 * Len(q.hash) - 1 /\ Len(q.hash) = Len(text.lines)
            /\ text.tail = "open" /\ ~q.newline
  BY <1>1 DEF Scanned, Prefix
<1>5. PICK n \in Nat, len \in Nat : n = Len(q.hash) /\ len = Len(text.lines)
  BY <1>2, <1>4, LenProperties
<1> HIDE DEF text
<1>6. /\ n = len /\ text.tail # "half"
      /\ text.tail = "whole" => (q.newline <=> n # 0)
      /\ text.tail = "open" => ~q.newline
  <2>1. CASE q.at = 3 * n /\ (q.newline <=> n # 0)
    <3>1. text.tail = "whole" /\ n = len
      BY <1>2, <1>3, <1>5, <2>1 DEF Tails
    <3> QED
      BY <2>1, <3>1
  <2>2. CASE n = len /\ text.tail = "open" /\ ~q.newline
    BY <2>2
  <2> QED
    BY <1>4, <1>5, <2>1, <2>2
<1>7. q.hash = text.lines
  BY <1>2, <1>4, <1>5, <1>6, SeqEqual
<1>8. n # 0 <=> text.lines # <<>>
  BY <1>2, <1>5, <1>6, EmptySeq
<1> QED
  BY <1>1, <1>2, <1>4, <1>6, <1>7, <1>8 DEF Covered, Tails

\* Only a scan of the text of the snapshot is not partial.
LEMMA ValidateStep ==
    ASSUME Inv, NEW a \in Acquirers, Validate(a)
    PROVE  Inv'
<1> DEFINE q == acquirer[a]
           agrees == [q EXCEPT !.step = "write"]
           state == [q.state EXCEPT !.interrupted = TRUE]
           partial == [agrees EXCEPT !.state = state]
<1>1. /\ AcquirerInv(q) /\ DOMAIN q = DOMAIN Resting /\ q.step = "validate"
      /\ StateOK(q.state) /\ StampOK(q.snapshot) /\ q.inode \in Inodes
      /\ Fresh(q) /\ ~q.state.interrupted => Scanned(q)
  BY DEF Inv, AcquirerInv, Validate, At
<1>2. UNCHANGED <<disk, path, shard>> /\ ShardInv'
  BY DEF Validate, World, Inv, ShardInv, Sealed
<1>3. /\ DOMAIN agrees = DOMAIN Resting /\ agrees.step = "write" /\ agrees.state = q.state
      /\ agrees.snapshot = q.snapshot /\ agrees.hash = q.hash /\ agrees.newline = q.newline
  BY <1>1, AcquirerFields
<1>4. \/ Unchanged(q) /\ Set(a, agrees)
      \/ Set(a, partial)
  BY <1>3 DEF Validate
<1>5. StateOK(state) /\ state.interrupted
  BY <1>1, StateExcept, Fields
<1> HIDE DEF agrees, state
<1>6. CASE Unchanged(q) /\ Set(a, agrees)
  <2>1. ~q.state.interrupted => Covered(q)
    BY <1>1, <1>6, UnchangedCovers
  <2>2. ~agrees.state.interrupted => Covered(agrees)
    BY <1>3, <2>1 DEF Covered
  <2>3. AcquirerInv(agrees)
    BY <1>1, <1>3, <2>2 DEF AcquirerInv
  <2> QED
    BY <1>2, <1>6, <2>3, SetKeeps
<1>7. CASE Set(a, partial)
  <2>1. /\ DOMAIN partial = DOMAIN Resting /\ partial.step = "write"
        /\ partial.state = state /\ partial.snapshot = q.snapshot
    BY <1>3, AcquirerFields
  <2> HIDE DEF partial
  <2>2. AcquirerInv(partial)
    BY <1>1, <1>5, <2>1 DEF AcquirerInv
  <2> QED
    BY <1>2, <1>7, <2>2, SetKeeps
<1> QED
  BY <1>4, <1>6, <1>7

\* What is written is sealed, and what is answered is a full parse.
LEMMA WriteStep ==
    ASSUME Inv, NEW a \in Acquirers, WriteShard(a)
    PROVE  Inv'
<1> DEFINE q == acquirer[a]
           settled == Settled(q)
<1>1. /\ AcquirerInv(q) /\ DOMAIN q = DOMAIN Resting
      /\ StampOK(q.snapshot) /\ (~q.state.interrupted => Covered(q))
  BY DEF Inv, AcquirerInv, WriteShard, At
<1>2. UNCHANGED <<disk, path>>
  BY DEF WriteShard, World
<1>3. /\ DOMAIN settled = DOMAIN Resting /\ settled.snapshot = q.snapshot
      /\ settled.report = Finished(q.state) /\ settled.state = q.state
      /\ settled.status = IF q.state.interrupted THEN "partial" ELSE "complete"
  BY <1>1, AcquirerFields DEF Settled
<1>4. /\ \/ ~q.state.interrupted /\ shard' = NewShard(q)
         \/ shard' = shard
      /\ \/ Set(a, Done(settled))
         \/ q.state.interrupted /\ Set(a, [settled EXCEPT !.step = "save"])
  BY DEF WriteShard
<1> HIDE DEF settled
<1>5. ShardInv'
  <2>1. CASE ~q.state.interrupted /\ shard' = NewShard(q)
    <3> DEFINE sh == NewShard(q)
    <3>1. Covered(q)
      BY <1>1, <2>1
    <3>2. /\ sh.stamp = q.snapshot /\ (sh.checkpoint <=> q.newline)
          /\ q.newline => sh.state = q.state /\ sh.hash = q.hash
          /\ ~q.newline => sh.report = Finished(q.state)
      BY DEF NewShard
    <3> HIDE DEF sh
    <3>3. Sealed(sh)
      BY <2>1, <3>1, <3>2 DEF Sealed, Covered
    <3>4. shard' = sh
      BY <2>1 DEF sh
    <3> QED
      BY <3>3, <3>4 DEF ShardInv, Sealed
  <2>2. CASE shard' = shard
    BY <2>2 DEF Inv, ShardInv, Sealed
  <2> QED
    BY <1>4, <2>1, <2>2
<1>6. CASE Set(a, Done(settled))
  <2>1. settled.status = "complete" => Answers(settled)
    BY <1>1, <1>3 DEF Answers, Covered
  <2>2. AcquirerInv(Done(settled))
    BY <1>1, <1>3, <2>1, DoneInv
  <2> QED
    BY <1>2, <1>5, <1>6, <2>2, SetKeeps
<1>7. CASE q.state.interrupted /\ Set(a, [settled EXCEPT !.step = "save"])
  <2> DEFINE r == [settled EXCEPT !.step = "save"]
  <2>1. /\ DOMAIN r = DOMAIN Resting /\ r.step = "save" /\ r.state = q.state
        /\ r.snapshot = q.snapshot /\ r.status # "complete"
    BY <1>3, <1>7, AcquirerFields
  <2>2. Set(a, r)
    BY <1>7
  <2> HIDE DEF r
  <2>3. StateOK(q.state)
    BY <1>1 DEF AcquirerInv
  <2>4. AcquirerInv(r)
    BY <1>1, <2>1, <2>3 DEF AcquirerInv
  <2> QED
    BY <1>2, <1>5, <2>2, <2>4, SetKeeps
<1> QED
  BY <1>4, <1>6, <1>7

\* A condemned shard is gone, and its acquisition is not complete.
LEMMA UnlinkStep ==
    ASSUME Inv, NEW a \in Acquirers, Unlink(a)
    PROVE  Inv'
<1> DEFINE q == acquirer[a]
<1>1. StampOK(q.snapshot) /\ q.status # "complete"
  BY DEF Inv, AcquirerInv, Unlink, At
<1>2. AcquirerInv(Done(q))
  BY <1>1, DoneInv
<1>3. UNCHANGED <<disk, path>> /\ ShardInv' /\ Set(a, Done(q))
  BY DEF Unlink, World, ShardInv
<1> QED
  BY <1>2, <1>3, SetKeeps

-----------------------------------------------------------------------------
(* Messages that are written several times.                                *)

RecordKeys ==
    {None} \cup {<<x.key, part>> : x \in Lines, part \in {"message", "advisor"}}
Sides == {None, "main", "sidechain"}
Record == [key : RecordKeys, usage : Usage, turn : BOOLEAN, side : Sides]
Typed(s) == s.records \in Seq(Record) /\ s.pending \in BOOLEAN /\ s.side \in Sides

\* A usage is what some copies declare, said without a choice: the largest output,
\* and the largest input, among those that split it if there are any.
Declares(d, seen) ==
    /\ d.split <=> \E u \in seen : u.split
    /\ \A u \in seen : u.output <= d.output
    /\ \E u \in seen : u.output = d.output
    /\ \A u \in seen : (d.split => u.split) => u.input <= d.input
    /\ \E u \in seen : (d.split => u.split) /\ u.input = d.input

\* The records count some copies once: no record has their key, or exactly one.
Tally(records, key, seen) ==
    IF seen = {} THEN \A n \in 1 .. Len(records) : records[n].key # key
    ELSE \E i \in 1 .. Len(records) :
           /\ \A n \in 1 .. Len(records) : records[n].key = key <=> n = i
           /\ Declares(records[i].usage, seen)

\* The largest of some numbers, where there is one.
LEMMA LargestIs ==
    ASSUME NEW set \in SUBSET Nat, NEW n \in set, \A m \in set : m <= n
    PROVE  (CHOOSE k \in set : \A m \in set : m <= k) = n
<1> DEFINE k == CHOOSE k \in set : \A m \in set : m <= k
<1>1. k \in set /\ \A m \in set : m <= k
  OBVIOUS
<1> HIDE DEF k
<1>2. k <= n /\ n <= k /\ k \in Nat /\ n \in Nat
  BY <1>1
<1>3. k = n
  BY <1>2
<1> QED
  BY <1>3 DEF k

\* What declares some copies is what they declare.
LEMMA DeclaredIs ==
    ASSUME NEW seen \in SUBSET Usage, NEW d \in Usage, Declares(d, seen)
    PROVE  Declared(seen) = d
<1> DEFINE split == {u \in seen : u.split}
           inputs == IF split = {} THEN seen ELSE split
           Biggest(set) == CHOOSE n \in set : \A m \in set : m <= n
<1>1. \A u \in Usage : u.input \in Nat /\ u.output \in Nat /\ u.split \in BOOLEAN
  BY DEF Usage
<1>2. d.split <=> split # {}
  BY DEF Declares
<1>3. \A u : u \in inputs <=> u \in seen /\ (d.split => u.split)
  BY <1>1, <1>2
<1> HIDE DEF split, inputs
<1>4. Biggest({u.input : u \in inputs}) = d.input
  <2>1. {u.input : u \in inputs} \subseteq Nat /\ d.input \in {u.input : u \in inputs}
    BY <1>1, <1>3 DEF Declares
  <2>2. \A m \in {u.input : u \in inputs} : m <= d.input
    BY <1>3 DEF Declares
  <2> QED
    BY <2>1, <2>2, LargestIs
<1>5. Biggest({u.output : u \in seen}) = d.output
  <2>1. {u.output : u \in seen} \subseteq Nat /\ d.output \in {u.output : u \in seen}
    BY <1>1 DEF Declares
  <2>2. \A m \in {u.output : u \in seen} : m <= d.output
    BY DEF Declares
  <2> QED
    BY <2>1, <2>2, LargestIs
<1>6. Declared(seen) = [input |-> Biggest({u.input : u \in inputs}), split |-> split # {},
                        output |-> Biggest({u.output : u \in seen})]
  BY DEF Declared, split, inputs
<1> HIDE DEF Biggest
<1>7. d = [input |-> d.input, split |-> d.split, output |-> d.output]
  BY DEF Usage
<1>8. d.split = (split # {})
  BY <1>1, <1>2
<1> QED
  BY <1>4, <1>5, <1>6, <1>7, <1>8

\* The first copy declares itself.
LEMMA DeclaresFirst ==
    ASSUME NEW u \in Usage
    PROVE  Declares(u, {u})
<1>1. u.input \in Nat /\ u.output \in Nat /\ u.split \in BOOLEAN
  BY DEF Usage
<1> QED
  BY <1>1 DEF Declares

\* Merging in another copy declares them all, whatever order they came in.
LEMMA DeclaresMerged ==
    ASSUME NEW seen \in SUBSET Usage, NEW d \in Usage, Declares(d, seen), NEW u \in Usage
    PROVE  MergedUsage(d, u) \in Usage /\ Declares(MergedUsage(d, u), seen \cup {u})
<1> DEFINE e == MergedUsage(d, u)
           all == seen \cup {u}
<1>1. \A v \in Usage : v.input \in Nat /\ v.output \in Nat /\ v.split \in BOOLEAN
  BY DEF Usage
<1>2. /\ e.input = MergedInput(d, u) /\ e.split = (d.split \/ u.split)
      /\ e.output = IF d.output >= u.output THEN d.output ELSE u.output
  BY DEF MergedUsage
<1>3. /\ u.split /\ ~d.split => MergedInput(d, u) = u.input
      /\ d.split /\ ~u.split => MergedInput(d, u) = d.input
      /\ (d.split <=> u.split) =>
           MergedInput(d, u) = IF d.input >= u.input THEN d.input ELSE u.input
  BY DEF MergedInput
<1>4. e.input \in Nat /\ e.output \in Nat /\ e.split \in BOOLEAN
  BY <1>1, <1>2, <1>3
<1>5. e \in Usage
  BY <1>1, <1>2, <1>3, <1>4 DEF MergedUsage, Usage
<1> HIDE DEF e
<1>6. e.split <=> \E v \in all : v.split
  BY <1>2 DEF Declares
<1>7. \A v \in all : v.output <= e.output
  BY <1>1, <1>2, <1>4 DEF Declares
<1>8. \E v \in all : v.output = e.output
  BY <1>1, <1>2 DEF Declares
<1>9. \A v \in all : (e.split => v.split) => v.input <= e.input
  <2> SUFFICES ASSUME NEW v \in all, e.split => v.split PROVE v.input <= e.input
    OBVIOUS
  <2>1. CASE v = u
    BY <1>1, <1>2, <1>3, <2>1
  <2>2. CASE v \in seen
    <3>1. d.split => v.split
      BY <1>2, <1>1
    <3>2. v.input <= d.input
      BY <2>2, <3>1 DEF Declares
    <3>3. v \in Usage /\ (v.split => d.split)
      BY <2>2 DEF Declares
    <3> QED
      BY <1>1, <1>2, <1>3, <3>2, <3>3
  <2> QED
    BY <2>1, <2>2
<1>10. \E v \in all : (e.split => v.split) /\ v.input = e.input
  <2>1. PICK w \in seen : (d.split => w.split) /\ w.input = d.input
    BY DEF Declares
  <2>2. w.split => d.split
    BY DEF Declares
  <2>3. CASE e.input = u.input /\ (e.split => u.split)
    BY <2>3
  <2>4. CASE e.input = d.input /\ (e.split => d.split)
    BY <2>1, <2>4
  <2> QED
    BY <1>1, <1>2, <1>3, <2>3, <2>4
<1> QED
  BY <1>5, <1>6, <1>7, <1>8, <1>9, <1>10 DEF Declares, e

\* processed_hashes finds a record of a key, if there is one.
LEMMA IndexIs ==
    ASSUME NEW records \in Seq(Record), NEW key, key # None
    PROVE  LET at == IndexOf(records, key)
           IN  \/ at = 0 /\ \A n \in 1 .. Len(records) : records[n].key # key
               \/ at \in 1 .. Len(records) /\ records[at].key = key
<1> DEFINE found == {n \in 1 .. Len(records) : key # None /\ records[n].key = key}
<1>1. Len(records) \in Nat
  BY LenProperties
<1>2. CASE found = {}
  <2>1. IndexOf(records, key) = 0
    BY <1>2 DEF IndexOf, SelectInSeq
  <2> QED
    BY <1>2, <2>1
<1>3. CASE found # {}
  <2>1. IndexOf(records, key) = CHOOSE n \in found : \A m \in found : n <= m
    BY <1>3 DEF IndexOf, SelectInSeq, Min
  <2>2. found \in SUBSET Nat
    BY <1>1
  <2>3. IndexOf(records, key) \in found
    BY <1>3, <2>1, <2>2, Least
  <2> QED
    BY <2>3
<1> QED
  BY <1>2, <1>3

\* An observation makes a record of its key or adds to the one there is, and leaves
\* the others alone.
LEMMA ObservedRecords ==
    ASSUME NEW records \in Seq(Record), NEW key \in RecordKeys, NEW usage \in Usage,
           NEW turn \in BOOLEAN, NEW side \in Sides
    PROVE  LET next == Observed(records, key, usage, turn, side)
               at == IndexOf(records, key)
           IN  /\ next \in Seq(Record)
               /\ \/ /\ key # None /\ at \in 1 .. Len(records) /\ records[at].key = key
                     /\ Len(next) = Len(records)
                     /\ \A n \in 1 .. Len(records) : next[n].key = records[n].key
                     /\ \A n \in 1 .. Len(records) \ {at} : next[n] = records[n]
                     /\ next[at].usage = MergedUsage(records[at].usage, usage)
                  \/ /\ key # None => \A n \in 1 .. Len(records) : records[n].key # key
                     /\ Len(next) = Len(records) + 1
                     /\ \A n \in 1 .. Len(records) : next[n] = records[n]
                     /\ next[Len(next)].key = key /\ next[Len(next)].usage = usage
<1> DEFINE next == Observed(records, key, usage, turn, side)
           at == IndexOf(records, key)
           added == [key |-> key, usage |-> usage, turn |-> turn, side |-> side]
<1>1. Len(records) \in Nat /\ \A n \in 1 .. Len(records) : records[n] \in Record
  BY LenProperties, ElementOfSeq
<1>2. key = None => at = 0
  BY DEF IndexOf, SelectInSeq
<1>3. key # None => \/ at = 0 /\ \A n \in 1 .. Len(records) : records[n].key # key
                    \/ at \in 1 .. Len(records) /\ records[at].key = key
  BY IndexIs
<1>4. next = IF at # 0 THEN [records EXCEPT ![at].usage = MergedUsage(@, usage)]
             ELSE Append(records, added)
  BY DEF Observed
<1> HIDE DEF next, at
<1>5. CASE key # None /\ at \in 1 .. Len(records) /\ records[at].key = key
  <2> DEFINE old == records[at]
             new == [old EXCEPT !.usage = MergedUsage(@, usage)]
  <2>1. old \in Record
    BY <1>1, <1>5
  <2>2. old.usage \in Usage /\ MergedUsage(old.usage, usage) \in Usage
    <3>1. old.usage \in Usage
      BY <2>1 DEF Record
    <3>2. Declares(old.usage, {old.usage})
      BY <3>1, DeclaresFirst
    <3> QED
      BY <3>1, <3>2, DeclaresMerged
  <2>3. /\ new \in Record /\ new.key = old.key
        /\ new.usage = MergedUsage(old.usage, usage)
    BY <2>1, <2>2 DEF Record
  <2>4. next = [records EXCEPT ![at] = new]
    BY <1>1, <1>4, <1>5
  <2> HIDE DEF old, new
  <2>5. next \in Seq(Record) /\ Len(next) = Len(records)
    BY <1>5, <2>3, <2>4, ExceptSeq
  <2>6. next[at] = new /\ \A n \in 1 .. Len(records) \ {at} : next[n] = records[n]
    BY <1>1, <1>5, <2>4
  <2>7. \A n \in 1 .. Len(records) : next[n].key = records[n].key
    BY <2>3, <2>6 DEF old
  <2> QED
    BY <1>5, <2>3, <2>5, <2>6, <2>7 DEF old, next, at
<1>6. CASE at = 0
  <2>1. added \in Record /\ added.key = key /\ added.usage = usage
    BY DEF Record
  <2>2. next = Append(records, added)
    BY <1>4, <1>6
  <2> HIDE DEF added
  <2>3. /\ next \in Seq(Record) /\ Len(next) = Len(records) + 1
        /\ \A n \in 1 .. Len(records) : next[n] = records[n]
        /\ next[Len(records) + 1] = added
    BY <1>1, <2>1, <2>2, AppendProperties
  <2>4. key # None => \A n \in 1 .. Len(records) : records[n].key # key
    BY <1>3, <1>6, <1>1
  <2> QED
    BY <2>1, <2>3, <2>4 DEF next, at
<1> QED
  BY <1>2, <1>3, <1>5, <1>6

\* What the records count after an observation.
LEMMA ObservedTally ==
    ASSUME NEW records \in Seq(Record), NEW key \in RecordKeys, NEW usage \in Usage,
           NEW turn \in BOOLEAN, NEW side \in Sides,
           NEW other, other # None, NEW seen \in SUBSET Usage, Tally(records, other, seen)
    PROVE  Tally(Observed(records, key, usage, turn, side), other,
                 IF other = key THEN seen \cup {usage} ELSE seen)
<1> DEFINE at == IndexOf(records, key)
<1>1. PICK next : next = Observed(records, key, usage, turn, side)
  OBVIOUS
<1>2. /\ Len(records) \in Nat
      /\ \A n \in 1 .. Len(records) : records[n].usage \in Usage
  <2>1. \A r \in Record : r.usage \in Usage
    BY DEF Record
  <2> QED
    BY <2>1, LenProperties, ElementOfSeq
<1>3. \/ /\ key # None /\ at \in 1 .. Len(records) /\ records[at].key = key
         /\ Len(next) = Len(records)
         /\ \A n \in 1 .. Len(records) : next[n].key = records[n].key
         /\ \A n \in 1 .. Len(records) \ {at} : next[n] = records[n]
         /\ next[at].usage = MergedUsage(records[at].usage, usage)
      \/ /\ key # None => \A n \in 1 .. Len(records) : records[n].key # key
         /\ Len(next) = Len(records) + 1
         /\ \A n \in 1 .. Len(records) : next[n] = records[n]
         /\ next[Len(next)].key = key /\ next[Len(next)].usage = usage
  BY <1>1, ObservedRecords
<1> HIDE DEF at
<1>4. CASE /\ key # None /\ at \in 1 .. Len(records) /\ records[at].key = key
           /\ Len(next) = Len(records)
           /\ \A n \in 1 .. Len(records) : next[n].key = records[n].key
           /\ \A n \in 1 .. Len(records) \ {at} : next[n] = records[n]
           /\ next[at].usage = MergedUsage(records[at].usage, usage)
  <2>1. CASE seen = {}
    <3>1. \A n \in 1 .. Len(next) : next[n].key # other
      BY <1>4, <2>1 DEF Tally
    <3>2. other # key
      BY <1>4, <2>1 DEF Tally
    <3> QED
      BY <1>1, <2>1, <3>1, <3>2 DEF Tally
  <2>2. CASE seen # {}
    <3>1. PICK i \in 1 .. Len(records) :
            /\ \A n \in 1 .. Len(records) : records[n].key = other <=> n = i
            /\ Declares(records[i].usage, seen)
      BY <2>2 DEF Tally
    <3>2. \A n \in 1 .. Len(next) : next[n].key = other <=> n = i
      BY <1>4, <3>1
    <3>3. CASE other = key
      <4>1. i = at /\ records[i].usage \in Usage
        BY <1>2, <1>4, <3>1, <3>3
      <4>2. Declares(next[i].usage, seen \cup {usage})
        BY <1>4, <3>1, <4>1, DeclaresMerged
      <4>3. Tally(next, other, seen \cup {usage})
        BY <1>4, <3>2, <4>2 DEF Tally
      <4> QED
        BY <1>1, <3>3, <4>3
    <3>4. CASE other # key
      <4>1. i # at
        BY <1>4, <3>1, <3>4
      <4>2. Declares(next[i].usage, seen)
        BY <1>4, <3>1, <4>1
      <4>3. Tally(next, other, seen)
        BY <1>4, <2>2, <3>2, <4>2 DEF Tally
      <4> QED
        BY <1>1, <3>4, <4>3
    <3> QED
      BY <3>3, <3>4
  <2> QED
    BY <2>1, <2>2
<1>5. CASE /\ key # None => \A n \in 1 .. Len(records) : records[n].key # key
           /\ Len(next) = Len(records) + 1
           /\ \A n \in 1 .. Len(records) : next[n] = records[n]
           /\ next[Len(next)].key = key /\ next[Len(next)].usage = usage
  <2>1. \A n \in 1 .. Len(next) : n = Len(next) \/ n \in 1 .. Len(records)
    BY <1>2, <1>5
  <2>2. CASE other = key
    <3>1. seen = {}
      BY <1>5, <2>2 DEF Tally
    <3>2. \A n \in 1 .. Len(next) : next[n].key = other <=> n = Len(next)
      BY <1>2, <1>5, <2>1, <2>2
    <3>3. Len(next) \in 1 .. Len(next) /\ Declares(next[Len(next)].usage, {usage})
      BY <1>2, <1>5, DeclaresFirst
    <3>4. Tally(next, other, {usage})
      BY <3>2, <3>3 DEF Tally
    <3> QED
      BY <1>1, <2>2, <3>1, <3>4
  <2>3. CASE other # key /\ seen = {}
    <3>1. \A n \in 1 .. Len(next) : next[n].key # other
      BY <1>5, <2>1, <2>3 DEF Tally
    <3> QED
      BY <1>1, <2>3, <3>1 DEF Tally
  <2>4. CASE other # key /\ seen # {}
    <3>1. PICK i \in 1 .. Len(records) :
            /\ \A n \in 1 .. Len(records) : records[n].key = other <=> n = i
            /\ Declares(records[i].usage, seen)
      BY <2>4 DEF Tally
    <3>2. i \in 1 .. Len(next) /\ i # Len(next)
      BY <1>2, <1>5
    <3>3. \A n \in 1 .. Len(next) : next[n].key = other <=> n = i
      BY <1>5, <2>1, <2>4, <3>1, <3>2
    <3>4. Declares(next[i].usage, seen)
      BY <1>5, <3>1
    <3> QED
      BY <1>1, <2>4, <3>2, <3>3, <3>4 DEF Tally
  <2> QED
    BY <2>2, <2>3, <2>4
<1> QED
  BY <1>3, <1>4, <1>5

\* What a client writes is lines of its drafts.
LEMMA LinesAreLines ==
    Lines \subseteq Line /\ Beginnings \subseteq Seq(Lines)
<1>1. ASSUME NEW d \in Drafts
      PROVE  d \in Seq(Line) /\ d \in Seq(Lines)
  <2>1. d \in Seq(Line) /\ Len(d) \in Nat
    BY ClaudeAssumption, LenProperties
  <2>2. \A i \in 1 .. Len(d) : d[i] \in Lines
    BY <2>1 DEF Lines
  <2> QED
    BY <2>1, <2>2, SeqDef
<1>2. ASSUME NEW d \in Drafts, NEW n \in DOMAIN d
      PROVE  d[n] \in Line
  BY <1>1, <1>2, ElementOfSeq
<1>3. ASSUME NEW d \in Drafts, NEW n \in 0 .. Len(d)
      PROVE  SubSeq(d, 1, n) \in Seq(Lines)
  <2>1. d \in Seq(Lines) /\ Len(d) \in Nat
    BY <1>1, LenProperties
  <2> QED
    BY <2>1, SubSeqProperties
<1> QED
  BY <1>2, <1>3 DEF Lines, Beginnings

\* A record has a key, or none; a message and its advisor's call have two.
LEMMA KeyIs ==
    /\ \A x \in Lines, part \in {"message", "advisor"} : RecordKey(x, part) \in RecordKeys
    /\ \A key \in Keys : <<key, "message">> # None /\ <<key, "advisor">> # None
    /\ \A key : <<key, "message">> # <<key, "advisor">>
BY ClaudeAssumption DEF RecordKey, RecordKeys, Keys

\* An assistant message is observed under its key, then its advisor's call; other
\* lines leave the records alone.
LEMMA ParsedRecords ==
    ASSUME NEW s, StateOK(s), Typed(s), NEW line \in Lines
    PROVE  LET next == ParsedLine(s, line)
           IN  /\ Typed(next)
               /\ line.kind = "assistant" /\ ~next.interrupted =>
                    \E turn \in BOOLEAN, side \in Sides :
                        next.records = WithAdvisor(Observed(s.records,
                            RecordKey(line, "message"), line.usage, turn, side), line, side)
               /\ line.kind # "assistant" => next.records = s.records
<1> DEFINE t == Sided(s, line)
           next == ParsedLine(s, line)
<1>1. /\ line.kind \in LineKinds /\ line.advisor \in Usage \cup {None}
      /\ line.kind = "assistant" => line.usage \in Usage
  <2>1. line \in Line
    BY LinesAreLines
  <2>2. line.kind = "assistant" => line.usage # None
    BY ClaudeAssumption
  <2> QED
    BY <2>1, <2>2 DEF Line
<1>2. StateOK(t) /\ Typed(t) /\ t.records = s.records /\ t.interrupted = s.interrupted
  <2>1. CASE s.side # None
    BY <2>1 DEF Sided
  <2>2. CASE s.side = None
    <3>1. PICK side \in Sides : t = [s EXCEPT !.side = side]
      BY <2>2 DEF Sided, Sides
    <3> HIDE DEF t
    <3>2. StateOK(t)
      BY <3>1, StateExcept, Fields
    <3>3. t.side = side /\ \A g \in StateFields \ {"side"} : t[g] = s[g]
      BY <3>1, StateExcept, Fields
    <3> QED
      BY <3>2, <3>3, Fields DEF Typed
  <2> QED
    BY <2>1, <2>2
<1>3. ASSUME NEW r, StateOK(r), Typed(r)
      PROVE  StateOK(Rejected(r)) /\ Typed(Rejected(r)) /\ Rejected(r).records = r.records
  <2>1. PICK v : Rejected(r) = [r EXCEPT !.rejected = v]
    BY DEF Rejected
  <2>2. StateOK(Rejected(r))
    BY <1>3, <2>1, StateExcept, Fields
  <2>3. \A g \in StateFields \ {"rejected"} : Rejected(r)[g] = r[g]
    BY <1>3, <2>1, StateExcept, Fields
  <2> QED
    BY <1>3, <2>2, <2>3, Fields DEF Typed
<1>4. ASSUME NEW r, StateOK(r), Typed(r), NEW v
      PROVE  /\ Typed([r EXCEPT !.interrupted = v])
             /\ [r EXCEPT !.interrupted = v].records = r.records
             /\ Typed([r EXCEPT !.cost = v]) /\ [r EXCEPT !.cost = v].records = r.records
  BY <1>4, StateExcept, Fields DEF Typed
<1>5. ASSUME NEW r, StateOK(r), Typed(r), NEW v \in BOOLEAN
      PROVE  /\ Typed([r EXCEPT !.pending = v])
             /\ [r EXCEPT !.pending = v].records = r.records
  BY <1>5, StateExcept, Fields DEF Typed
<1> HIDE DEF t, next
<1>6. CASE s.interrupted \/ line.kind = "blank"
  <2>1. next = s
    BY <1>6 DEF ParsedLine, next
  <2> QED
    BY <1>6, <2>1 DEF next
<1>7. CASE ~s.interrupted /\ line.kind = "malformed"
  <2>1. next = [Rejected(s) EXCEPT !.interrupted = TRUE]
    BY <1>7 DEF ParsedLine, next
  <2>2. StateOK(Rejected(s)) /\ Typed(Rejected(s)) /\ Rejected(s).records = s.records
    BY <1>3
  <2>3. Typed(next) /\ next.records = s.records
    BY <1>4, <2>1, <2>2
  <2> QED
    BY <1>7, <2>3 DEF next
<1>8. CASE ~s.interrupted /\ line.kind \in {"untyped", "synthetic", "invalid"}
  <2>1. next = Rejected(s) \/ next = t \/ next = Rejected(t)
    BY <1>8 DEF ParsedLine, next, t
  <2>2. Typed(Rejected(s)) /\ Rejected(s).records = s.records
    BY <1>3
  <2>3. Typed(Rejected(t)) /\ Rejected(t).records = s.records
    BY <1>2, <1>3
  <2>4. Typed(next) /\ next.records = s.records
    BY <1>2, <2>1, <2>2, <2>3
  <2> QED
    BY <1>8, <2>4 DEF next
<1>9. CASE ~s.interrupted /\ line.kind \in {"cost", "user"}
  <2>1. next = [s EXCEPT !.cost = line.usage] \/ next = [t EXCEPT !.pending = TRUE]
    BY <1>9 DEF ParsedLine, next, t
  <2>2. Typed([s EXCEPT !.cost = line.usage])
        /\ [s EXCEPT !.cost = line.usage].records = s.records
    BY <1>4
  <2>3. Typed([t EXCEPT !.pending = TRUE])
        /\ [t EXCEPT !.pending = TRUE].records = s.records
    BY <1>2, <1>5
  <2> QED
    BY <1>9, <2>1, <2>2, <2>3 DEF next
<1>10. CASE ~s.interrupted /\ line.kind = "undated"
  <2>1. next = [Rejected(t) EXCEPT !.pending = FALSE] \/ next = [t EXCEPT !.pending = FALSE]
    BY <1>10 DEF ParsedLine, next, t
  <2>2. StateOK(Rejected(t)) /\ Typed(Rejected(t)) /\ Rejected(t).records = s.records
    BY <1>2, <1>3
  <2>3. Typed(next) /\ next.records = s.records
    BY <1>2, <1>5, <2>1, <2>2
  <2> QED
    BY <1>10, <2>3 DEF next
<1>11. CASE ~s.interrupted /\ line.kind = "assistant"
  <2> DEFINE key == RecordKey(line, "message")
             observed == Observed(t.records, key, line.usage, t.pending, t.side)
             records == WithAdvisor(observed, line, t.side)
             pending == t.pending /\ ~(IndexOf(t.records, key) = 0)
             u == [t EXCEPT !.records = records]
  <2>1. next = [u EXCEPT !.pending = pending]
    BY <1>2, <1>11, StateExcept, Fields DEF ParsedLine, next, t, Answered, StateOK
  <2>2. observed \in Seq(Record)
    BY <1>1, <1>2, <1>11, KeyIs, ObservedRecords DEF Typed
  <2> HIDE DEF observed
  <2>3. records \in Seq(Record)
    <3>1. CASE line.advisor = None
      BY <2>2, <3>1 DEF WithAdvisor
    <3>2. CASE line.advisor # None
      <4>1. Observed(observed, RecordKey(line, "advisor"), line.advisor, FALSE, t.side)
              \in Seq(Record)
        BY <1>1, <1>2, <2>2, <3>2, KeyIs, ObservedRecords DEF Typed
      <4> QED
        BY <3>2, <4>1 DEF WithAdvisor
    <3> QED
      BY <3>1, <3>2
  <2>4. pending \in BOOLEAN
    BY <1>2 DEF Typed
  <2> HIDE DEF records, pending
  <2>5. StateOK(u) /\ Typed(u) /\ u.records = records
    <3>1. StateOK(u) /\ u.records = records
      BY <1>2, StateExcept, Fields
    <3>2. \A g \in StateFields \ {"records"} : u[g] = t[g]
      BY <1>2, StateExcept, Fields
    <3> QED
      BY <1>2, <2>3, <3>1, <3>2, Fields DEF Typed
  <2> HIDE DEF u
  <2>6. Typed(next) /\ next.records = records
    BY <1>5, <2>1, <2>4, <2>5
  <2>7. records = WithAdvisor(Observed(s.records, key, line.usage, t.pending, t.side),
                              line, t.side)
    BY <1>2 DEF records, observed
  <2>8. t.pending \in BOOLEAN /\ t.side \in Sides
    BY <1>2 DEF Typed
  <2> QED
    BY <1>11, <2>6, <2>7, <2>8 DEF next
<1> QED
  BY <1>1, <1>6, <1>7, <1>8, <1>9, <1>10, <1>11 DEF LineKinds

\* The observations of a message, and of its advisor's calls, in the first lines.
Assistants(lines, n, key) ==
    {m \in 1 .. n : lines[m].kind = "assistant" /\ lines[m].key = key}
Messages(lines, n, key) == {lines[m].usage : m \in Assistants(lines, n, key)}
Calls(lines, n, key) == {lines[m].advisor : m \in Assistants(lines, n, key)} \ {None}

\* Both are counted.
Tallies(records, lines, n, key) ==
    /\ Tally(records, <<key, "message">>, Messages(lines, n, key))
    /\ Tally(records, <<key, "advisor">>, Calls(lines, n, key))

\* What is observed is a usage.
LEMMA ObservationsAreUsages ==
    ASSUME NEW lines \in Seq(Lines), NEW n \in Nat, n <= Len(lines), NEW key
    PROVE  /\ Messages(lines, n, key) \in SUBSET Usage
           /\ Calls(lines, n, key) \in SUBSET Usage
<1>1. ASSUME NEW m \in Assistants(lines, n, key)
      PROVE  lines[m].usage \in Usage /\ lines[m].advisor \in Usage \cup {None}
  <2>1. m \in 1 .. Len(lines) /\ lines[m].kind = "assistant"
    BY LenProperties DEF Assistants
  <2>2. lines[m] \in Lines /\ lines[m] \in Line
    BY <2>1, ElementOfSeq, LinesAreLines
  <2>3. lines[m].usage # None
    BY <2>1, <2>2, ClaudeAssumption
  <2> QED
    BY <2>2, <2>3 DEF Line
<1> QED
  BY <1>1 DEF Messages, Calls

\* One more line is one more observation, or none.
LEMMA OneMoreLine ==
    ASSUME NEW lines \in Seq(Lines), NEW n \in Nat, n + 1 <= Len(lines), NEW key
    PROVE  LET line == lines[n + 1]
               mine == line.kind = "assistant" /\ line.key = key
           IN  /\ Messages(lines, n + 1, key)
                    = Messages(lines, n, key) \cup (IF mine THEN {line.usage} ELSE {})
               /\ Calls(lines, n + 1, key)
                    = Calls(lines, n, key) \cup
                        (IF mine /\ line.advisor # None THEN {line.advisor} ELSE {})
<1> DEFINE line == lines[n + 1]
           mine == line.kind = "assistant" /\ line.key = key
<1>1. Assistants(lines, n + 1, key)
        = Assistants(lines, n, key) \cup (IF mine THEN {n + 1} ELSE {})
  <2>1. \A m : m \in 1 .. n + 1 <=> m \in 1 .. n \/ m = n + 1
    OBVIOUS
  <2> QED
    BY <2>1 DEF Assistants
<1>2. CASE mine
  BY <1>1, <1>2 DEF Messages, Calls
<1>3. CASE ~mine
  BY <1>1, <1>3 DEF Messages, Calls
<1> QED
  BY <1>2, <1>3

\* After every line of a transcript the records count the messages so far once.
LEMMA ParseTallies ==
    ASSUME NEW lines \in Seq(Lines), NEW key \in Keys \ {None},
           ~FullParse(lines).interrupted
    PROVE  /\ FullParse(lines).records \in Seq(Record)
           /\ Tallies(FullParse(lines).records, lines, Len(lines), key)
<1>1. /\ Len(lines) \in Nat
      /\ \A i \in 1 .. Len(lines) : lines[i] \in Lines
  BY LenProperties, ElementOfSeq
<1>2. PICK f : Parses(f, lines) /\ FullParse(lines) = f[Len(lines)]
  BY <1>1, FullParseDef
<1> DEFINE Good(n) == /\ StateOK(f[n]) /\ Typed(f[n])
                      /\ ~f[n].interrupted => Tallies(f[n].records, lines, n, key)
           T == {n \in Nat : n <= Len(lines) => Good(n)}
<1>3. 0 \in T
  <2>1. f[0] = StartState
    BY <1>1, <1>2 DEF Parses
  <2>2. StateOK(StartState)
    BY DEF StateOK, StateFields, StartState
  <2>3. StartState.records = <<>> /\ Typed(StartState)
    BY DEF Typed, StartState, Sides
  <2>4. Assistants(lines, 0, key) = {}
    BY DEF Assistants
  <2>5. Messages(lines, 0, key) = {} /\ Calls(lines, 0, key) = {}
    BY <2>4 DEF Messages, Calls
  <2>6. Tallies(<<>>, lines, 0, key)
    BY <2>5 DEF Tallies, Tally
  <2> QED
    BY <2>1, <2>2, <2>3, <2>6
<1>4. ASSUME NEW n \in Nat, n \in T
      PROVE  n + 1 \in T
  <2> SUFFICES ASSUME n + 1 <= Len(lines) PROVE Good(n + 1)
    OBVIOUS
  <2> DEFINE line == lines[n + 1]
             mk == <<key, "message">>
             ak == <<key, "advisor">>
             M == Messages(lines, n, key)
             C == Calls(lines, n, key)
  <2>1. Good(n) /\ line \in Lines /\ (n + 1) - 1 = n /\ line \in Line
    BY <1>1, <1>4, LinesAreLines
  <2>2. f[n + 1] = ParsedLine(f[n], line)
    BY <1>1, <1>2, <2>1 DEF Parses
  <2> PICK s : s = f[n]
    OBVIOUS
  <2> PICK next : next = f[n + 1]
    OBVIOUS
  <2>3. line.kind \in LineKinds
    BY <2>1 DEF Line
  <2>4. LET mine == line.kind = "assistant" /\ line.key = key
        IN  /\ Messages(lines, n + 1, key) = M \cup (IF mine THEN {line.usage} ELSE {})
            /\ Calls(lines, n + 1, key)
                 = C \cup (IF mine /\ line.advisor # None THEN {line.advisor} ELSE {})
    BY OneMoreLine
  <2>5. /\ StateOK(s) /\ Typed(s) /\ next = ParsedLine(s, line)
        /\ ~s.interrupted => Tallies(s.records, lines, n, key)
    BY <2>1, <2>2
  <2>6. StateOK(next) /\ Typed(next) /\ (~next.interrupted => ~s.interrupted)
    BY <2>1, <2>3, <2>5, ParsedLineState, ParsedRecords
  <2>7. ASSUME ~next.interrupted
        PROVE  Tallies(next.records, lines, n + 1, key)
    <3>1. Tally(s.records, mk, M) /\ Tally(s.records, ak, C)
      BY <2>5, <2>6, <2>7 DEF Tallies
    <3>2. mk # None /\ ak # None /\ mk # ak
      BY KeyIs
    <3>3. M \in SUBSET Usage /\ C \in SUBSET Usage
      BY ObservationsAreUsages
    <3> HIDE DEF mk, ak, M, C, line
    <3>4. CASE line.kind # "assistant"
      <4>1. next.records = s.records
        BY <2>1, <2>5, <3>4, ParsedRecords
      <4>2. Messages(lines, n + 1, key) = M /\ Calls(lines, n + 1, key) = C
        BY <2>4, <3>4
      <4> QED
        BY <3>1, <4>1, <4>2 DEF Tallies, mk, ak
    <3>5. CASE line.kind = "assistant"
      <4> DEFINE k1 == RecordKey(line, "message")
                 k2 == RecordKey(line, "advisor")
                 mine == line.key = key
      <4>1. PICK turn \in BOOLEAN, side \in Sides :
              next.records = WithAdvisor(Observed(s.records, k1, line.usage, turn, side),
                                         line, side)
        BY <2>1, <2>5, <2>7, <3>5, ParsedRecords
      <4>2. PICK observed : observed = Observed(s.records, k1, line.usage, turn, side)
        OBVIOUS
      <4>3. line.usage \in Usage /\ line.advisor \in Usage \cup {None}
        BY <2>1, <3>5, ClaudeAssumption DEF Line
      <4>4. k1 \in RecordKeys /\ k2 \in RecordKeys
        BY <2>1, KeyIs
      <4>5. /\ k1 # ak /\ k2 # mk
            /\ mk = k1 <=> mine
            /\ ak = k2 <=> mine
        BY <3>2 DEF RecordKey, mk, ak
      <4>6. /\ Messages(lines, n + 1, key) = IF mine THEN M \cup {line.usage} ELSE M
            /\ Calls(lines, n + 1, key)
                 = IF mine /\ line.advisor # None THEN C \cup {line.advisor} ELSE C
        BY <2>4, <3>5
      <4>7. s.records \in Seq(Record)
        BY <2>5 DEF Typed
      <4> HIDE DEF k1, k2
      <4>8. observed \in Seq(Record)
        BY <4>2, <4>3, <4>4, <4>7, ObservedRecords
      <4>9. Tally(observed, mk, Messages(lines, n + 1, key))
        <5>1. Tally(observed, mk, IF mk = k1 THEN M \cup {line.usage} ELSE M)
          BY <3>1, <3>2, <3>3, <4>2, <4>3, <4>4, <4>7, ObservedTally
        <5> QED
          BY <4>5, <4>6, <5>1
      <4>10. Tally(observed, ak, C)
        <5>1. Tally(observed, ak, IF ak = k1 THEN C \cup {line.usage} ELSE C)
          BY <3>1, <3>2, <3>3, <4>2, <4>3, <4>4, <4>7, ObservedTally
        <5> QED
          BY <4>5, <5>1
      <4>11. CASE line.advisor = None
        <5>1. next.records = observed
          BY <4>1, <4>2, <4>11 DEF WithAdvisor
        <5> QED
          BY <4>6, <4>9, <4>10, <4>11, <5>1 DEF Tallies, mk, ak
      <4>12. CASE line.advisor # None
        <5>1. PICK call \in Usage, own \in BOOLEAN : call = line.advisor /\ own = FALSE
          BY <4>3, <4>12
        <5>2. next.records = Observed(observed, k2, call, own, side)
          BY <4>1, <4>2, <4>12, <5>1 DEF WithAdvisor, k2
        <5>3. k2 \in RecordKeys
          BY <4>4
        <5>4. ak # None /\ C \in SUBSET Usage /\ mk # None
          BY <3>2, <3>3
        <5>5. PICK now \in SUBSET Usage : now = Messages(lines, n + 1, key)
          BY <3>3, <4>3, <4>6
        <5>6. Tally(Observed(observed, k2, call, own, side), mk,
                    IF mk = k2 THEN now \cup {call} ELSE now)
          BY <5>3, <4>8, <4>9, <5>4, <5>5, ObservedTally
        <5>7. Tally(Observed(observed, k2, call, own, side), ak,
                    IF ak = k2 THEN C \cup {call} ELSE C)
          BY <5>3, <5>4, <4>8, <4>10, ObservedTally
        <5>8. Tally(next.records, mk, Messages(lines, n + 1, key))
          BY <4>5, <5>2, <5>5, <5>6
        <5>9. Tally(next.records, ak, Calls(lines, n + 1, key))
          BY <4>5, <4>6, <4>12, <5>1, <5>2, <5>7
        <5> QED
          BY <5>8, <5>9 DEF Tallies, mk, ak
      <4> QED
        BY <4>11, <4>12
    <3> QED
      BY <3>4, <3>5
  <2> QED
    BY <2>6, <2>7
<1> HIDE DEF T
<1>5. Nat \subseteq T
  BY <1>3, <1>4, Induction
<1>6. Good(Len(lines))
  BY <1>1, <1>5 DEF T
<1> QED
  BY <1>2, <1>6 DEF Typed

\* The records that are retained, after each of the records.
Keeps(kept, records) ==
    kept = [n \in 0 .. Len(records) |->
              IF n = 0 THEN <<>>
              ELSE IF Positive(records[n].usage) THEN Append(kept[n - 1], records[n])
              ELSE kept[n - 1]]

\* The recursion of Retained is sound.
LEMMA RetainedDef ==
    ASSUME NEW records, Len(records) \in Nat
    PROVE  \E kept : Keeps(kept, records) /\ Retained(records) = kept[Len(records)]
<1> DEFINE Next1(r, n) == IF Positive(records[n].usage) THEN Append(r, records[n]) ELSE r
           Upto(g, n) == g = [i \in 0 .. n |-> IF i = 0 THEN <<>> ELSE Next1(g[i - 1], i)]
           T == {n \in Nat : \E g : Upto(g, n)}
<1> HIDE DEF Next1
<1>1. 0 \in T
  <2> DEFINE g == [i \in 0 .. 0 |-> <<>>]
  <2>1. Upto(g, 0)
    OBVIOUS
  <2> HIDE DEF g, Upto
  <2> QED
    BY <2>1
<1>2. ASSUME NEW n \in Nat, n \in T
      PROVE  n + 1 \in T
  <2>1. PICK g : Upto(g, n)
    BY <1>2
  <2> DEFINE h == [i \in 0 .. n + 1 |-> IF i = n + 1 THEN Next1(g[n], n + 1) ELSE g[i]]
  <2>2. \A i \in 0 .. n : g[i] = IF i = 0 THEN <<>> ELSE Next1(g[i - 1], i)
    BY <2>1
  <2>3. \A i \in 0 .. n + 1 : h[i] = IF i = 0 THEN <<>> ELSE Next1(h[i - 1], i)
    <3> TAKE i \in 0 .. n + 1
    <3>1. CASE i = n + 1
      <4>1. h[i] = Next1(g[n], n + 1) /\ h[n] = g[n] /\ i - 1 = n
        BY <3>1
      <4> QED
        BY <3>1, <4>1
    <3>2. CASE i \in 0 .. n
      <4>1. h[i] = g[i]
        BY <3>2
      <4>2. i # 0 => h[i - 1] = g[i - 1]
        BY <3>2
      <4> QED
        BY <2>2, <3>2, <4>1, <4>2
    <3> QED
      BY <3>1, <3>2
  <2>4. Upto(h, n + 1)
    BY <2>3
  <2> HIDE DEF h, Upto
  <2> QED
    BY <2>4
<1> HIDE DEF T
<1>3. Nat \subseteq T
  BY <1>1, <1>2, Induction
<1>4. \E kept : Keeps(kept, records)
  BY <1>3 DEF T, Next1, Keeps
<1> DEFINE kept == CHOOSE g : Keeps(g, records)
<1>5. Keeps(kept, records)
  BY <1>4
<1>6. Retained(records) = kept[Len(records)]
  BY DEF Retained, Keeps
<1> QED
  BY <1>5, <1>6

\* The record of a key, 0 for none.
IsRecordOf(records, key, i) ==
    \A n \in 1 .. Len(records) : records[n].key = key <=> n = i

\* A key that is counted once is counted once among the retained records, or not at
\* all if it counts nothing.
LEMMA RetainedTally ==
    ASSUME NEW records \in Seq(Record), NEW i \in 0 .. Len(records), NEW key,
           IsRecordOf(records, key, i)
    PROVE  LET report == Retained(records)
           IN  /\ report \in Seq(Record)
               /\ i # 0 /\ Positive(records[i].usage) =>
                    \E m \in 1 .. Len(report) :
                         /\ report[m] = records[i]
                         /\ \A l \in 1 .. Len(report) : report[l].key = key => l = m
               /\ i = 0 \/ ~Positive(records[i].usage) =>
                    \A l \in 1 .. Len(report) : report[l].key # key
<1>1. /\ Len(records) \in Nat
      /\ \A n \in 1 .. Len(records) : records[n] \in Record
  BY LenProperties, ElementOfSeq
<1>2. PICK kept : Keeps(kept, records) /\ Retained(records) = kept[Len(records)]
  BY <1>1, RetainedDef
<1> DEFINE Good(n) == /\ kept[n] \in Seq(Record)
                      /\ IF i \in 1 .. n /\ Positive(records[i].usage)
                         THEN \E m \in 1 .. Len(kept[n]) :
                                /\ kept[n][m] = records[i]
                                /\ \A l \in 1 .. Len(kept[n]) : kept[n][l].key = key => l = m
                         ELSE \A l \in 1 .. Len(kept[n]) : kept[n][l].key # key
           T == {n \in Nat : n <= Len(records) => Good(n)}
<1>3. 0 \in T
  <2>1. kept[0] = <<>>
    BY <1>1, <1>2 DEF Keeps
  <2>2. kept[0] \in Seq(Record) /\ Len(kept[0]) = 0
    BY <2>1, EmptySeq
  <2>3. \A l : l \notin 1 .. 0
    OBVIOUS
  <2> QED
    BY <2>2, <2>3
<1>4. ASSUME NEW n \in Nat, n \in T
      PROVE  n + 1 \in T
  <2> SUFFICES ASSUME n + 1 <= Len(records) PROVE Good(n + 1)
    OBVIOUS
  <2>1. Good(n) /\ records[n + 1] \in Record /\ (n + 1) - 1 = n
    BY <1>1, <1>4
  <2> PICK old : old = kept[n]
    OBVIOUS
  <2> PICK record \in Record : record = records[n + 1]
    BY <2>1
  <2>2. kept[n + 1] = IF Positive(record.usage) THEN Append(old, record) ELSE old
    <3>1. n + 1 \in 0 .. Len(records) /\ n + 1 # 0
      BY <1>1
    <3>2. kept[n + 1] = IF Positive(records[n + 1].usage)
                        THEN Append(kept[(n + 1) - 1], records[n + 1])
                        ELSE kept[(n + 1) - 1]
      BY <1>2, <3>1 DEF Keeps
    <3> QED
      BY <2>1, <3>2
  <2>3. old \in Seq(Record) /\ Len(old) \in Nat
    BY <2>1, LenProperties
  <2>4. record.key = key <=> n + 1 = i
    BY <1>1 DEF IsRecordOf
  <2>5. CASE ~Positive(record.usage)
    <3>1. kept[n + 1] = kept[n]
      BY <2>2, <2>5
    <3>2. i \in 1 .. n + 1 /\ Positive(records[i].usage)
            <=> i \in 1 .. n /\ Positive(records[i].usage)
      BY <1>1, <2>5
    <3> QED
      BY <2>1, <3>1, <3>2
  <2>6. CASE Positive(record.usage)
    <3> PICK new : new = kept[n + 1]
      OBVIOUS
    <3>1. /\ new \in Seq(Record) /\ Len(new) = Len(old) + 1
          /\ \A l \in 1 .. Len(old) : new[l] = old[l]
          /\ new[Len(old) + 1] = record
      BY <2>2, <2>3, <2>6, AppendProperties
    <3>2. \A l \in 1 .. Len(new) : l \in 1 .. Len(old) \/ l = Len(old) + 1
      BY <2>3, <3>1
    <3>3. CASE i = n + 1
      <4>1. \A l \in 1 .. Len(old) : old[l].key # key
        BY <2>1, <3>3
      <4>2. Len(new) \in 1 .. Len(new) /\ new[Len(new)] = records[i]
        BY <2>3, <3>1, <3>3
      <4>3. \A l \in 1 .. Len(new) : new[l].key = key => l = Len(new)
        BY <3>1, <3>2, <4>1
      <4>4. i \in 1 .. n + 1 /\ Positive(records[i].usage)
        BY <2>6, <3>3
      <4> QED
        BY <3>1, <4>2, <4>4, <4>3
    <3>4. CASE i \in 1 .. n /\ Positive(records[i].usage)
      <4>1. PICK m \in 1 .. Len(old) :
              /\ old[m] = records[i]
              /\ \A l \in 1 .. Len(old) : old[l].key = key => l = m
        BY <2>1, <3>4
      <4>2. record.key # key
        BY <2>4, <3>4
      <4>3. m \in 1 .. Len(new) /\ new[m] = records[i]
        BY <2>3, <3>1, <4>1
      <4>4. \A l \in 1 .. Len(new) : new[l].key = key => l = m
        BY <3>1, <3>2, <4>1, <4>2
      <4>5. i \in 1 .. n + 1
        BY <3>4
      <4> QED
        BY <3>1, <3>4, <4>3, <4>4, <4>5
    <3>5. CASE i # n + 1 /\ ~(i \in 1 .. n /\ Positive(records[i].usage))
      <4>1. \A l \in 1 .. Len(old) : old[l].key # key
        BY <2>1, <3>5
      <4>2. record.key # key
        BY <2>4, <3>5
      <4>3. \A l \in 1 .. Len(new) : new[l].key # key
        BY <3>1, <3>2, <4>1, <4>2
      <4>4. ~(i \in 1 .. n + 1 /\ Positive(records[i].usage))
        BY <3>5
      <4> QED
        BY <3>1, <4>3, <4>4
    <3> QED
      BY <3>3, <3>4, <3>5
  <2> QED
    BY <2>5, <2>6
<1> HIDE DEF T
<1>5. Nat \subseteq T
  BY <1>3, <1>4, Induction
<1>6. Good(Len(records))
  BY <1>1, <1>5 DEF T
<1> QED
  BY <1>1, <1>2, <1>6

\* What is counted once by the parse is counted once in the report.
LEMMA ReportCounts ==
    ASSUME NEW records \in Seq(Record), NEW key, NEW seen \in SUBSET Usage,
           Tally(records, key, seen)
    PROVE  CountedOnce(Retained(records), key, seen)
<1> DEFINE report == Retained(records)
           mine == {n \in DOMAIN report : report[n].key = key}
<1>1. Len(records) \in Nat
  BY LenProperties
<1>2. CASE seen = {}
  <2>1. 0 \in 0 .. Len(records) /\ IsRecordOf(records, key, 0)
    BY <1>1, <1>2 DEF Tally, IsRecordOf
  <2>2. report \in Seq(Record) /\ \A l \in 1 .. Len(report) : report[l].key # key
    BY <2>1, RetainedTally
  <2>3. mine = {}
    BY <2>2
  <2> QED
    BY <1>2, <2>3 DEF CountedOnce
<1>3. CASE seen # {}
  <2>1. PICK i \in 1 .. Len(records) :
          /\ \A n \in 1 .. Len(records) : records[n].key = key <=> n = i
          /\ Declares(records[i].usage, seen)
    BY <1>3 DEF Tally
  <2>2. Declared(seen) = records[i].usage
    <3>1. records[i] \in Record
      BY ElementOfSeq
    <3>2. records[i].usage \in Usage
      BY <3>1 DEF Record
    <3> QED
      BY <2>1, <3>2, DeclaredIs
  <2>3. i \in 0 .. Len(records) /\ i # 0 /\ IsRecordOf(records, key, i)
    BY <1>1, <2>1 DEF IsRecordOf
  <2>4. Positive(Declared(seen)) <=> Positive(records[i].usage)
    BY <2>2
  <2>5. CASE ~Positive(Declared(seen))
    <3>1. report \in Seq(Record) /\ \A l \in 1 .. Len(report) : report[l].key # key
      BY <2>3, <2>5, <2>4, RetainedTally
    <3>2. mine = {}
      BY <3>1
    <3> QED
      BY <2>5, <3>2 DEF CountedOnce
  <2>6. CASE Positive(Declared(seen))
    <3>1. report \in Seq(Record)
      BY <2>1, <2>3, RetainedTally
    <3>2. PICK m \in 1 .. Len(report) :
            /\ report[m] = records[i]
            /\ \A l \in 1 .. Len(report) : report[l].key = key => l = m
      BY <2>3, <2>6, <2>4, RetainedTally
    <3> HIDE DEF report
    <3>3. mine = {m}
      BY <2>1, <3>1, <3>2
    <3>4. Cardinality(mine) = 1
      BY <3>3, FS_Singleton
    <3>5. \A n \in mine : report[n].usage = Declared(seen)
      BY <2>2, <3>2, <3>3
    <3> QED
      BY <1>3, <2>6, <3>4, <3>5 DEF CountedOnce, report
  <2> QED
    BY <2>5, <2>6
<1> QED
  BY <1>2, <1>3

-----------------------------------------------------------------------------
(* The theorems.                                                           *)

\* The invariant is inductive.
THEOREM Invariance == Spec => []Inv
<1>1. Init => Inv
  <2> SUFFICES ASSUME Init PROVE Inv
    OBVIOUS
  <2> DEFINE new == [text |-> [lines |-> <<>>, tail |-> "whole"], mtime |-> 0]
             File == [text : [lines : Beginnings, tail : Tails], mtime : Nat]
  <2>1. disk = <<new>> /\ path = 1
    BY DEF Init, FileInit
  <2>2. new \in File /\ new.text.tail = "whole"
    BY BeginningsAreLines DEF Tails
  <2> HIDE DEF new, File
  <2>3. disk \in Seq(File) /\ DOMAIN disk = {1} /\ disk[1] = new
    BY <2>1, <2>2
  <2>4. FileOK(Beginnings)
    BY <2>1, <2>2, <2>3 DEF FileOK, Inodes, File
  <2>5. AcquirerInv(Resting)
    BY AcquirerFields DEF AcquirerInv
  <2> QED
    BY <2>4, <2>5 DEF Init, Inv, ShardInv
<1>2. Inv /\ [Next]_vars => Inv'
  <2> SUFFICES ASSUME Inv, [Next]_vars PROVE Inv'
    OBVIOUS
  <2>1. CASE Change
    BY <2>1, ChangeStep
  <2>2. ASSUME NEW a \in Acquirers, AcquirerStep(a)
        PROVE  Inv'
    BY <2>2, PlanStep, TakeStep, OpenStep, VerifyStep, ParseStep, ValidateStep,
       WriteStep, UnlinkStep DEF AcquirerStep
  <2>3. CASE UNCHANGED vars
    <3>1. ASSUME NEW a \in Acquirers
          PROVE  AcquirerInv(acquirer[a])'
      BY <2>3 DEF vars, Inv, AcquirerInv, StampOK, Inodes, Verified, Scanned, Fresh
    <3>2. FileOK(Beginnings)' /\ ShardInv'
      BY <2>3 DEF vars, Inv, FileOK, Inodes, ShardInv, Sealed
    <3> QED
      BY <2>3, <3>1, <3>2 DEF vars, Inv
  <2> QED
    BY <2>1, <2>2, <2>3 DEF Next
<1> QED
  BY <1>1, <1>2, PTL DEF Spec

\* What is cached is what a full parse of the stamped text leaves, however often the
\* parse was resumed, whoever wrote the shard and whatever the client did meanwhile
\* (claude/incremental.rs).
THEOREM SealedCheckpoints == Spec => []SealedCheckpoint
<1>1. Inv => SealedCheckpoint
  BY DEF Inv, ShardInv, Sealed, SealedCheckpoint, Parse
<1> QED
  BY <1>1, Invariance, PTL

\* What calls itself complete is the full parse of the file as it was when the
\* acquisition took its snapshot (finish_scan).
THEOREM CompleteReports == Spec => []CompleteIsFullParse
<1>1. Inv => CompleteIsFullParse
  BY DEF Inv, AcquirerInv, Answers, CompleteIsFullParse, Parse, At
<1> QED
  BY <1>1, Invariance, PTL

\* In a complete report every message and every advisor's call counts once, with what
\* all of its copies declare, for every transcript a client may write
\* (merge_claude_duplicate, finish_with_project).
THEOREM MessagesAreCountedOnce == Spec => []MessagesCountOnce
<1>1. ASSUME Inv, NEW a \in Acquirers, NEW key \in Keys \ {None},
             At(a, "done"), acquirer[a].status = "complete"
      PROVE  LET lines == acquirer[a].snapshot.text.lines
                 copies == {lines[n] : n \in {m \in DOMAIN lines :
                                lines[m].kind = "assistant" /\ lines[m].key = key}}
                 records == acquirer[a].report.records
             IN  /\ CountedOnce(records, <<key, "message">>, {c.usage : c \in copies})
                 /\ CountedOnce(records, <<key, "advisor">>,
                                {c.advisor : c \in copies} \ {None})
  <2> DEFINE lines == acquirer[a].snapshot.text.lines
             copies == {lines[n] : n \in {m \in DOMAIN lines :
                            lines[m].kind = "assistant" /\ lines[m].key = key}}
             records == acquirer[a].report.records
             parse == FullParse(lines)
  <2>1. Answers(acquirer[a])
    BY <1>1 DEF Inv, AcquirerInv, At
  <2>2. /\ lines \in Beginnings /\ ~parse.interrupted
        /\ acquirer[a].report = Finished(parse)
    BY <2>1 DEF Answers
  <2>3. lines \in Seq(Lines) /\ records = Retained(parse.records)
    BY <2>2, LinesAreLines DEF Finished
  <2> HIDE DEF lines, records
  <2>4. /\ parse.records \in Seq(Record)
        /\ Tallies(parse.records, lines, Len(lines), key)
    BY <2>2, <2>3, ParseTallies
  <2>5. /\ {c.usage : c \in copies} = Messages(lines, Len(lines), key)
        /\ {c.advisor : c \in copies} \ {None} = Calls(lines, Len(lines), key)
    <3>1. DOMAIN lines = 1 .. Len(lines)
      BY <2>3, LenProperties
    <3>2. copies = {lines[n] : n \in Assistants(lines, Len(lines), key)}
      BY <3>1 DEF Assistants
    <3> PICK mine : mine = Assistants(lines, Len(lines), key)
      OBVIOUS
    <3> HIDE DEF copies
    <3>3. \A c : c \in copies <=> \E n \in mine : c = lines[n]
      BY <3>2
    <3>4. \A u : u \in {c.usage : c \in copies} <=> \E n \in mine : u = lines[n].usage
      BY <3>3
    <3>5. \A u : u \in {c.advisor : c \in copies} <=> \E n \in mine : u = lines[n].advisor
      BY <3>3
    <3>6. {c.usage : c \in copies} = {lines[n].usage : n \in mine}
      BY <3>4
    <3>7. {c.advisor : c \in copies} = {lines[n].advisor : n \in mine}
      BY <3>5
    <3> QED
      BY <3>6, <3>7 DEF Messages, Calls
  <2>6. /\ Messages(lines, Len(lines), key) \in SUBSET Usage
        /\ Calls(lines, Len(lines), key) \in SUBSET Usage
    BY <2>3, ObservationsAreUsages
  <2>7. /\ CountedOnce(records, <<key, "message">>, Messages(lines, Len(lines), key))
        /\ CountedOnce(records, <<key, "advisor">>, Calls(lines, Len(lines), key))
    BY <2>3, <2>4, <2>6, ReportCounts DEF Tallies
  <2> QED
    BY <2>5, <2>7 DEF lines, records
<1>2. Inv => MessagesCountOnce
  BY <1>1 DEF MessagesCountOnce
<1> QED
  BY <1>2, Invariance, PTL
=============================================================================
