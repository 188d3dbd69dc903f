-------------------------- MODULE TranscriptProofs --------------------------
(***************************************************************************)
(* Facts about transcript files that the proofs about their readers share:   *)
(* induction over a set of numbers, sequences without their elements, what is   *)
(* read next, and that a change of the file is never taken for what was there    *)
(* before.                                                                 *)
(***************************************************************************)
EXTENDS TranscriptFile, SequenceTheorems, WellFoundedInduction, TLAPS

\* A file is a text and the number of its last change; only a text that has a
\* line can end in the middle of one.
FileOK(texts) ==
    /\ disk \in Seq([text : [lines : texts, tail : Tails], mtime : Nat])
    /\ path \in Inodes
    /\ \A i \in Inodes : disk[i].text.tail # "whole" => disk[i].text.lines # <<>>

\* The files that were there are there, and one that differs has a later change.
Advances ==
    \A i \in Inodes :
        /\ i \in DOMAIN disk'
        /\ disk'[i] = disk[i] \/ disk'[i].mtime > disk[i].mtime

\* A stamp is of a file, and if it is of its last change it has its text.
StampOK(stamp) ==
    /\ stamp.inode \in Inodes /\ stamp.mtime \in Nat
    /\ stamp.mtime <= disk[stamp.inode].mtime
    /\ stamp.mtime = disk[stamp.inode].mtime => stamp.text = disk[stamp.inode].text

-----------------------------------------------------------------------------
(* Induction.                                                              *)

Below == {p \in Nat \X Nat : p[1] < p[2]}

\* A set of numbers has a least one.
LEMMA Least ==
    ASSUME NEW T \in SUBSET Nat, T # {}
    PROVE  \E m \in T : \A k \in T : m <= k
<1>1. Below = OpToRel(<, Nat)
  BY DEF Below, OpToRel
<1>2. IsWellFoundedOn(Below, Nat)
  BY <1>1, NatLessThanWellFounded
<1>3. PICK m \in T : \A k \in T : ~(<<k, m>> \in Below)
  BY <1>2, WFMin
<1>4. \A k \in T : ~(k < m)
  BY <1>3 DEF Below
<1> QED
  BY <1>4

\* Induction, over the numbers that have a property.
LEMMA Induction ==
    ASSUME NEW T, 0 \in T, \A n \in Nat : n \in T => n + 1 \in T
    PROVE  Nat \subseteq T
<1> SUFFICES ASSUME Nat \ T # {} PROVE FALSE
  OBVIOUS
<1>1. PICK m \in Nat \ T : \A k \in Nat \ T : m <= k
  BY Least
<1>2. m # 0 /\ m - 1 \in Nat
  BY <1>1
<1>3. m - 1 \in T
  BY <1>1, <1>2
<1>4. (m - 1) + 1 = m
  BY <1>2
<1> QED
  BY <1>2, <1>3, <1>4

-----------------------------------------------------------------------------
(* Changes of the file.                                                    *)

\* What is on disk is a sequence of files.
LEMMA FileTypes ==
    ASSUME NEW texts, FileOK(texts)
    PROVE  /\ Len(disk) \in Nat \ {0} /\ Inodes = 1 .. Len(disk)
           /\ path \in 1 .. Len(disk)
           /\ \A i \in Inodes :
                /\ disk[i] \in [text : [lines : texts, tail : Tails], mtime : Nat]
                /\ disk[i].mtime \in Nat
                /\ disk[i].text \in [lines : texts, tail : Tails]
                /\ disk[i].text.lines \in texts /\ disk[i].text.tail \in Tails
<1> DEFINE File == [text : [lines : texts, tail : Tails], mtime : Nat]
<1>1. disk \in Seq(File) /\ path \in DOMAIN disk
  BY DEF FileOK, Inodes
<1> HIDE DEF File
<1>2. /\ Len(disk) \in Nat /\ DOMAIN disk = 1 .. Len(disk)
      /\ \A i \in 1 .. Len(disk) : disk[i] \in File
  BY <1>1, LenProperties, ElementOfSeq
<1>3. Len(disk) # 0
  BY <1>1, <1>2
<1> QED
  BY <1>1, <1>2, <1>3 DEF Inodes, File

\* Finitely many numbers have a largest one.
LEMMA Largest ==
    ASSUME NEW len \in Nat \ {0}, NEW f \in [1 .. len -> Nat]
    PROVE  \E j \in 1 .. len : \A i \in 1 .. len : f[i] <= f[j]
<1> DEFINE T == {n \in Nat : n < len =>
                     \E j \in 1 .. n + 1 : \A i \in 1 .. n + 1 : f[i] <= f[j]}
<1>1. 0 \in T
  <2>1. f[1] <= f[1]
    OBVIOUS
  <2> QED
    BY <2>1
<1>2. ASSUME NEW n \in Nat, n \in T
      PROVE  n + 1 \in T
  <2> SUFFICES ASSUME n + 1 < len
               PROVE  \E j \in 1 .. (n + 1) + 1 : \A i \in 1 .. (n + 1) + 1 :
                          f[i] <= f[j]
    OBVIOUS
  <2>1. PICK j \in 1 .. n + 1 : \A i \in 1 .. n + 1 : f[i] <= f[j]
    BY <1>2
  <2>2. \A i \in 1 .. n + 2 : f[i] \in Nat
    OBVIOUS
  <2>3. CASE f[n + 2] <= f[j]
    <3>1. \A i \in 1 .. (n + 1) + 1 : f[i] <= f[j]
      BY <2>1, <2>3
    <3> QED
      BY <3>1
  <2>4. CASE ~(f[n + 2] <= f[j])
    <3>1. \A i \in 1 .. (n + 1) + 1 : f[i] <= f[n + 2]
      BY <2>1, <2>2, <2>4
    <3> QED
      BY <3>1
  <2> QED
    BY <2>3, <2>4
<1> HIDE DEF T
<1>3. Nat \subseteq T
  BY <1>1, <1>2, Induction
<1>4. len - 1 \in T /\ len - 1 < len /\ (len - 1) + 1 = len
  BY <1>3
<1> QED
  BY <1>4 DEF T

\* The number of the last change is at least that of every file.
LEMMA LastChangeIsLast ==
    ASSUME NEW texts, FileOK(texts)
    PROVE  LastChange \in Nat /\ \A i \in Inodes : disk[i].mtime <= LastChange
<1> DEFINE f == [i \in 1 .. Len(disk) |-> disk[i].mtime]
<1>1. /\ Len(disk) \in Nat \ {0} /\ Inodes = 1 .. Len(disk)
      /\ \A i \in Inodes : disk[i].mtime \in Nat
  BY FileTypes
<1>2. f \in [1 .. Len(disk) -> Nat]
  BY <1>1
<1>3. PICK j \in 1 .. Len(disk) : \A i \in 1 .. Len(disk) : f[i] <= f[j]
  BY <1>1, <1>2, Largest
<1>4. \E m \in {disk[i].mtime : i \in Inodes} : \A i \in Inodes : disk[i].mtime <= m
  BY <1>1, <1>3
<1>5. LastChange \in {disk[i].mtime : i \in Inodes}
      /\ \A i \in Inodes : disk[i].mtime <= LastChange
  BY <1>4 DEF LastChange
<1> QED
  BY <1>1, <1>5

\* Putting a text in the place of the file, or a new file beside it, advances.
LEMMA PutAdvances ==
    ASSUME NEW texts, FileOK(texts), NEW text \in [lines : texts, tail : Tails],
           text.tail # "whole" => text.lines # <<>>,
           \/ disk' = [disk EXCEPT ![path] = Changed(text)] /\ path' = path
           \/ disk' = Append(disk, Changed(text)) /\ path' = Len(disk')
    PROVE  Advances /\ FileOK(texts)'
<1> DEFINE File == [text : [lines : texts, tail : Tails], mtime : Nat]
<1>1. LastChange \in Nat /\ \A i \in Inodes : disk[i].mtime <= LastChange
  BY LastChangeIsLast
<1>2. /\ Changed(text) \in File /\ Changed(text).text = text
      /\ \A i \in Inodes : Changed(text).mtime > disk[i].mtime
  <2>1. \A i \in Inodes : disk[i].mtime \in Nat
    BY FileTypes
  <2> QED
    BY <1>1, <2>1 DEF Changed
<1>3. /\ disk \in Seq(File) /\ path \in 1 .. Len(disk) /\ Inodes = 1 .. Len(disk)
      /\ Len(disk) \in Nat
  BY FileTypes DEF FileOK
<1> DEFINE new == Changed(text)
<1> HIDE DEF new, File
<1>4. CASE disk' = [disk EXCEPT ![path] = new] /\ path' = path
  <2>1. /\ disk' \in Seq(File) /\ Len(disk') = Len(disk)
        /\ \A j \in 1 .. Len(disk) : disk'[j] = IF j = path THEN new ELSE disk[j]
    BY <1>2, <1>3, <1>4, ExceptSeq DEF new
  <2>2. DOMAIN disk' = 1 .. Len(disk)
    BY <1>3, <2>1
  <2> QED
    BY <1>2, <1>3, <1>4, <2>1, <2>2 DEF Advances, FileOK, Inodes, new, File
<1>5. CASE disk' = Append(disk, new) /\ path' = Len(disk')
  <2>1. /\ disk' \in Seq(File) /\ Len(disk') = Len(disk) + 1
        /\ disk'[Len(disk) + 1] = new
        /\ \A j \in 1 .. Len(disk) : disk'[j] = disk[j]
    BY <1>2, <1>3, <1>5, AppendProperties DEF new
  <2>2. DOMAIN disk' = 1 .. Len(disk) + 1
    BY <1>3, <2>1
  <2> QED
    BY <1>2, <1>3, <1>5, <2>1, <2>2 DEF Advances, FileOK, Inodes, new, File
<1> QED
  BY <1>4, <1>5 DEF new

\* A stamp stays a stamp.
LEMMA StampKept ==
    ASSUME NEW texts, FileOK(texts), FileOK(texts)', Advances, NEW stamp, StampOK(stamp)
    PROVE  StampOK(stamp)'
<1> DEFINE i == stamp.inode
<1>1. i \in Inodes /\ i \in DOMAIN disk'
  BY DEF StampOK, Advances
<1>2. disk[i].mtime \in Nat
  BY <1>1, FileTypes
<1>3. disk'[i].mtime \in Nat
  <2> DEFINE File == [text : [lines : texts, tail : Tails], mtime : Nat]
  <2>1. disk' \in Seq(File)
    BY DEF FileOK
  <2> HIDE DEF File
  <2>2. disk'[i] \in File
    BY <1>1, <2>1, LenProperties, ElementOfSeq
  <2> QED
    BY <2>2 DEF File
<1> QED
  BY <1>1, <1>2, <1>3 DEF StampOK, Advances, Inodes

-----------------------------------------------------------------------------
(* Sequences, whatever their elements are.                                  *)

IsSeq(x) == \E S : x \in Seq(S)

\* Two sequences have a common set of elements.
LEMMA Common ==
    ASSUME NEW x, IsSeq(x), NEW y, IsSeq(y)
    PROVE  \E S : x \in Seq(S) /\ y \in Seq(S)
<1>1. PICK S, T : x \in Seq(S) /\ y \in Seq(T)
  BY DEF IsSeq
<1>2. x \in Seq(S \cup T) /\ y \in Seq(S \cup T)
  BY <1>1, SeqMonotonic
<1> QED
  BY <1>2

LEMMA SeqConcat ==
    ASSUME NEW x, IsSeq(x), NEW y, IsSeq(y)
    PROVE  /\ IsSeq(x \o y) /\ <<>> \o x = x /\ x \o <<>> = x
           /\ Len(x \o y) = Len(x) + Len(y)
<1>1. PICK S : x \in Seq(S) /\ y \in Seq(S)
  BY Common
<1>2. /\ x \o y \in Seq(S) /\ <<>> \o x = x /\ x \o <<>> = x
      /\ Len(x \o y) = Len(x) + Len(y)
  BY <1>1, ConcatProperties, ConcatEmptySeq
<1> QED
  BY <1>2 DEF IsSeq

LEMMA SeqAssociative ==
    ASSUME NEW x, IsSeq(x), NEW y, IsSeq(y), NEW z, IsSeq(z)
    PROVE  (x \o y) \o z = x \o (y \o z)
<1>1. PICK S : x \in Seq(S) /\ y \in Seq(S)
  BY Common
<1>2. PICK T : z \in Seq(T)
  BY DEF IsSeq
<1>3. x \in Seq(S \cup T) /\ y \in Seq(S \cup T) /\ z \in Seq(S \cup T)
  BY <1>1, <1>2, SeqMonotonic
<1> QED
  BY <1>3, ConcatAssociative

LEMMA SeqAppend ==
    ASSUME NEW x, IsSeq(x), NEW e
    PROVE  /\ IsSeq(Append(x, e)) /\ IsSeq(<<e>>) /\ Append(x, e) = x \o <<e>>
           /\ Len(x) \in Nat /\ Len(Append(x, e)) = Len(x) + 1
           /\ Append(x, e)[Len(x) + 1] = e
           /\ \A i \in 1 .. Len(x) : Append(x, e)[i] = x[i]
<1>1. PICK S : x \in Seq(S)
  BY DEF IsSeq
<1> DEFINE T == S \cup {e}
<1>2. x \in Seq(T) /\ e \in T
  BY <1>1, SeqMonotonic
<1> HIDE DEF T
<1>3. <<e>> \in Seq(T)
  BY <1>2
<1>4. Append(x, e) \in Seq(T) /\ Append(x, e) = x \o <<e>>
  BY <1>2, AppendProperties, AppendIsConcat
<1>5. /\ Len(x) \in Nat /\ Len(Append(x, e)) = Len(x) + 1
      /\ Append(x, e)[Len(x) + 1] = e
      /\ \A i \in 1 .. Len(x) : Append(x, e)[i] = x[i]
  BY <1>2, LenProperties, AppendProperties
<1> QED
  BY <1>3, <1>4, <1>5 DEF IsSeq

LEMMA SeqEquality ==
    ASSUME NEW x, IsSeq(x), NEW y, IsSeq(y),
           Len(x) = Len(y), \A i \in 1 .. Len(x) : x[i] = y[i]
    PROVE  x = y
<1>1. PICK S : x \in Seq(S) /\ y \in Seq(S)
  BY Common
<1> QED
  BY <1>1, SeqEqual

LEMMA SeqLength ==
    ASSUME NEW x, IsSeq(x)
    PROVE  Len(x) \in Nat /\ DOMAIN x = 1 .. Len(x) /\ (Len(x) = 0 <=> x = <<>>)
<1>1. PICK S : x \in Seq(S)
  BY DEF IsSeq
<1> QED
  BY <1>1, LenProperties, EmptySeq

LEMMA NoSeq == IsSeq(<<>>) /\ Len(<<>>) = 0
BY EmptySeq DEF IsSeq

-----------------------------------------------------------------------------
(* Reading.                                                                *)

\* The sizes of a text, in thirds of a line.
LEMMA Sizes ==
    ASSUME NEW text, Len(text.lines) \in Nat, text.tail \in Tails,
           text.tail # "whole" => Len(text.lines) # 0
    PROVE  /\ Size(text) \in Nat
           /\ text.tail = "whole" => Size(text) = 3 * Len(text.lines)
           /\ text.tail = "open" => Size(text) = 3 * Len(text.lines) - 1
           /\ text.tail = "half" => Size(text) = 3 * Len(text.lines) - 2
BY DEF Size, Tails

\* What is read at the end of a line is the next line, and the position after it
\* tells how it ended; in the middle of one, the rest of that line.
LEMMA ReadNext ==
    ASSUME NEW i, NEW at \in Nat, More(i, at), NEW malformed, NEW blank,
           Len(disk[i].text.lines) \in Nat, disk[i].text.tail \in Tails,
           disk[i].text.tail # "whole" => Len(disk[i].text.lines) # 0
    PROVE  LET text == disk[i].text
               next == ReadLine(i, at, malformed, blank)
           IN  /\ next.at \in Nat
               /\ \/ next.line \in {malformed, blank}
                  \/ \E n \in 1 .. Len(text.lines) : next.line = text.lines[n]
               /\ \A n \in Nat : at = 3 * n =>
                    /\ at % 3 = 0 /\ n + 1 <= Len(text.lines)
                    /\ next.line = text.lines[n + 1] \/ next.line = malformed
                    /\ \/ next.at = 3 * (n + 1) /\ next.newline
                          /\ 3 * (n + 1) <= Size(text)
                       \/ /\ next.at = 3 * (n + 1) - 1 /\ ~next.newline
                          /\ n + 1 = Len(text.lines) /\ text.tail = "open"
                       \/ next.line = malformed
               /\ \A n \in Nat : at = 3 * (n + 1) - 1 =>
                    /\ at % 3 # 0 /\ next.line = blank
                    /\ next.at = 3 * (n + 1) /\ next.newline
<1> DEFINE text == disk[i].text
           len == Len(text.lines)
           size == Size(text)
           m == at \div 3
           tail == IF m + 1 < len THEN "whole" ELSE text.tail
           next == ReadLine(i, at, malformed, blank)
<1>1. /\ text.tail \in Tails /\ len \in Nat /\ size \in Nat
      /\ text.tail = "whole" => size = 3 * len
      /\ text.tail = "open" => size = 3 * len - 1
      /\ text.tail = "half" => size = 3 * len - 2
  BY Sizes
<1>2. size > at
  BY DEF More
<1>3. /\ m \in Nat /\ 3 * m <= at /\ at < 3 * m + 3
      /\ at % 3 = at - 3 * m
  OBVIOUS
<1>5. next = IF at % 3 # 0
             THEN [line |-> blank, newline |-> tail = "whole", at |-> 3 * (m + 1)]
             ELSE CASE tail = "whole" -> [line |-> text.lines[m + 1], newline |-> TRUE,
                                          at |-> 3 * (m + 1)]
                    [] tail = "open" -> [line |-> text.lines[m + 1], newline |-> FALSE,
                                         at |-> 3 * (m + 1) - 1]
                    [] tail = "half" -> [line |-> malformed, newline |-> FALSE,
                                         at |-> 3 * (m + 1) - 2]
  BY DEF ReadLine
<1> HIDE DEF text, len, size, m, next
<1>6. m + 1 <= len /\ (m + 1 < len => 3 * (m + 1) <= size)
  BY <1>1, <1>2, <1>3 DEF Tails
<1>7. tail \in Tails /\ (tail # "whole" => m + 1 = len /\ tail = text.tail)
  BY <1>1, <1>3, <1>6 DEF Tails
<1>8. tail = "whole" => 3 * (m + 1) <= size
  BY <1>1, <1>3, <1>6
<1>9. at = 3 * (m + 1) - 1 => tail = "whole"
  BY <1>1, <1>2, <1>3, <1>6 DEF Tails
<1> HIDE DEF tail
<1>10. /\ next.at \in Nat
       /\ next.line \in {malformed, blank} \/ next.line = text.lines[m + 1]
  BY <1>3, <1>5, <1>7 DEF Tails
<1>11. ASSUME NEW n \in Nat, at = 3 * n
       PROVE  /\ at % 3 = 0 /\ n = m
              /\ next.line = text.lines[n + 1] \/ next.line = malformed
              /\ \/ next.at = 3 * (n + 1) /\ next.newline /\ tail = "whole"
                 \/ next.at = 3 * (n + 1) - 1 /\ ~next.newline /\ tail = "open"
                 \/ next.line = malformed
  <2>1. n = m /\ at % 3 = 0
    BY <1>3, <1>11
  <2> QED
    BY <1>5, <1>7, <2>1 DEF Tails
<1>12. ASSUME NEW n \in Nat, at = 3 * (n + 1) - 1
       PROVE  /\ at % 3 # 0 /\ next.line = blank
              /\ next.at = 3 * (n + 1) /\ next.newline
  <2>1. n = m /\ at % 3 # 0
    BY <1>3, <1>12
  <2> QED
    BY <1>5, <1>9, <1>12, <2>1
<1>13. m + 1 \in 1 .. len
  BY <1>1, <1>3, <1>6
<1> QED
  BY <1>6, <1>7, <1>8, <1>10, <1>11, <1>12, <1>13 DEF text, len, size, next
=============================================================================
