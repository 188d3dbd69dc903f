--------------------------- MODULE TranscriptFile ---------------------------
(***************************************************************************)
(* A transcript as its client leaves it on disk: lines that are appended in   *)
(* one write or in pieces, and now and then rewritten, truncated or replaced  *)
(* by another file under the same path.                                      *)
(*                                                                         *)
(* A size is counted in thirds of a line: a half-written line has one, a       *)
(* complete line without its newline two.  Every change has a number, which    *)
(* stands for the modification time; a stamp carries the text it was taken of  *)
(* as history.                                                             *)
(***************************************************************************)
EXTENDS Naturals, Sequences, SequencesExt

CONSTANTS
    Drafts,      \* what a client may come to write: sequences of lines
    MaxChanges,  \* bound: changes of the file
    MaxRewrites  \* bound: changes that are not appends

VARIABLES
    disk,   \* the files by inode number; a replaced one can still be open
    path,   \* the inode the path names
    rewrites

Tails == {"whole", "open", "half"}

\* The lines, and how the last one ends.
Beginnings == UNION {{SubSeq(d, 1, n) : n \in 0 .. Len(d)} : d \in Drafts}
Inodes == DOMAIN disk
Current == disk[path]

Size(text) ==
    3 * Len(text.lines) - (CASE text.tail = "whole" -> 0
                             [] text.tail = "open" -> 1
                             [] text.tail = "half" -> 2)

\* InputSnapshot: identity, modification time and, in the text, the size.
Stamp == [inode |-> path, mtime |-> Current.mtime, text |-> Current.text]

\* InputStamp::is_append_of.
IsAppendOf(stamp, older) ==
    stamp.inode = older.inode /\ Size(stamp.text) > Size(older.text)

FileInit ==
    /\ disk = <<[text |-> [lines |-> <<>>, tail |-> "whole"], mtime |-> 0]>>
    /\ path = 1 /\ rewrites = 0

LastChange == CHOOSE n \in {disk[i].mtime : i \in Inodes} :
                  \A i \in Inodes : disk[i].mtime <= n

Changed(text) == [text |-> text, mtime |-> LastChange + 1]

\* A text with some more lines, or with the part of the last that is missing.
Extensions(text) ==
    LET Longer == {l \in Beginnings :
                       Len(l) > Len(text.lines) /\ IsPrefix(text.lines, l)}
    IN  IF text.tail = "whole"
        THEN {[lines |-> l, tail |-> t] : l \in Longer, t \in Tails}
        ELSE {[text EXCEPT !.tail = t] : t \in {"open", "whole"} \ {text.tail}}

\* The client writes on.
AppendLine ==
    /\ LastChange < MaxChanges
    /\ \E text \in Extensions(Current.text) : disk' = [disk EXCEPT ![path] = Changed(text)]
    /\ UNCHANGED <<path, rewrites>>

\* It overwrites the file, or truncates it, or puts another in its place.
RewriteFile ==
    /\ LastChange < MaxChanges /\ rewrites < MaxRewrites
    /\ rewrites' = rewrites + 1
    /\ \E l \in Beginnings :
        LET written == Changed([lines |-> l, tail |-> "whole"])
        IN  \/ disk' = [disk EXCEPT ![path] = written] /\ path' = path
            \/ disk' = Append(disk, written) /\ path' = Len(disk')

\* The file that was there before comes back under the path.
RestoreFile ==
    /\ \E i \in 1 .. path - 1 : path' = i
    /\ UNCHANGED <<disk, rewrites>>

ChangeFile == AppendLine \/ RewriteFile \/ RestoreFile

-----------------------------------------------------------------------------
(* Reading through an open handle, line by line.                            *)

\* Whether anything is left to read at a position.
More(inode, at) == Size(disk[inode].text) > at

\* BufRead::read_line: the line, whether its newline was read with it, and the
\* position after it.  A half-written line is malformed; after an unterminated
\* line only its newline is left, which reads as a blank line.
ReadLine(inode, at, malformed, blank) ==
    LET text == disk[inode].text
        n == at \div 3 + 1
        tail == IF n < Len(text.lines) THEN "whole" ELSE text.tail
    IN  IF at % 3 # 0 THEN [line |-> blank, newline |-> tail = "whole", at |-> 3 * n]
        ELSE CASE tail = "whole" -> [line |-> text.lines[n], newline |-> TRUE, at |-> 3 * n]
             [] tail = "open" -> [line |-> text.lines[n], newline |-> FALSE, at |-> 3 * n - 1]
             [] tail = "half" -> [line |-> malformed, newline |-> FALSE, at |-> 3 * n - 2]
=============================================================================
