------------------------------ MODULE WordFile ------------------------------
(***************************************************************************)
(* What reading, writing and truncating promise: a file is a sequence of   *)
(* words.  A write puts its words at its offset, and a truncation leaves a *)
(* prefix or adds zeros.  When the disk is full a prefix of the request is *)
(* carried out.  A gap in front of the words written reads as zeros, or as *)
(* anything once the disk hands out blocks a second time.                  *)
(*                                                                         *)
(* When the disk is full before the first word is written, the file ends   *)
(* at the offset of the write all the same, and the end of the gap is      *)
(* missing: it cannot be read until another write gets further.            *)
(*                                                                         *)
(* A request cut short by a crash may have changed words it was about, and *)
(* no others; the length is then the old one.                              *)
(***************************************************************************)
EXTENDS Integers, SequencesExt

CONSTANTS
  Inode,      \* the files
  MaxWords,   \* bound: the length of a file
  Missing     \* stands for a word that is not there

VARIABLES
  file,      \* the words of each file
  answer,    \* the result of the last request: how it ended, words written, or read
  recycled   \* the disk may hand out blocks that held words before: an input

vars == <<file, answer>>

Nothing == [result |-> "done", written |-> 0, data |-> << >>]

Error(result) == [Nothing EXCEPT !.result = result]

Init ==
  /\ file = [i \in Inode |-> << >>]
  /\ answer = Nothing

\* The k-th word of the buffer of a write.
Data(k) == -k

\* The words of a file that are there: those in front of the first missing one.
There(old) == Cardinality({k \in 1 .. Len(old) : old[k] # Missing})

\* A word of a gap is clear, or missing when nothing was written behind it.
GapWord(word, count) ==
  \/ word = 0
  \/ recycled /\ word # Missing
  \/ count = 0 /\ word = Missing

\* Words are missing at the end of a file only.
MissingAtEnd(new) == \A k \in 1 .. Len(new) - 1 : new[k] = Missing => new[k + 1] = Missing

\* new is the file old after a write of count words at an offset.
Put(old, new, offset, count, Wanted(_)) ==
  /\ Len(new) = IF offset + count > There(old) THEN offset + count ELSE There(old)
  /\ \A k \in 1 .. Len(new) :
       IF offset < k /\ k <= offset + count THEN new[k] = Wanted(k - offset)
       ELSE IF k <= There(old) THEN new[k] = old[k]
       ELSE GapWord(new[k], count)
  /\ MissingAtEnd(new)

Others(i) == \A j \in Inode \ {i} : file'[j] = file[j]

\* The first words of the buffer, as many as the answer says: none when the disk
\* was full before the first one.
Write(i, offset) ==
  LET count == answer'.written
  IN  /\ answer' = [Nothing EXCEPT !.written = count]
      /\ Put(file[i], file'[i], offset, count, Data)
      /\ Others(i)

WriteNothing ==
  /\ answer' = Nothing
  /\ UNCHANGED file

\* A file cannot be cut at a word that is missing; where the blocks are recycled
\* there may be something in its place.
Shorten(i, n) ==
  LET old == file[i]
      cut == /\ answer' = Nothing
             /\ file' = [file EXCEPT ![i] = SubSeq(old, 1, n)]
  IN  /\ n <= Len(old)
      /\ IF n = 0 \/ n <= There(old) THEN cut
         ELSE \/ answer' = Error("failed") /\ UNCHANGED file
              \/ recycled /\ cut

\* n words more, or as many as the disk has room for.
Lengthen(i, n) ==
  \E count \in 0 .. n :
    /\ Put(file[i], file'[i], Len(file[i]), count, LAMBDA k : 0)
    /\ Others(i)
    /\ answer' = IF count = n THEN Nothing ELSE Error("failed")

\* What there is of the n words from an offset on.
Read(i, offset, n) ==
  LET old  == file[i]
      upto == IF offset + n < Len(old) THEN offset + n ELSE Len(old)
      data == answer'.data
  IN  /\ IF n = 0 \/ Len(old) = 0 THEN answer' = Nothing
         ELSE IF offset >= Len(old) THEN answer' = Error("refused")
         ELSE IF upto <= There(old) THEN answer' = [Nothing EXCEPT !.data = SubSeq(old, offset + 1, upto)]
         ELSE \/ answer' = Error("failed")
              \/ /\ recycled
                 /\ answer' = [Nothing EXCEPT !.data = data]
                 /\ Len(data) = upto - offset
                 /\ \A k \in 1 .. Len(data) : offset + k <= There(old) => data[k] = old[offset + k]
      /\ UNCHANGED file

\* A word of file i changes only to what the request wanted there.
Cut(i, Wanted(_)) ==
  /\ answer' = Nothing
  /\ \A j \in Inode : Len(file'[j]) = Len(file[j])
  /\ \A j \in Inode : \A k \in 1 .. Len(file[j]) :
       file'[j][k] # file[j][k] => j = i /\ file'[j][k] = Wanted(k)

WriteCut(i, offset) == Cut(i, LAMBDA k : Data(k - offset))
ShortenCut(i)       == Cut(i, LAMBDA k : 0)

Next ==
  \/ \E i \in Inode :
       \/ \E offset \in 0 .. MaxWords : Write(i, offset) \/ WriteCut(i, offset)
       \/ \E offset \in 0 .. MaxWords, n \in 0 .. MaxWords : Read(i, offset, n)
       \/ \E n \in 0 .. MaxWords : Shorten(i, n)
       \/ \E n \in 1 .. MaxWords : Lengthen(i, n)
       \/ ShortenCut(i)
  \/ WriteNothing

Spec == Init /\ [][Next]_vars
=============================================================================
