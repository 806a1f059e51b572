------------------------------ MODULE MCFileIO ------------------------------
(* Instances of FileIO for TLC. *)
EXTENDS FileIO, Truncations

\* Writes of a word or more anywhere, as long as they fit.
AnyWrites ==
  {w \in (0 .. MaxWords) \X (0 .. MaxWords) \X {1, 3, 4, 7} : w[2] + w[3] <= MaxWords}

\* Writes that do not end in front of the end of the file.
MCWrites == {w \in AnyWrites : w[2] + w[3] >= w[1]}

\* All of the file, its middle, what crosses its end or lies behind it, and nothing.
MCReads == {<<0, MaxWords>>, <<1, 4>>, <<3, MaxWords>>, <<0, 0>>}

MCLengths == {0, 1, 2, 5, 6, MaxWords}

\* The file has no block behind the length: there is nothing to remove.
NothingRemoved == {t \in (0 .. MaxBlocks) \X (0 .. MaxBlocks) : t[1] <= t[2]}

\* Also a truncation that keeps all blocks.
MCTruncations == CompleteTruncations \union NothingRemoved
=============================================================================
