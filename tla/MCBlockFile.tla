----------------------------- MODULE MCBlockFile -----------------------------
(***************************************************************************)
(* BlockFile for TLC: files of three blocks of two bytes; the file begins  *)
(* with bytes "a", writes bring bytes "b".                                 *)
(***************************************************************************)
EXTENDS BlockFile

MCBytes == {"0", "a", "b"}
MCBlocks == 0 .. 2
All(x, n) == [i \in 1 .. n |-> x]

MCContents == {All("a", n) : n \in {1, 3}}

Query(op, off, len, data) == [op |-> op, off |-> off, len |-> len, data |-> data]

Writes == {Query("write", off, 0, All("b", n)) : off \in 0 .. 3, n \in 1 .. 2}
Reads == {Query("read", 1, 4, <<>>)}
Opens == {Query("open", 0, 0, <<>>)}
Grows == {Query("setattr", 0, 5, <<>>)}
Shrinks == {Query("setattr", 0, 1, <<>>)}

MCQueries == Writes \cup Reads \cup Opens \cup Grows \cup Shrinks
===============================================================================
