----------------------------- MODULE MCInodeStore -----------------------------
(***************************************************************************)
(* InodeStore for TLC: two nodes, inode numbers below 16 (so that the      *)
(* order of their S3 paths is the order of the numbers).                   *)
(***************************************************************************)
EXTENDS InodeStore, TLC

CONSTANTS n1, n2

MCNodes == {n1, n2}
MCNodeId == n1 :> 1 @@ n2 :> 2

\* Values of MaxClock.
Still == n1 :> 0 @@ n2 :> 0
OneAhead == n1 :> 1 @@ n2 :> 0
=============================================================================
