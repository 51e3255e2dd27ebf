--------------------------- MODULE MCRevisionClock ---------------------------
(***************************************************************************)
(* RevisionClock for TLC: two nodes with adjacent ids, clocks of one      *)
(* millisecond.                                                            *)
(***************************************************************************)
EXTENDS RevisionClock, TLC

CONSTANTS n1, n2

MCNodes == {n1, n2}
MCNodeId == n1 :> 7 @@ n2 :> 8
=============================================================================
