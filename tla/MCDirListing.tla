----------------------------- MODULE MCDirListing -----------------------------
(***************************************************************************)
(* DirListing for TLC: somebody lists a directory of up to four names.     *)
(***************************************************************************)
EXTENDS DirListing

CONSTANTS handle, a, b, c, d

MCHandles == {handle}
MCNames == {a, b, c, d}
===============================================================================
