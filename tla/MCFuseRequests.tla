---------------------------- MODULE MCFuseRequests ----------------------------
(***************************************************************************)
(* FuseRequests for TLC: a request that needs the root directory and a     *)
(* file (lookup), one that needs the file only, and a getxattr.            *)
(***************************************************************************)
EXTENDS FuseRequests, TLC

CONSTANTS lookup, read, getxattr

MCRequests == {lookup, read, getxattr}
MCNeeds == lookup :> <<1, 2>> @@ read :> <<2>> @@ getxattr :> <<>>
===============================================================================
