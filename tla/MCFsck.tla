-------------------------------- MODULE MCFsck --------------------------------
(***************************************************************************)
(* Fsck for TLC.  In the beginning the root holds the directory 3 as "a",  *)
(* which holds the empty file 4 as "a"; 2 is the number of an inode that   *)
(* another node creates, 5 and up are new ones.                            *)
(***************************************************************************)
EXTENDS Fsck, TLC

MCNames == {"a", "b"}

MCInitKind == [i \in Inodes |-> IF i \in {1, 3} THEN "dir" ELSE IF i = 4 THEN "file" ELSE "none"]
MCInitMeta ==
    [i \in Inodes |-> IF i = 1 THEN "." :> 1 @@ ".." :> 1 @@ "a" :> 3
                      ELSE IF i = 3 THEN "." :> 3 @@ ".." :> 1 @@ "a" :> 4
                      ELSE <<>>]

MCOrphanName == [i \in Inodes |-> "orphan_" \o ToString(i)]
MCNameOrder == <<".", "..", "a", "b", "lost+found">> \o MCOrphanName
===============================================================================
