----------------------------- MODULE StoreMerge -----------------------------
(***************************************************************************)
(* Concurrent changes of one directory.  `added' remembers, for the        *)
(* property alone, the entries that were added to an inode by any node and *)
(* not removed since.                                                      *)
(***************************************************************************)
EXTENDS MCInodeStore

VARIABLE added

MergeInit == Init /\ added = [i \in Inodes |-> {}]

\* A step that counts as an edit adds an entry to a copy or removes one.
MergeNext ==
    /\ Next
    /\ added' = IF used'.edits = used.edits THEN added
                ELSE [i \in Inodes |->
                        LET edited == {n \in Nodes : kv01'[n][i] # kv01[n][i]}
                        IN  (added[i] \cup UNION {kv01'[n][i] \ kv01[n][i] : n \in edited})
                              \ UNION {kv01[n][i] \ kv01'[n][i] : n \in edited}]

MergeSpec == MergeInit /\ [][MergeNext]_<<vars, added>>

\* Everything is uploaded and delivered, every node knows the highest
\* revision and has it, and none is in the middle of anything but a listing.
Quiet ==
    /\ gets = {} /\ doctors = {} /\ puts = {} /\ deletes = {}
    /\ \A n \in Nodes :
        /\ inodes_to_update[n] = {} /\ waiting[n] = {} /\ notes[n] = {}
        /\ \A i \in Inodes : Local(n, i) /\ kv03[n][i] = Latest(RevsIn(i, objects))

(***************************************************************************)
(* README.md says of several revisions of an inode that "all revisions are *)
(* read and merged": once all is quiet, what one node added while another  *)
(* was adding something else is there.  The code keeps the highest         *)
(* revision alone.                                                         *)
(***************************************************************************)
NothingAddedIsLost ==
    Quiet => \A i \in Inodes : \A n \in Nodes : added[i] \subseteq kv01[n][i]
=============================================================================
