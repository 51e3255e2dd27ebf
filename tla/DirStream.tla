------------------------------- MODULE DirStream -------------------------------
(***************************************************************************)
(* What a program may expect of opendir and readdir: the directory as it   *)
(* was at one moment, handed out in pieces, each entry once, whatever      *)
(* happens to the directory meanwhile; an empty piece is the end.          *)
(***************************************************************************)
EXTENDS Naturals, Sequences, SequencesExt

CONSTANTS Handles, Names,
          Unread   \* stands for "no piece yet"

VARIABLES entries,   \* the directory
          asked,     \* the request under way for each handle
          left,      \* what is still to be read
          reply      \* the last piece

vars == <<entries, asked, left, reply>>

Init ==
    /\ entries \in SUBSET Names
    /\ asked = [h \in Handles |-> "nothing"]
    /\ left = [h \in Handles |-> <<>>]
    /\ reply = [h \in Handles |-> Unread]

Change == entries' \in SUBSET Names /\ UNCHANGED <<asked, left, reply>>

Ask(h) ==
    /\ asked[h] = "nothing"
    /\ \E op \in {"opendir", "readdir", "releasedir"} : asked' = [asked EXCEPT ![h] = op]
    /\ UNCHANGED <<entries, left, reply>>

Answer(h, op) == asked[h] = op /\ asked' = [asked EXCEPT ![h] = "nothing"] /\ UNCHANGED entries

Open(h) ==
    /\ Answer(h, "opendir")
    /\ \E order \in SetToSeqs(entries) : left' = [left EXCEPT ![h] = order]
    /\ reply' = [reply EXCEPT ![h] = Unread]

Read(h) ==
    /\ Answer(h, "readdir")
    /\ \E n \in 0 .. Len(left[h]) :
          /\ n = 0 => left[h] = <<>>
          /\ reply' = [reply EXCEPT ![h] = SubSeq(left[h], 1, n)]
          /\ left' = [left EXCEPT ![h] = SubSeq(left[h], n + 1, Len(left[h]))]

Release(h) ==
    /\ Answer(h, "releasedir")
    /\ left' = [left EXCEPT ![h] = <<>>]
    /\ UNCHANGED reply

Next == Change \/ \E h \in Handles : Ask(h) \/ Open(h) \/ Read(h) \/ Release(h)

Spec == Init /\ [][Next]_vars
===============================================================================
