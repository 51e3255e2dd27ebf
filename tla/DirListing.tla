------------------------------ MODULE DirListing ------------------------------
(***************************************************************************)
(* A directory is listed (fuse_opendir, fuse_readdir, fuse_releasedir)     *)
(* while it changes.  The open directory is an iterator over the inode's   *)
(* keys, in a read transaction that sees the database as it was at         *)
(* opendir; each reply takes as many names as fit in its buffer and leaves *)
(* the iterator at the first that did not.                                 *)
(*                                                                         *)
(* readdir's loop runs without a break but is written one entry at a time: *)
(* `filling' is the directory the main loop is in the middle of.           *)
(*                                                                         *)
(* The kernel reads on where the last reply ended; the handler ignores the *)
(* offset it sends.  Left open: the order of the names, and what fits.     *)
(* Waiting for the directory's inode is in FuseRequests.                   *)
(***************************************************************************)
EXTENDS KvIterator, Sequences, SequencesExt

CONSTANTS Handles, Names, Nobody,
          Unread,       \* stands for "no reply yet"
          MaxRoom,      \* names that fit in a buffer, at least one does
          MaxChanges    \* bound: changes to the directory

ASSUME ListingAssumption ==
    /\ Nobody \notin Handles
    /\ IsFiniteSet(Names)
    /\ MaxRoom \in Nat \ {0} /\ MaxChanges \in Nat

VARIABLES entries,    \* the directory in the database
          is_local,   \* whether it has a copy there
          changes,    \* so far
          asked,      \* the request under way for each handle
          reply,      \* the names the last readdir returned
          snap,       \* what the transaction of each handle sees of the directory
          fh,         \* its iterator, NoIterator when it is not open
          filling, room, buffer   \* readdir's loop

directory == <<entries, is_local, changes>>
loop == <<filling, room, buffer>>
vars == <<directory, asked, reply, snap, fh, loop>>

NoIterator == [len |-> 0, cursor |-> 0, location |-> 0]

Requests == {"opendir", "readdir", "releasedir"}

TypeOK ==
    /\ entries \subseteq Names /\ is_local \in BOOLEAN /\ changes \in Nat
    /\ asked \in [Handles -> Requests \cup {"nothing"}]
    /\ reply \in [Handles -> Seq(Names) \cup {Unread}]
    /\ snap \in [Handles -> Seq(Names)]
    /\ fh \in [Handles -> Iterators \cup {NoIterator}]
    /\ filling \in Handles \cup {Nobody} /\ room \in Nat /\ buffer \in Seq(Names)

Init ==
    /\ entries \in SUBSET Names /\ is_local \in BOOLEAN /\ changes = 0
    /\ asked = [h \in Handles |-> "nothing"]
    /\ reply = [h \in Handles |-> Unread]
    /\ snap = [h \in Handles |-> <<>>]
    /\ fh = [h \in Handles |-> NoIterator]
    /\ filling = Nobody /\ room = 0 /\ buffer = <<>>

IsOpen(h) == fh[h] # NoIterator

\* Slips: the directory's keys are the last of the database; its own key is
\* not counted.
NothingFollows(names) == Len(names) + 1
OwnKeyForgotten(names) == Len(names)

\* The keys of the transaction from the directory's own (1) on: its entries,
\* and then the first key of something else.  There is one always: the
\* revisions of inodes (\x03) follow the inodes (\x01).
KeysOf(names) == Len(names) + 2

\* S3FS_Store_MetaIterator::isValid, key and next, of an iterator on the
\* directory with these names.
MetaValid(it, names) == isValid(it) /\ Settled(it).cursor <= Len(names) + 1
AtOwnKey(it) == Settled(it).cursor = 1
Key(it, names) == names[Settled(it).cursor - 1]
MetaNext(it, names) == hasNext(it) /\ MetaValid(next(it), names)

-----------------------------------------------------------------------------

\* The kernel: opendir first, then reads one after the other, releasedir.
Ask(h) ==
    /\ asked[h] = "nothing"
    /\ \E op \in Requests :
          /\ op = "opendir" <=> ~IsOpen(h)
          /\ asked' = [asked EXCEPT ![h] = op]
    /\ UNCHANGED <<directory, reply, snap, fh, loop>>

\* A handler that got past WAIT_READY and GET_INODE.
Runs(h, op) == filling = Nobody /\ asked[h] = op /\ is_local

Answered(h) == asked' = [asked EXCEPT ![h] = "nothing"]

Opendir(h) ==
    /\ Runs(h, "opendir")
    /\ Answered(h)
    /\ \E names \in SetToSeqs(entries) :
          /\ snap' = [snap EXCEPT ![h] = names]
          /\ fh' = [fh EXCEPT ![h] = Found(KeysOf(names), 1)]
    /\ reply' = [reply EXCEPT ![h] = Unread]
    /\ UNCHANGED <<directory, loop>>

\* Of the size the kernel asks for.
PrepareBuffer == room' \in 1 .. MaxRoom /\ buffer' = <<>>

Readdir(h) ==
    /\ Runs(h, "readdir")
    /\ filling' = h /\ PrepareBuffer
    /\ UNCHANGED <<directory, asked, reply, snap, fh>>

\* dir_send
Send(h, names) ==
    /\ Answered(h)
    /\ reply' = [reply EXCEPT ![h] = names]
    /\ filling' = Nobody /\ room' = 0 /\ buffer' = <<>>

\* Over the directory's own key to its first entry.
Entered(it) == IF AtOwnKey(it) THEN next(it) ELSE it

AtEnd(it, names) == ~MetaValid(it, names) \/ (AtOwnKey(it) /\ ~MetaNext(it, names))

\* dir_add succeeds.
Fits == room > 0

\* One round of the loop: at the end, full, or with one name more.
SendAtEnd(h) ==
    /\ filling = h
    /\ AtEnd(fh[h], snap[h])
    /\ fh' = [fh EXCEPT ![h] = Entered(fh[h])]
    /\ Send(h, buffer)
    /\ UNCHANGED <<directory, snap>>

\* Slip: the iterator goes on although the name did not fit.
Skipped(it) == next(Entered(it))

\* The iterator of a reply that is full.
Kept(it) == Entered(it)

SendWhenFull(h) ==
    /\ filling = h
    /\ ~AtEnd(fh[h], snap[h])
    /\ ~Fits
    /\ fh' = [fh EXCEPT ![h] = Kept(fh[h])]
    /\ Send(h, buffer)
    /\ UNCHANGED <<directory, snap>>

DirAdd(h) ==
    /\ filling = h
    /\ ~AtEnd(fh[h], snap[h])
    /\ Fits
    /\ LET it == Entered(fh[h])
           names == Append(buffer, Key(it, snap[h]))
       IN  /\ fh' = [fh EXCEPT ![h] = next(it)]
           /\ IF MetaNext(it, snap[h])
              THEN /\ buffer' = names /\ room' = room - 1
                   /\ UNCHANGED <<filling, asked, reply>>
              ELSE Send(h, names)
    /\ UNCHANGED <<directory, snap>>

Releasedir(h) ==
    /\ Runs(h, "releasedir")
    /\ Answered(h)
    /\ fh' = [fh EXCEPT ![h] = NoIterator]
    /\ snap' = [snap EXCEPT ![h] = <<>>]
    /\ UNCHANGED <<directory, reply, loop>>

-----------------------------------------------------------------------------

MayChange == filling = Nobody /\ changes < MaxChanges /\ changes' = changes + 1

\* setInodeMeta and removeInodeMeta, of the other operations.
Edit(n) ==
    /\ MayChange /\ is_local
    /\ entries' = IF n \in entries THEN entries \ {n} ELSE entries \cup {n}
    /\ UNCHANGED <<is_local, asked, reply, snap, fh, loop>>

\* learnFile: another node has changed the directory; all its keys go.
DropCopy ==
    /\ MayChange /\ is_local
    /\ is_local' = FALSE
    /\ UNCHANGED <<entries, asked, reply, snap, fh, loop>>

\* receivedInode, with the entries of the new revision.
ReceiveCopy ==
    /\ filling = Nobody /\ ~is_local
    /\ is_local' = TRUE
    /\ entries' \in SUBSET Names
    /\ UNCHANGED <<changes, asked, reply, snap, fh, loop>>

Handler(h) ==
    \/ Opendir(h) \/ Readdir(h) \/ Releasedir(h)
    \/ SendAtEnd(h) \/ SendWhenFull(h) \/ DirAdd(h)

Next ==
    \/ \E h \in Handles : Ask(h) \/ Handler(h)
    \/ \E n \in Names : Edit(n)
    \/ DropCopy \/ ReceiveCopy

\* The main loop runs and the download ends.  Nobody has to read.
Fairness == WF_vars(ReceiveCopy) /\ \A h \in Handles : SF_vars(Handler(h))

Spec == Init /\ [][Next]_vars /\ Fairness

-----------------------------------------------------------------------------

\* The names an iterator has still to come to.
From(it) == IF it.cursor > 1 THEN it.cursor - 1 ELSE 1
Rest(h) == SubSeq(snap[h], From(fh[h]), Len(snap[h]))

Stream == INSTANCE DirStream WITH
              left <- [h \in Handles |-> IF filling = h THEN buffer \o Rest(h) ELSE Rest(h)]

(***************************************************************************)
(* A listing is the directory of one moment, each entry once, in pieces of *)
(* whatever size, while entries come and go and the whole copy is dropped  *)
(* and downloaded again; only the end gives an empty piece.                *)
(***************************************************************************)
IsAStream == Stream!Spec

\* Who reads on and on gets to the end, or has closed the directory.
ListingEnds ==
    \A h \in Handles :
        []<>(asked[h] = "readdir") => []<>(reply[h] = <<>> \/ ~IsOpen(h))
===============================================================================
