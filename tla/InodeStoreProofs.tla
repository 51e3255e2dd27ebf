--------------------------- MODULE InodeStoreProofs ---------------------------
(***************************************************************************)
(* Proofs about InodeStore, for any number of nodes, inodes and entries,   *)
(* with crashes, redelivered messages and clocks that disagree.            *)
(***************************************************************************)
EXTENDS InodeStore, FiniteSetTheorems, NumberProofs, TLAPS

\* What a node knows of an inode.
Known == Nat \cup {NoRev}

Gets == [node : Nodes, ino : Inodes, rev : Nat]
Doctors == [node : Nodes, ino : Inodes, stage : {"list", "get"}, revs : SUBSET Nat]
Puts == [node : Nodes, ino : Inodes, rev : Nat, body : SUBSET Entries]

\* The numbers a node hands out are naturals.
LEMMA StampType ==
    ASSUME NEW ms \in Nat, NEW id \in Nat, NEW last \in Nat
    PROVE  Stamp(ms, id, last) \in Nat
  BY DEF Stamp

\* The highest and the lowest of a set of revisions.
LEMMA LatestType ==
    ASSUME NEW R \in SUBSET Known
    PROVE  Latest(R) \in Known /\ Earliest(R) \in Known
<1>1. Latest(R) \in R \cup {NoRev}
  BY DEF Latest
<1>2. Earliest(R) \in R \cup {NoRev}
  BY DEF Earliest
<1> QED
  BY <1>1, <1>2 DEF Known

\* Learning leaves a node with a revision or with none.
LEMMA LearnedType ==
    ASSUME TypeOK, NEW n \in Nodes, NEW i \in Inodes, NEW R \in SUBSET Nat
    PROVE  Learned(n, i, R) \in Known
<1>1. kv03[n][i] \in Known
  BY DEF TypeOK, Known
<1>2. Earliest(R) \in Known
  BY LatestType DEF Known
<1>3. Base(n, i, R) \in Known
  BY <1>1, <1>2 DEF Base
<1>4. R \cup {Base(n, i, R)} \in SUBSET Known
  BY <1>3 DEF Known
<1>5. Latest(R \cup {Base(n, i, R)}) \in Known
  BY <1>4, LatestType
<1> QED
  BY <1>3, <1>5 DEF Learned

\* What learnFile does to the types, from a listing or from a message.
LEMMA LearnType ==
    ASSUME StoreAssumption, TypeOK, NEW n \in Nodes, NEW names \in SUBSET Names,
           NEW in_list \in BOOLEAN, Learn(n, names, in_list)
    PROVE  /\ kv01' \in [Nodes -> [Inodes -> Copies]]
           /\ kv03' \in [Nodes -> [Inodes -> Known]]
           /\ deletes' \in SUBSET Gets
<1>1. \A i \in Inodes : RevsIn(i, names) \in SUBSET Nat
  BY DEF RevsIn, Names
<1>2. \A i \in Inodes : Learned(n, i, RevsIn(i, names)) \in Known
  BY <1>1, LearnedType
<1>3. kv03[n] \in [Inodes -> Known] /\ kv01[n] \in [Inodes -> Copies]
  BY DEF TypeOK, Known
<1>4. kv03' \in [Nodes -> [Inodes -> Known]]
  <2> DEFINE known == [i \in Inodes |-> IF RevsIn(i, names) = {} THEN kv03[n][i]
                                        ELSE Learned(n, i, RevsIn(i, names))]
  <2>1. known \in [Inodes -> Known]
    BY <1>2, <1>3
  <2>2. kv03' = [kv03 EXCEPT ![n] = known]
    BY DEF Learn
  <2> HIDE DEF known
  <2> QED
    BY <2>1, <2>2 DEF TypeOK, Known
<1>5. kv01' \in [Nodes -> [Inodes -> Copies]]
  <2> DEFINE copies == [i \in Inodes |-> IF DropsCopy(n, i, RevsIn(i, names)) THEN NotLocal
                                         ELSE kv01[n][i]]
  <2>1. copies \in [Inodes -> Copies]
    BY <1>3 DEF Copies
  <2>2. kv01' = [kv01 EXCEPT ![n] = copies]
    BY DEF Learn
  <2> HIDE DEF copies
  <2> QED
    BY <2>1, <2>2 DEF TypeOK
<1>6. deletes' \in SUBSET Gets
  <2>1. \A o \in names : [node |-> n, ino |-> o.ino, rev |-> o.rev] \in Gets
    BY DEF Names, Gets
  <2> QED
    BY <2>1 DEF Learn, TypeOK, Gets
<1> QED
  BY <1>4, <1>5, <1>6

\* A copy into which data was inserted is a copy.
LEMMA OverType ==
    ASSUME NEW copy \in Copies, NEW body \in SUBSET Entries
    PROVE  Over(copy, body) \in SUBSET Entries
  BY DEF Over, Copies

-----------------------------------------------------------------------------

\* TypeOK with the abbreviations of this module.
LEMMA TypesAgain ==
    TypeOK <=> /\ clock \in [Nodes -> Nat]
               /\ last_inode_rev \in [Nodes -> Nat]
               /\ kv01 \in [Nodes -> [Inodes -> Copies]]
               /\ kv03 \in [Nodes -> [Inodes -> Known]]
               /\ list_ready \in [Nodes -> BOOLEAN]
               /\ is_ready \in [Nodes -> BOOLEAN]
               /\ inodes_to_update \in [Nodes -> SUBSET Inodes]
               /\ waiting \in [Nodes -> SUBSET Inodes]
               /\ gets \in SUBSET Gets
               /\ doctors \in SUBSET Doctors
               /\ puts \in SUBSET Puts
               /\ deletes \in SUBSET Gets
               /\ objects \in SUBSET Objects
               /\ notes \in [Nodes -> SUBSET Names]
               /\ listing \in [Nodes -> Listings]
               /\ used \in [edits : Nat, faults : Nat, created : SUBSET Inodes]
  BY DEF TypeOK, Known, Gets, Doctors, Puts

LEMMA InitType == StoreAssumption /\ Init => TypeOK
<1> SUFFICES ASSUME StoreAssumption, Init
             PROVE  TypeOK
  OBVIOUS
<1>1. FreshListing \in Listings
  BY DEF FreshListing, Listings
<1>2. objects \in SUBSET Objects
  <2>1. (Epoch - 1) * 1000 \in Nat
    BY DEF StoreAssumption
  <2>2. \A i \in Initial : [ino |-> i, rev |-> (Epoch - 1) * 1000, body |-> {}] \in Objects
    BY <2>1 DEF StoreAssumption, Objects
  <2> QED
    BY <2>2 DEF Init
<1>3. used \in [edits : Nat, faults : Nat, created : SUBSET Inodes]
  BY DEF Init, StoreAssumption
<1>4. listing \in [Nodes -> Listings]
  BY <1>1 DEF Init
<1>5. /\ kv01 \in [Nodes -> [Inodes -> Copies]]
      /\ kv03 \in [Nodes -> [Inodes -> Known]]
  BY DEF Init, Copies, Known
<1> QED
  BY <1>2, <1>3, <1>4, <1>5, TypesAgain DEF Init

(***************************************************************************)
(* One step after another.                                                 *)
(***************************************************************************)
LEMMA TickType ==
    ASSUME TypeOK, NEW n \in Nodes, Tick(n)
    PROVE  TypeOK'
  BY DEF TypeOK, Tick, wireVars

LEMMA ListAnswerType ==
    ASSUME TypeOK, NEW n \in Nodes, ListAnswer(n)
    PROVE  TypeOK'
<1> DEFINE rest == {[ino |-> o.ino, rev |-> o.rev] :
                       o \in {p \in objects : Before(listing[n].after, p)}}
           page == {o \in rest : Cardinality({p \in rest : Before(p, o)}) < PageSize}
<1>1. rest \in SUBSET Names
  BY DEF TypeOK, Objects, Names
<1>2. page \in SUBSET Names
  BY <1>1
<1>3. listing' = [listing EXCEPT ![n].stage = "answered", ![n].page = page,
                                 ![n].more = (page # rest)]
  BY DEF ListAnswer
<1>4. (page # rest) \in BOOLEAN
  OBVIOUS
<1>5. listing[n] \in Listings
  BY DEF TypeOK
<1> DEFINE more == (page # rest)
<1> HIDE DEF page, more
<1>6. [listing[n] EXCEPT !.stage = "answered", !.page = page, !.more = more] \in Listings
  BY <1>2, <1>4, <1>5 DEF Listings, more
<1>7. listing' = [listing EXCEPT ![n] =
                    [listing[n] EXCEPT !.stage = "answered", !.page = page, !.more = more]]
  BY <1>3 DEF TypeOK, more
<1>8. listing' \in [Nodes -> Listings]
  BY <1>6, <1>7 DEF TypeOK
<1> QED
  BY <1>8 DEF TypeOK, ListAnswer, nodeVars, wireVars

LEMMA ListReceiveType ==
    ASSUME StoreAssumption, TypeOK, NEW n \in Nodes, ListReceive(n)
    PROVE  TypeOK'
<1>1. listing[n].page \in SUBSET Names
  BY DEF TypeOK, Listings
<1>2. /\ kv01' \in [Nodes -> [Inodes -> Copies]]
      /\ kv03' \in [Nodes -> [Inodes -> Known]]
      /\ deletes' \in SUBSET Gets
  BY <1>1, LearnType DEF ListReceive
<1>3. AfterListing(n) \in Listings
  BY DEF AfterListing, FreshListing, Listings
<1>4. \A last \in Names : [FreshListing EXCEPT !.after = last] \in Listings
  BY DEF StoreAssumption, FreshListing, Names, Listings
<1>5. listing' \in [Nodes -> Listings] /\ list_ready' \in [Nodes -> BOOLEAN]
  <2>1. CASE listing[n].more
    <3>1. PICK last \in listing[n].page :
             listing' = [listing EXCEPT ![n] = [FreshListing EXCEPT !.after = last]]
      BY <2>1 DEF ListReceive
    <3>2. [FreshListing EXCEPT !.after = last] \in Listings
      BY <1>1, <1>4
    <3>3. listing' \in [Nodes -> Listings]
      BY <3>1, <3>2 DEF TypeOK
    <3>4. list_ready' = list_ready
      BY <2>1 DEF ListReceive
    <3> QED
      BY <3>3, <3>4 DEF TypeOK
  <2>2. CASE ~listing[n].more
    <3>1. /\ listing' = [listing EXCEPT ![n] = AfterListing(n)]
          /\ list_ready' = [list_ready EXCEPT ![n] = TRUE]
      BY <2>2, Zenon DEF ListReceive
    <3>2. listing' \in [Nodes -> Listings]
      BY <1>3, <3>1 DEF TypeOK
    <3>3. list_ready' \in [Nodes -> BOOLEAN]
      BY <3>1 DEF TypeOK
    <3> QED
      BY <3>2, <3>3
  <2> QED
    BY <2>1, <2>2
<1> QED
  BY <1>2, <1>5 DEF TypeOK, ListReceive, Known, Gets

LEMMA NotifyType ==
    ASSUME StoreAssumption, TypeOK, NEW n \in Nodes, NEW x \in notes[n],
           NEW again \in BOOLEAN, Notify(n, x, again)
    PROVE  TypeOK'
<1>1. {x} \in SUBSET Names
  BY DEF TypeOK
<1>2. /\ kv01' \in [Nodes -> [Inodes -> Copies]]
      /\ kv03' \in [Nodes -> [Inodes -> Known]]
      /\ deletes' \in SUBSET Gets
  BY <1>1, LearnType DEF Notify
<1>3. notes' \in [Nodes -> SUBSET Names]
  BY DEF Notify, TypeOK
<1> QED
  BY <1>2, <1>3 DEF TypeOK, Notify, Known, Gets

LEMMA NeedInodeType ==
    ASSUME TypeOK, NEW n \in Nodes, NEW i \in Inodes, NeedInode(n, i)
    PROVE  TypeOK'
<1>1. kv03[n][i] \in Nat
  BY DEF TypeOK, NeedInode, Has
<1>2. gets' \in SUBSET Gets
  BY <1>1 DEF NeedInode, TypeOK, Gets
<1> QED
  BY <1>2 DEF TypeOK, NeedInode, Gets

LEMMA ReceiveInodeType ==
    ASSUME TypeOK, NEW g \in gets, ReceiveInode(g)
    PROVE  TypeOK'
<1>1. g.node \in Nodes /\ g.ino \in Inodes
  BY DEF TypeOK
<1>2. PICK o \in Found(g.ino, g.rev) :
         kv01' = [kv01 EXCEPT ![g.node][g.ino] = Over(@, o.body)]
  BY DEF ReceiveInode
<1>3. o.body \in SUBSET Entries
  BY DEF Found, TypeOK, Objects
<1>4. Over(kv01[g.node][g.ino], o.body) \in Copies
  BY <1>1, <1>3, OverType DEF TypeOK, Copies
<1>5. kv01' \in [Nodes -> [Inodes -> Copies]]
  BY <1>1, <1>2, <1>4 DEF TypeOK
<1> QED
  BY <1>1, <1>5 DEF TypeOK, ReceiveInode

LEMMA ReceiveNothingType ==
    ASSUME TypeOK, NEW g \in gets, ReceiveNothing(g)
    PROVE  TypeOK'
<1>1. [node |-> g.node, ino |-> g.ino, stage |-> "list", revs |-> {}] \in Doctors
  BY DEF TypeOK, Doctors
<1>2. doctors' \in SUBSET Doctors
  BY <1>1 DEF TypeOK, Doctors, ReceiveNothing
<1> QED
  BY <1>2 DEF TypeOK, ReceiveNothing, Doctors, nodeVars
LEMMA DoctorFailsType ==
    ASSUME TypeOK, NEW d \in doctors, DoctorFails(d)
    PROVE  doctors' \in SUBSET Doctors /\ waiting' \in [Nodes -> SUBSET Inodes]
<1>1. d.node \in Nodes /\ d.ino \in Inodes
  BY DEF TypeOK
<1>2. doctors' \in SUBSET Doctors
  BY DEF TypeOK, Doctors, DoctorFails
<1>3. waiting' \in [Nodes -> SUBSET Inodes]
  BY <1>1 DEF TypeOK, DoctorFails
<1> QED
  BY <1>2, <1>3

\* A doctor that goes on with some revisions of its list.
LEMMA DoctorGoesOn ==
    ASSUME TypeOK, NEW d \in doctors, NEW e \in Doctors
    PROVE  (doctors \ {d}) \cup {e} \in SUBSET Doctors
  BY DEF TypeOK, Doctors

LEMMA DoctorListType ==
    ASSUME TypeOK, NEW d \in doctors, DoctorList(d)
    PROVE  TypeOK'
<1> DEFINE revs == RevsIn(d.ino, objects)
<1>1. revs \in SUBSET Nat
  BY DEF RevsIn, TypeOK, Objects
<1>2. d \in Doctors
  BY DEF TypeOK, Doctors
<1>3. doctors' \in SUBSET Doctors /\ waiting' \in [Nodes -> SUBSET Inodes]
  <2>1. CASE revs = {}
    BY <2>1, DoctorFailsType DEF DoctorList
  <2>2. CASE revs # {}
    <3>1. [d EXCEPT !.stage = "get", !.revs = revs] \in Doctors
      BY <1>1, <1>2 DEF Doctors
    <3>2. /\ doctors' = (doctors \ {d}) \cup {[d EXCEPT !.stage = "get", !.revs = revs]}
          /\ waiting' = waiting
      BY <2>2 DEF DoctorList
    <3> QED
      BY <3>1, <3>2, DoctorGoesOn DEF TypeOK
  <2> QED
    BY <2>1, <2>2
<1> QED
  BY <1>3 DEF TypeOK, DoctorList, Doctors

LEMMA DoctorHealsType ==
    ASSUME TypeOK, NEW d \in doctors, DoctorHeals(d)
    PROVE  TypeOK'
<1>1. d.node \in Nodes /\ d.ino \in Inodes
  BY DEF TypeOK
<1>2. PICK o \in Found(d.ino, Latest(d.revs)) :
         kv01' = [kv01 EXCEPT ![d.node][d.ino] = Over(@, o.body)]
  BY DEF DoctorHeals
<1>3. o.body \in SUBSET Entries
  BY DEF Found, TypeOK, Objects
<1>4. Over(kv01[d.node][d.ino], o.body) \in Copies
  BY <1>1, <1>3, OverType DEF TypeOK, Copies
<1>5. kv01' \in [Nodes -> [Inodes -> Copies]]
  BY <1>1, <1>2, <1>4 DEF TypeOK
<1>6. kv03' \in [Nodes -> [Inodes -> Known]]
  BY <1>1 DEF TypeOK, DoctorHeals, Known
<1>7. /\ inodes_to_update' \in [Nodes -> SUBSET Inodes]
      /\ waiting' \in [Nodes -> SUBSET Inodes]
  BY <1>1 DEF TypeOK, DoctorHeals
<1> QED
  BY <1>5, <1>6, <1>7 DEF TypeOK, DoctorHeals, Known

LEMMA DoctorRetriesType ==
    ASSUME TypeOK, NEW d \in doctors, DoctorRetries(d)
    PROVE  TypeOK'
<1> DEFINE left == d.revs \ {Latest(d.revs)}
<1>1. d \in Doctors
  BY DEF TypeOK, Doctors
<1>2. doctors' \in SUBSET Doctors /\ waiting' \in [Nodes -> SUBSET Inodes]
  <2>1. CASE left = {}
    BY <2>1, DoctorFailsType DEF DoctorRetries
  <2>2. CASE left # {}
    <3>1. [d EXCEPT !.revs = left] \in Doctors
      BY <1>1 DEF Doctors
    <3>2. /\ doctors' = (doctors \ {d}) \cup {[d EXCEPT !.revs = left]}
          /\ waiting' = waiting
      BY <2>2 DEF DoctorRetries
    <3> QED
      BY <3>1, <3>2, DoctorGoesOn DEF TypeOK
  <2> QED
    BY <2>1, <2>2
<1> QED
  BY <1>2 DEF TypeOK, DoctorRetries, Doctors

LEMMA StoreReadyType ==
    ASSUME StoreAssumption, TypeOK, NEW n \in Nodes, StoreReady(n)
    PROVE  TypeOK'
<1>1. is_ready' \in [Nodes -> BOOLEAN]
  BY DEF StoreReady, TypeOK
<1>2. CASE Root \notin Inodes
  <2>1. UNCHANGED <<kv01, kv03, inodes_to_update, gets>>
    BY <1>2 DEF StoreReady
  <2> QED
    BY <1>1, <2>1 DEF StoreReady, TypeOK
<1>3. CASE Root \in Inodes
  <2>1. /\ kv01' \in [Nodes -> [Inodes -> Copies]]
        /\ kv03' \in [Nodes -> [Inodes -> Known]]
        /\ inodes_to_update' \in [Nodes -> SUBSET Inodes]
        /\ kv03'[n][Root] \in Nat
    <3>1. CASE Has(n, Root)
      <4>1. UNCHANGED <<kv01, kv03, inodes_to_update>>
        BY <1>3, <3>1 DEF StoreReady
      <4>2. kv03[n][Root] \in Nat
        BY <1>3, <3>1 DEF TypeOK, Has
      <4> QED
        BY <4>1, <4>2 DEF TypeOK, Known
    <3>2. CASE ~Has(n, Root)
      <4>1. /\ kv01' = [kv01 EXCEPT ![n][Root] = Over(@, {})]
            /\ kv03' = [kv03 EXCEPT ![n][Root] = 0]
            /\ inodes_to_update' = [inodes_to_update EXCEPT ![n] = @ \cup {Root}]
        BY <1>3, <3>2 DEF StoreReady
      <4>2. Over(kv01[n][Root], {}) \in Copies
        BY <1>3, OverType DEF TypeOK, Copies
      <4>3. kv01' \in [Nodes -> [Inodes -> Copies]]
        BY <1>3, <4>1, <4>2 DEF TypeOK
      <4>4. kv03' \in [Nodes -> [Inodes -> Known]] /\ kv03'[n][Root] = 0
        BY <1>3, <4>1 DEF TypeOK, Known
      <4>5. inodes_to_update' \in [Nodes -> SUBSET Inodes]
        BY <1>3, <4>1 DEF TypeOK
      <4> QED
        BY <4>3, <4>4, <4>5
    <3> QED
      BY <3>1, <3>2
  <2>2. gets' \in SUBSET Gets
    <3>1. [node |-> n, ino |-> Root, rev |-> kv03'[n][Root]] \in Gets
      BY <1>3, <2>1 DEF Gets
    <3>2. gets' = gets \/ gets' = gets \cup {[node |-> n, ino |-> Root, rev |-> kv03'[n][Root]]}
      BY <1>3 DEF StoreReady
    <3> QED
      BY <3>1, <3>2 DEF TypeOK, Gets
  <2> QED
    BY <1>1, <2>1, <2>2 DEF StoreReady, TypeOK, Known, Gets
<1> QED
  BY <1>2, <1>3

\* A directory with an entry more or less.
LEMMA EditedType ==
    ASSUME TypeOK, NEW n \in Nodes, NEW i \in Inodes, CanEdit(n, i)
    PROVE  Edited(n, i) \subseteq SUBSET Entries
<1>1. kv01[n][i] \in SUBSET Entries
  BY DEF CanEdit, Local, TypeOK, Copies
<1> QED
  BY <1>1 DEF Edited

\* The bounds are counted in naturals.
LEMMA CountType ==
    ASSUME TypeOK
    PROVE  /\ [used EXCEPT !.edits = @ + 1] \in
                  [edits : Nat, faults : Nat, created : SUBSET Inodes]
           /\ [used EXCEPT !.faults = @ + 1] \in
                  [edits : Nat, faults : Nat, created : SUBSET Inodes]
<1>1. used.edits + 1 \in Nat /\ used.faults + 1 \in Nat
  BY DEF TypeOK
<1> DEFINE e == used.edits + 1
           f == used.faults + 1
<1> HIDE DEF e, f
<1>2. e \in Nat /\ f \in Nat
  BY <1>1 DEF e, f
<1>3. /\ [used EXCEPT !.edits = e] \in [edits : Nat, faults : Nat, created : SUBSET Inodes]
      /\ [used EXCEPT !.faults = f] \in [edits : Nat, faults : Nat, created : SUBSET Inodes]
  BY <1>2 DEF TypeOK
<1> QED
  BY <1>3 DEF e, f

LEMMA ChangeType ==
    ASSUME TypeOK, NEW n \in Nodes, NEW i \in Inodes, NEW body \in SUBSET Entries,
           Change(n, i, body)
    PROVE  /\ kv01' \in [Nodes -> [Inodes -> Copies]]
           /\ inodes_to_update' \in [Nodes -> SUBSET Inodes]
           /\ used' \in [edits : Nat, faults : Nat, created : SUBSET Inodes]
<1>1. kv01' \in [Nodes -> [Inodes -> Copies]]
  BY DEF Change, TypeOK, Copies
<1>2. inodes_to_update' \in [Nodes -> SUBSET Inodes]
  BY DEF Change, TypeOK
<1>3. used' = [used EXCEPT !.edits = @ + 1]
  BY DEF Change
<1>4. used' \in [edits : Nat, faults : Nat, created : SUBSET Inodes]
  BY <1>3, CountType
<1> QED
  BY <1>1, <1>2, <1>4

LEMMA EditInodeType ==
    ASSUME TypeOK, NEW n \in Nodes, NEW i \in Inodes, EditInode(n, i)
    PROVE  TypeOK'
<1>1. PICK body \in Edited(n, i) : Change(n, i, body)
  BY DEF EditInode
<1>2. body \in SUBSET Entries
  BY <1>1, EditedType DEF EditInode
<1>3. kv03' \in [Nodes -> [Inodes -> Known]]
  BY DEF EditInode, TypeOK, Known
<1> QED
  BY <1>1, <1>2, <1>3, ChangeType DEF EditInode, TypeOK, Known, wireVars

LEMMA EditMetaType ==
    ASSUME TypeOK, NEW n \in Nodes, NEW i \in Inodes, EditMeta(n, i)
    PROVE  TypeOK'
<1>1. PICK body \in Edited(n, i) : Change(n, i, body)
  BY DEF EditMeta
<1>2. body \in SUBSET Entries
  BY <1>1, EditedType DEF EditMeta
<1> QED
  BY <1>1, <1>2, ChangeType DEF EditMeta, TypeOK, wireVars

LEMMA CreateInodeType ==
    ASSUME TypeOK, NEW n \in Nodes, NEW i \in Inodes, CreateInode(n, i)
    PROVE  TypeOK'
<1>1. kv01' \in [Nodes -> [Inodes -> Copies]]
  BY DEF CreateInode, TypeOK, Copies
<1>2. kv03' \in [Nodes -> [Inodes -> Known]]
  BY DEF CreateInode, TypeOK, Known
<1>3. inodes_to_update' \in [Nodes -> SUBSET Inodes]
  BY DEF CreateInode, TypeOK
<1>4. used' \in [edits : Nat, faults : Nat, created : SUBSET Inodes]
  BY DEF CreateInode, TypeOK
<1> QED
  BY <1>1, <1>2, <1>3, <1>4 DEF CreateInode, TypeOK, Known, wireVars

LEMMA DestroyInodeType ==
    ASSUME TypeOK, NEW n \in Nodes, NEW i \in Inodes, DestroyInode(n, i)
    PROVE  TypeOK'
<1>1. kv03[n][i] \in Nat
  BY DEF TypeOK, DestroyInode, Has
<1>2. deletes' \in SUBSET Gets
  BY <1>1 DEF DestroyInode, TypeOK, Gets
<1>3. kv03' \in [Nodes -> [Inodes -> Known]]
  BY DEF DestroyInode, TypeOK, Known
<1>4. used' \in [edits : Nat, faults : Nat, created : SUBSET Inodes]
  <2>1. used' = [used EXCEPT !.faults = @ + 1]
    BY DEF DestroyInode
  <2> QED
    BY <2>1, CountType
<1> QED
  BY <1>2, <1>3, <1>4 DEF DestroyInode, TypeOK, Known, Gets
LEMMA UpdateInodesType ==
    ASSUME StoreAssumption, TypeOK, NEW n \in Nodes, UpdateInodes(n)
    PROVE  TypeOK'
<1> DEFINE todo == {i \in inodes_to_update[n] : Local(n, i)}
           count == Cardinality(todo)
<1>1. todo \in SUBSET Inodes
  BY DEF TypeOK
<1>2. count \in Nat /\ (todo # {} => count # 0)
  <2>1. IsFiniteSet(todo)
    BY <1>1, FS_Subset DEF StoreAssumption
  <2> QED
    BY <2>1, FS_CardinalityType, FS_EmptySet
<1>3. First(n) \in Nat
  <2>1. Epoch + clock[n] \in Nat /\ NodeId[n] \in Nat /\ last_inode_rev[n] \in Nat
    BY DEF StoreAssumption, TypeOK
  <2> QED
    BY <2>1, StampType DEF First
<1>4. PICK rank \in [todo -> 0 .. count - 1] :
        /\ puts' = puts \cup {[node |-> n, ino |-> i, rev |-> Uploads(n, todo, rank)[i],
                               body |-> kv01[n][i]] : i \in todo}
        /\ kv03' = [kv03 EXCEPT ![n] =
                       [i \in Inodes |-> IF i \in todo THEN Uploads(n, todo, rank)[i] ELSE @[i]]]
        /\ last_inode_rev' = [last_inode_rev EXCEPT ![n] =
                                 IF todo = {} THEN @ ELSE First(n) + 100 * (count - 1)]
  BY DEF UpdateInodes
<1> DEFINE revs == Uploads(n, todo, rank)
<1>5. revs \in [todo -> Nat]
  <2>1. \A i \in todo : First(n) + 100 * rank[i] \in Nat
    <3> SUFFICES ASSUME NEW i \in todo
                 PROVE  First(n) + 100 * rank[i] \in Nat
      OBVIOUS
    <3>1. rank[i] \in Nat
      BY <1>2, <1>4
    <3> QED
      BY <1>3, <3>1
  <2> QED
    BY <2>1 DEF Uploads
<1>6. \A i \in todo : kv01[n][i] \in SUBSET Entries
  BY <1>1 DEF TypeOK, Copies, Local
<1> HIDE DEF todo, count, revs
<1>7. puts' \in SUBSET Puts
  <2>1. \A i \in todo : [node |-> n, ino |-> i, rev |-> revs[i], body |-> kv01[n][i]] \in Puts
    BY <1>1, <1>5, <1>6 DEF Puts
  <2> QED
    BY <1>4, <2>1 DEF TypeOK, Puts, revs
<1>8. kv03' \in [Nodes -> [Inodes -> Known]]
  <2> DEFINE known == [i \in Inodes |-> IF i \in todo THEN revs[i] ELSE kv03[n][i]]
  <2>1. known \in [Inodes -> Known]
    BY <1>5 DEF TypeOK, Known
  <2>2. kv03' = [kv03 EXCEPT ![n] = known]
    BY <1>4 DEF revs
  <2> HIDE DEF known
  <2> QED
    BY <2>1, <2>2 DEF TypeOK, Known
<1>9. last_inode_rev' \in [Nodes -> Nat]
  <2> DEFINE new == IF todo = {} THEN last_inode_rev[n] ELSE First(n) + 100 * (count - 1)
  <2>1. new \in Nat
    BY <1>2, <1>3 DEF TypeOK
  <2>2. last_inode_rev' = [last_inode_rev EXCEPT ![n] = new]
    BY <1>4
  <2> HIDE DEF new
  <2> QED
    BY <2>1, <2>2 DEF TypeOK
<1>10. inodes_to_update' \in [Nodes -> SUBSET Inodes]
  BY DEF UpdateInodes, TypeOK
<1>11. UNCHANGED <<clock, kv01, list_ready, is_ready, waiting, gets, doctors, deletes,
                  objects, notes, listing, used>>
  BY DEF UpdateInodes
<1> QED
  BY <1>7, <1>8, <1>9, <1>10, <1>11 DEF TypeOK, Known, Puts

LEMMA PutDoneType ==
    ASSUME TypeOK, NEW p \in puts, PutDone(p)
    PROVE  TypeOK'
<1>1. [ino |-> p.ino, rev |-> p.rev, body |-> p.body] \in Objects
  BY DEF TypeOK, Objects
<1>2. objects' \in SUBSET Objects
  BY <1>1 DEF PutDone, TypeOK
<1>3. [ino |-> p.ino, rev |-> p.rev] \in Names
  BY DEF TypeOK, Names
<1>4. notes' \in [Nodes -> SUBSET Names]
  BY <1>3 DEF PutDone, TypeOK
<1> QED
  BY <1>2, <1>4 DEF PutDone, TypeOK, nodeVars

LEMMA DeleteDoneType ==
    ASSUME TypeOK, NEW d \in deletes, DeleteDone(d)
    PROVE  TypeOK'
  BY DEF DeleteDone, TypeOK, nodeVars

LEMMA CrashType ==
    ASSUME TypeOK, NEW n \in Nodes, Crash(n)
    PROVE  TypeOK'
<1>1. used' \in [edits : Nat, faults : Nat, created : SUBSET Inodes]
  <2>1. used' = [used EXCEPT !.faults = @ + 1]
    BY DEF Crash
  <2> QED
    BY <2>1, CountType
<1>2. clock' \in [Nodes -> Nat]
  BY DEF Crash, TypeOK
<1>3. /\ last_inode_rev' \in [Nodes -> Nat]
      /\ is_ready' \in [Nodes -> BOOLEAN]
      /\ inodes_to_update' \in [Nodes -> SUBSET Inodes]
      /\ waiting' \in [Nodes -> SUBSET Inodes]
  BY DEF Crash, TypeOK
<1>4. listing' \in [Nodes -> Listings]
  <2>1. FreshListing \in Listings
    BY DEF FreshListing, Listings
  <2> QED
    BY <2>1 DEF Crash, TypeOK
<1>5. /\ gets' \in SUBSET Gets /\ doctors' \in SUBSET Doctors
      /\ puts' \in SUBSET Puts /\ deletes' \in SUBSET Gets
  BY DEF Crash, Others, TypeOK, Gets, Doctors, Puts
<1> QED
  BY <1>1, <1>2, <1>3, <1>4, <1>5 DEF Crash, TypeOK, Gets, Doctors, Puts

LEMMA NextType == StoreAssumption /\ TypeOK /\ [Next]_vars => TypeOK'
<1> SUFFICES ASSUME StoreAssumption, TypeOK, [Next]_vars
             PROVE  TypeOK'
  OBVIOUS
<1>1. ASSUME NEW n \in Nodes, Tick(n) PROVE TypeOK'
  BY <1>1, TickType
<1>2. ASSUME NEW n \in Nodes, ListAnswer(n) \/ ListReceive(n) PROVE TypeOK'
  BY <1>2, ListAnswerType, ListReceiveType
<1>3. ASSUME NEW n \in Nodes, NEW x \in notes[n], NEW again \in BOOLEAN, Notify(n, x, again)
      PROVE  TypeOK'
  BY <1>3, NotifyType
<1>4. ASSUME NEW n \in Nodes, StoreReady(n) \/ UpdateInodes(n) \/ Crash(n) PROVE TypeOK'
  BY <1>4, StoreReadyType, UpdateInodesType, CrashType
<1>5. ASSUME NEW n \in Nodes, NEW i \in Inodes,
             \/ NeedInode(n, i) \/ EditInode(n, i) \/ EditMeta(n, i)
             \/ CreateInode(n, i) \/ DestroyInode(n, i)
      PROVE  TypeOK'
  BY <1>5, NeedInodeType, EditInodeType, EditMetaType, CreateInodeType, DestroyInodeType
<1>6. ASSUME S3Answers PROVE TypeOK'
  BY <1>6, ReceiveInodeType, ReceiveNothingType, DoctorListType, DoctorHealsType,
     DoctorRetriesType, PutDoneType, DeleteDoneType DEF S3Answers
<1>7. CASE UNCHANGED vars
  BY <1>7 DEF vars, nodeVars, wireVars, TypeOK
<1> QED
  BY <1>1, <1>2, <1>3, <1>4, <1>5, <1>6, <1>7 DEF Next

(***************************************************************************)
(* The state of the cluster keeps its types: TypeOK.  In particular every  *)
(* object that is downloaded, uploaded or deleted is named by a revision,  *)
(* never by the absence of one.                                            *)
(***************************************************************************)
THEOREM StoreTypeCorrect == Safety => []TypeOK
<1>1. StoreAssumption
  BY StoreAssumption
<1> QED
  BY <1>1, InitType, NextType, PTL DEF Safety
-----------------------------------------------------------------------------

\* Steps that touch neither the copies nor the list of inodes to upload.
LEMMA PendingKept ==
    ASSUME PendingIsLocal, UNCHANGED <<kv01, inodes_to_update>>
    PROVE  PendingIsLocal'
  BY DEF PendingIsLocal, Local

\* Steps that put a copy in place, and may mark that inode.
LEMMA PendingStored ==
    ASSUME StoreAssumption, TypeOK, PendingIsLocal,
           NEW n \in Nodes, NEW i \in Inodes, NEW body \in SUBSET Entries,
           kv01' = [kv01 EXCEPT ![n][i] = body],
           \/ inodes_to_update' = inodes_to_update
           \/ inodes_to_update' = [inodes_to_update EXCEPT ![n] = @ \cup {i}]
    PROVE  PendingIsLocal'
<1> SUFFICES ASSUME NEW m \in Nodes, NEW j \in inodes_to_update'[m]
             PROVE  kv01'[m][j] # NotLocal
  BY DEF PendingIsLocal, Local
<1>1. body # NotLocal
  BY DEF StoreAssumption
<1>2. j \in Inodes
  <2>1. CASE inodes_to_update' = inodes_to_update
    BY <2>1 DEF TypeOK
  <2>2. CASE inodes_to_update' = [inodes_to_update EXCEPT ![n] = @ \cup {i}]
    BY <2>2 DEF TypeOK
  <2> QED
    BY <2>1, <2>2
<1>3. CASE m = n /\ j = i
  BY <1>1, <1>3 DEF TypeOK
<1>4. CASE ~(m = n /\ j = i)
  <2>1. j \in inodes_to_update[m]
    BY <1>4 DEF TypeOK
  <2>2. kv01'[m][j] = kv01[m][j]
    BY <1>2, <1>4 DEF TypeOK
  <2> QED
    BY <2>1, <2>2 DEF PendingIsLocal, Local
<1> QED
  BY <1>3, <1>4

\* Learning never drops the copy of an inode marked for upload.
LEMMA PendingLearnt ==
    ASSUME TypeOK, PendingIsLocal, NEW n \in Nodes, NEW names, NEW in_list,
           Learn(n, names, in_list), UNCHANGED inodes_to_update
    PROVE  PendingIsLocal'
<1> SUFFICES ASSUME NEW m \in Nodes, NEW j \in inodes_to_update[m]
             PROVE  kv01'[m][j] # NotLocal
  BY DEF PendingIsLocal, Local
<1> DEFINE copies == [i \in Inodes |-> IF DropsCopy(n, i, RevsIn(i, names)) THEN NotLocal
                                       ELSE kv01[n][i]]
<1>1. kv01' = [kv01 EXCEPT ![n] = copies]
  BY DEF Learn
<1>2. kv01[m][j] # NotLocal /\ j \in Inodes
  BY DEF PendingIsLocal, Local, TypeOK
<1>3. CASE m = n
  <2>1. ~DropsCopy(n, j, RevsIn(j, names))
    BY <1>3 DEF DropsCopy, Pending
  <2>2. copies[j] = kv01[n][j]
    BY <1>2, <2>1
  <2> HIDE DEF copies
  <2> QED
    BY <1>1, <1>2, <1>3, <2>2 DEF TypeOK
<1>4. CASE m # n
  <2> HIDE DEF copies
  <2> QED
    BY <1>1, <1>2, <1>4 DEF TypeOK
<1> QED
  BY <1>3, <1>4

\* Steps after which a node has nothing left to upload.
LEMMA PendingCleared ==
    ASSUME TypeOK, PendingIsLocal, NEW n \in Nodes, UNCHANGED kv01,
           inodes_to_update' = [inodes_to_update EXCEPT ![n] = {}]
    PROVE  PendingIsLocal'
  BY DEF PendingIsLocal, Local, TypeOK

\* The same for data that is inserted over a copy.
LEMMA PendingInserted ==
    ASSUME StoreAssumption, TypeOK, PendingIsLocal,
           NEW n \in Nodes, NEW i \in Inodes, NEW body \in SUBSET Entries,
           kv01' = [kv01 EXCEPT ![n][i] = Over(@, body)],
           \/ inodes_to_update' = inodes_to_update
           \/ inodes_to_update' = [inodes_to_update EXCEPT ![n] = @ \cup {i}]
    PROVE  PendingIsLocal'
<1>1. kv01[n][i] \in Copies
  BY DEF TypeOK
<1>2. Over(kv01[n][i], body) \in SUBSET Entries
  BY <1>1, OverType
<1>3. kv01' = [kv01 EXCEPT ![n][i] = Over(kv01[n][i], body)]
  OBVIOUS
<1> QED
  BY <1>2, <1>3, PendingStored

LEMMA NextPending ==
    StoreAssumption /\ TypeOK /\ PendingIsLocal /\ [Next]_vars => PendingIsLocal'
<1> SUFFICES ASSUME StoreAssumption, TypeOK, PendingIsLocal, [Next]_vars
             PROVE  PendingIsLocal'
  OBVIOUS
<1>1. ASSUME NEW n \in Nodes, Tick(n) \/ ListAnswer(n) PROVE PendingIsLocal'
  BY <1>1, PendingKept DEF Tick, ListAnswer, nodeVars
<1>2. ASSUME NEW n \in Nodes, ListReceive(n) PROVE PendingIsLocal'
  BY <1>2, PendingLearnt DEF ListReceive
<1>3. ASSUME NEW n \in Nodes, NEW x \in notes[n], NEW again \in BOOLEAN, Notify(n, x, again)
      PROVE  PendingIsLocal'
  BY <1>3, PendingLearnt DEF Notify
<1>4. ASSUME NEW n \in Nodes, StoreReady(n) PROVE PendingIsLocal'
  <2>1. CASE Root \notin Inodes \/ Has(n, Root)
    <3>1. UNCHANGED <<kv01, inodes_to_update>>
      BY <1>4, <2>1 DEF StoreReady
    <3> QED
      BY <3>1, PendingKept
  <2>2. CASE Root \in Inodes /\ ~Has(n, Root)
    <3>1. /\ kv01' = [kv01 EXCEPT ![n][Root] = Over(@, {})]
          /\ inodes_to_update' = [inodes_to_update EXCEPT ![n] = @ \cup {Root}]
      BY <1>4, <2>2 DEF StoreReady
    <3>2. {} \in SUBSET Entries
      OBVIOUS
    <3> QED
      BY <2>2, <3>1, <3>2, PendingInserted
  <2> QED
    BY <2>1, <2>2
<1>5. ASSUME NEW n \in Nodes, UpdateInodes(n) \/ Crash(n) PROVE PendingIsLocal'
  BY <1>5, PendingCleared DEF UpdateInodes, Crash
<1>6. ASSUME NEW n \in Nodes, NEW i \in Inodes, NeedInode(n, i) \/ DestroyInode(n, i)
      PROVE  PendingIsLocal'
  BY <1>6, PendingKept DEF NeedInode, DestroyInode
<1>7. ASSUME NEW n \in Nodes, NEW i \in Inodes, EditInode(n, i) \/ EditMeta(n, i)
      PROVE  PendingIsLocal'
  <2>1. PICK body \in Edited(n, i) : Change(n, i, body)
    BY <1>7 DEF EditInode, EditMeta
  <2>2. body \in SUBSET Entries
    BY <1>7, <2>1, EditedType DEF EditInode, EditMeta
  <2> QED
    BY <2>1, <2>2, PendingStored DEF Change
<1>8. ASSUME NEW n \in Nodes, NEW i \in Inodes, CreateInode(n, i) PROVE PendingIsLocal'
  <2>1. {} \in SUBSET Entries
    OBVIOUS
  <2>2. /\ kv01' = [kv01 EXCEPT ![n][i] = {}]
        /\ inodes_to_update' = [inodes_to_update EXCEPT ![n] = @ \cup {i}]
    BY <1>8 DEF CreateInode
  <2> QED
    BY <2>1, <2>2, PendingStored
<1>9. ASSUME S3Answers PROVE PendingIsLocal'
  <2>1. ASSUME NEW g \in gets, ReceiveInode(g) PROVE PendingIsLocal'
    <3>1. g.node \in Nodes /\ g.ino \in Inodes
      BY DEF TypeOK
    <3>2. PICK o \in Found(g.ino, g.rev) :
             kv01' = [kv01 EXCEPT ![g.node][g.ino] = Over(@, o.body)]
      BY <2>1 DEF ReceiveInode
    <3>3. o.body \in SUBSET Entries
      BY DEF Found, TypeOK, Objects
    <3>4. inodes_to_update' = inodes_to_update
      BY <2>1 DEF ReceiveInode
    <3> QED
      BY <3>1, <3>2, <3>3, <3>4, PendingInserted
  <2>2. ASSUME NEW d \in doctors, DoctorHeals(d) PROVE PendingIsLocal'
    <3>1. d.node \in Nodes /\ d.ino \in Inodes
      BY DEF TypeOK
    <3>2. PICK o \in Found(d.ino, Latest(d.revs)) :
             kv01' = [kv01 EXCEPT ![d.node][d.ino] = Over(@, o.body)]
      BY <2>2 DEF DoctorHeals
    <3>3. o.body \in SUBSET Entries
      BY DEF Found, TypeOK, Objects
    <3>4. inodes_to_update' = [inodes_to_update EXCEPT ![d.node] = @ \cup {d.ino}]
      BY <2>2 DEF DoctorHeals
    <3> QED
      BY <3>1, <3>2, <3>3, <3>4, PendingInserted
  <2>3. ASSUME NEW g \in gets, ReceiveNothing(g) PROVE PendingIsLocal'
    BY <2>3, PendingKept DEF ReceiveNothing, nodeVars
  <2>4. ASSUME NEW d \in doctors, DoctorList(d) \/ DoctorRetries(d) PROVE PendingIsLocal'
    BY <2>4, PendingKept DEF DoctorList, DoctorRetries
  <2>5. ASSUME NEW p \in puts, PutDone(p) PROVE PendingIsLocal'
    BY <2>5, PendingKept DEF PutDone, nodeVars
  <2>6. ASSUME NEW d \in deletes, DeleteDone(d) PROVE PendingIsLocal'
    BY <2>6, PendingKept DEF DeleteDone, nodeVars
  <2> QED
    BY <1>9, <2>1, <2>2, <2>3, <2>4, <2>5, <2>6 DEF S3Answers
<1>10. CASE UNCHANGED vars
  BY <1>10, PendingKept DEF vars, nodeVars
<1> QED
  BY <1>1, <1>2, <1>3, <1>4, <1>5, <1>6, <1>7, <1>8, <1>9, <1>10 DEF Next

(***************************************************************************)
(* An inode marked for upload has a copy to upload: PendingIsLocal.  What  *)
(* a node learns, downloads, recovers or forgets while an edit waits for   *)
(* its upload never takes the edited copy away.                            *)
(***************************************************************************)
THEOREM EditsStayUploadable == Safety => []PendingIsLocal
<1>1. StoreAssumption
  BY StoreAssumption
<1>2. Init => PendingIsLocal
  BY DEF Init, PendingIsLocal
<1> QED
  BY <1>1, <1>2, StoreTypeCorrect, NextPending, PTL DEF Safety
-----------------------------------------------------------------------------

\* Steps that replace a download or a doctor by one for the same inode.
LEMMA WaitersKept ==
    ASSUME WaitersHaveFetch, UNCHANGED waiting,
           \A x \in gets \cup doctors : \E y \in (gets \cup doctors)' :
               y.node = x.node /\ y.ino = x.ino
    PROVE  WaitersHaveFetch'
  BY DEF WaitersHaveFetch

\* Steps that answer the requests for one inode of a node, and end a download
\* or a doctor of that inode.
LEMMA WaitersServed ==
    ASSUME TypeOK, WaitersHaveFetch, NEW n \in Nodes, NEW i \in Inodes,
           waiting' = [waiting EXCEPT ![n] = @ \ {i}],
           \A x \in gets \cup doctors :
               x.node # n \/ x.ino # i => x \in (gets \cup doctors)'
    PROVE  WaitersHaveFetch'
<1> SUFFICES ASSUME NEW m \in Nodes, NEW j \in waiting'[m]
             PROVE  \E x \in (gets \cup doctors)' : x.node = m /\ x.ino = j
  BY DEF WaitersHaveFetch
<1>1. j \in waiting[m] /\ (m # n \/ j # i)
  BY DEF TypeOK
<1>2. PICK x \in gets \cup doctors : x.node = m /\ x.ino = j
  BY <1>1 DEF WaitersHaveFetch
<1> QED
  BY <1>1, <1>2

LEMMA NextWaiters ==
    TypeOK /\ WaitersHaveFetch /\ [Next]_vars => WaitersHaveFetch'
<1> SUFFICES ASSUME TypeOK, WaitersHaveFetch, [Next]_vars
             PROVE  WaitersHaveFetch'
  OBVIOUS
<1>1. ASSUME NEW n \in Nodes, Tick(n) \/ ListAnswer(n) \/ ListReceive(n) PROVE WaitersHaveFetch'
  BY <1>1, WaitersKept DEF Tick, ListAnswer, ListReceive, nodeVars, wireVars
<1>2. ASSUME NEW n \in Nodes, NEW x \in notes[n], NEW again \in BOOLEAN, Notify(n, x, again)
      PROVE  WaitersHaveFetch'
  BY <1>2, WaitersKept DEF Notify
<1>3. ASSUME NEW n \in Nodes, StoreReady(n) PROVE WaitersHaveFetch'
  <2>1. gets \subseteq gets' /\ doctors' = doctors /\ waiting' = waiting
    BY <1>3 DEF StoreReady
  <2> QED
    BY <2>1, WaitersKept
<1>4. ASSUME NEW n \in Nodes, UpdateInodes(n) PROVE WaitersHaveFetch'
  BY <1>4, WaitersKept DEF UpdateInodes
<1>5. ASSUME NEW n \in Nodes, Crash(n) PROVE WaitersHaveFetch'
  <2> SUFFICES ASSUME NEW m \in Nodes, NEW j \in waiting'[m]
               PROVE  \E x \in (gets \cup doctors)' : x.node = m /\ x.ino = j
    BY DEF WaitersHaveFetch
  <2>1. waiting' = [waiting EXCEPT ![n] = {}]
    BY <1>5 DEF Crash
  <2>2. m # n /\ j \in waiting[m]
    BY <2>1 DEF TypeOK
  <2>3. PICK x \in gets \cup doctors : x.node = m /\ x.ino = j
    BY <2>2 DEF WaitersHaveFetch
  <2>4. x \in (gets \cup doctors)'
    BY <1>5, <2>2, <2>3 DEF Crash, Others
  <2> QED
    BY <2>3, <2>4
<1>6. ASSUME NEW n \in Nodes, NEW i \in Inodes, NeedInode(n, i) PROVE WaitersHaveFetch'
  <2> SUFFICES ASSUME NEW m \in Nodes, NEW j \in waiting'[m]
               PROVE  \E x \in (gets \cup doctors)' : x.node = m /\ x.ino = j
    BY DEF WaitersHaveFetch
  <2>1. /\ gets' = gets \cup {[node |-> n, ino |-> i, rev |-> kv03[n][i]]}
        /\ doctors' = doctors
        /\ waiting' = [waiting EXCEPT ![n] = @ \cup {i}]
    BY <1>6 DEF NeedInode
  <2>2. CASE m = n /\ j = i
    <3> DEFINE get == [node |-> n, ino |-> i, rev |-> kv03[n][i]]
    <3>1. get \in gets' /\ get.node = m /\ get.ino = j
      BY <2>1, <2>2
    <3> QED
      BY <3>1
  <2>3. CASE ~(m = n /\ j = i)
    <3>1. j \in waiting[m]
      BY <2>1, <2>3 DEF TypeOK
    <3> QED
      BY <2>1, <3>1 DEF WaitersHaveFetch
  <2> QED
    BY <2>2, <2>3
<1>7. ASSUME NEW n \in Nodes, NEW i \in Inodes,
             EditInode(n, i) \/ EditMeta(n, i) \/ CreateInode(n, i) \/ DestroyInode(n, i)
      PROVE  WaitersHaveFetch'
  BY <1>7, WaitersKept DEF EditInode, EditMeta, CreateInode, DestroyInode, wireVars
<1>8. ASSUME S3Answers PROVE WaitersHaveFetch'
  <2>1. ASSUME NEW g \in gets, ReceiveInode(g) PROVE WaitersHaveFetch'
    <3>1. g.node \in Nodes /\ g.ino \in Inodes
      BY DEF TypeOK
    <3>2. /\ waiting' = [waiting EXCEPT ![g.node] = @ \ {g.ino}]
          /\ gets' = gets \ {g} /\ doctors' = doctors
      BY <2>1 DEF ReceiveInode
    <3> QED
      BY <3>1, <3>2, WaitersServed
  <2>2. ASSUME NEW g \in gets, ReceiveNothing(g) PROVE WaitersHaveFetch'
    <3> DEFINE new == [node |-> g.node, ino |-> g.ino, stage |-> "list", revs |-> {}]
    <3>1. gets' = gets \ {g} /\ doctors' = doctors \cup {new} /\ waiting' = waiting
      BY <2>2 DEF ReceiveNothing, nodeVars
    <3>2. new.node = g.node /\ new.ino = g.ino
      OBVIOUS
    <3> HIDE DEF new
    <3> QED
      BY <3>1, <3>2, WaitersKept
  <2>3. ASSUME NEW d \in doctors, DoctorFails(d), UNCHANGED gets PROVE WaitersHaveFetch'
    <3>1. d.node \in Nodes /\ d.ino \in Inodes
      BY DEF TypeOK
    <3>2. /\ waiting' = [waiting EXCEPT ![d.node] = @ \ {d.ino}]
          /\ doctors' = doctors \ {d} /\ gets' = gets
      BY <2>3 DEF DoctorFails
    <3> QED
      BY <3>1, <3>2, WaitersServed
  <2>4. ASSUME NEW d \in doctors, NEW e, e.node = d.node /\ e.ino = d.ino,
               doctors' = (doctors \ {d}) \cup {e}, UNCHANGED <<gets, waiting>>
        PROVE  WaitersHaveFetch'
    BY <2>4, WaitersKept
  <2>5. ASSUME NEW d \in doctors, DoctorList(d) PROVE WaitersHaveFetch'
    <3> DEFINE e == [d EXCEPT !.stage = "get", !.revs = RevsIn(d.ino, objects)]
    <3>1. e.node = d.node /\ e.ino = d.ino
      BY DEF TypeOK
    <3>2. \/ DoctorFails(d) /\ UNCHANGED gets
          \/ doctors' = (doctors \ {d}) \cup {e} /\ UNCHANGED <<gets, waiting>>
      BY <2>5 DEF DoctorList
    <3> HIDE DEF e
    <3> QED
      BY <2>3, <2>4, <3>1, <3>2
  <2>6. ASSUME NEW d \in doctors, DoctorRetries(d) PROVE WaitersHaveFetch'
    <3> DEFINE e == [d EXCEPT !.revs = d.revs \ {Latest(d.revs)}]
    <3>1. e.node = d.node /\ e.ino = d.ino
      BY DEF TypeOK
    <3>2. \/ DoctorFails(d) /\ UNCHANGED gets
          \/ doctors' = (doctors \ {d}) \cup {e} /\ UNCHANGED <<gets, waiting>>
      BY <2>6 DEF DoctorRetries
    <3> HIDE DEF e
    <3> QED
      BY <2>3, <2>4, <3>1, <3>2
  <2>7. ASSUME NEW d \in doctors, DoctorHeals(d) PROVE WaitersHaveFetch'
    <3>1. d.node \in Nodes /\ d.ino \in Inodes
      BY DEF TypeOK
    <3>2. /\ waiting' = [waiting EXCEPT ![d.node] = @ \ {d.ino}]
          /\ doctors' = doctors \ {d} /\ gets' = gets
      BY <2>7 DEF DoctorHeals
    <3> QED
      BY <3>1, <3>2, WaitersServed
  <2>8. ASSUME NEW p \in puts, PutDone(p) PROVE WaitersHaveFetch'
    BY <2>8, WaitersKept DEF PutDone, nodeVars
  <2>9. ASSUME NEW d \in deletes, DeleteDone(d) PROVE WaitersHaveFetch'
    BY <2>9, WaitersKept DEF DeleteDone, nodeVars
  <2> QED
    BY <1>8, <2>1, <2>2, <2>5, <2>6, <2>7, <2>8, <2>9 DEF S3Answers
<1>9. CASE UNCHANGED vars
  BY <1>9, WaitersKept DEF vars, nodeVars, wireVars
<1> QED
  BY <1>1, <1>2, <1>3, <1>4, <1>5, <1>6, <1>7, <1>8, <1>9 DEF Next

(***************************************************************************)
(* A request that waits for an inode has a download or a doctor that will  *)
(* answer it: WaitersHaveFetch.  callbackOnInodeCached registers nothing   *)
(* without asking S3, and every end of a download or of a doctor takes the *)
(* list of those who wait.                                                 *)
(***************************************************************************)
THEOREM NobodyWaitsInVain == Safety => []WaitersHaveFetch
<1>1. Init => WaitersHaveFetch
  BY DEF Init, WaitersHaveFetch
<1> QED
  BY <1>1, StoreTypeCorrect, NextWaiters, PTL DEF Safety

-----------------------------------------------------------------------------
(***************************************************************************)
(* Copies and revisions, for any number of nodes, inodes and edits, in a   *)
(* cluster where nobody crashes and fsck destroys nothing (NoFaults).      *)
(*                                                                         *)
(* Three invariants stand on each other: where the numbers of revisions    *)
(* come from (IssuedInv), that what nodes hear of exists (NamesInv), and   *)
(* what a node has of an inode (CopyInv).                                  *)
(***************************************************************************)

\* MaxFaults bounds crashes and fsck's deletions together.
NoFaults == MaxFaults = 0

\* Ids are 1 to 100 (README.md).
DistinctIds == \A m, n \in Nodes : m # n => LowDigits(NodeId[m]) # LowDigits(NodeId[n])

\* delete_ok_stamp, in milliseconds, is below every revision, in microseconds.
NothingIsOld == \A n \in Nodes : Epoch + MaxClock[n] - Hour <= (Epoch - 1) * 1000

\* What was ever to be written and is not overwritten.
Writes == objects \cup puts

\* A revision is from before, or a node made it up.
Numbered(r) ==
    \/ r < Epoch * 1000
    \/ \E n \in Nodes : LowDigits(r) = LowDigits(NodeId[n]) /\ r <= last_inode_rev[n]

RevsNumbered == \A o \in Writes : (Epoch - 1) * 1000 <= o.rev /\ Numbered(o.rev)

CountersNumbered ==
    \A n \in Nodes : last_inode_rev[n] = 0 \/ LowDigits(last_inode_rev[n]) = LowDigits(NodeId[n])

OneBody == \A o, p \in Writes : o.ino = p.ino /\ o.rev = p.rev => o.body = p.body

RevsBounded == \E b \in Nat : \A o \in Writes : o.rev <= b

IssuedInv == RevsNumbered /\ CountersNumbered /\ OneBody /\ RevsBounded

-----------------------------------------------------------------------------

\* What is written and uploaded has a number and a body.
LEMMA WritesType ==
    ASSUME TypeOK
    PROVE  \A o \in Writes : o.ino \in Inodes /\ o.rev \in Nat /\ o.body \in SUBSET Entries
  BY DEF TypeOK, Writes, Objects

SameWrite(o, p) == o.ino = p.ino /\ o.rev = p.rev /\ o.body = p.body

\* Steps that upload nothing new.
NothingNew == \A p \in Writes' : \E o \in Writes : SameWrite(o, p)

LEMMA IssuedKept ==
    ASSUME IssuedInv, NothingNew, UNCHANGED last_inode_rev
    PROVE  IssuedInv'
<1>1. RevsNumbered'
  <2> SUFFICES ASSUME NEW p \in Writes'
               PROVE  (Epoch - 1) * 1000 <= p.rev /\ Numbered(p.rev)'
    BY DEF RevsNumbered
  <2>1. PICK o \in Writes : SameWrite(o, p)
    BY DEF NothingNew
  <2>2. (Epoch - 1) * 1000 <= p.rev /\ Numbered(p.rev)
    BY <2>1 DEF IssuedInv, RevsNumbered, SameWrite
  <2>3. Numbered(p.rev)'
    BY <2>2 DEF Numbered
  <2> QED
    BY <2>2, <2>3
<1>2. CountersNumbered'
  BY DEF IssuedInv, CountersNumbered
<1>3. OneBody'
  <2> SUFFICES ASSUME NEW p \in Writes', NEW q \in Writes', p.ino = q.ino, p.rev = q.rev
               PROVE  p.body = q.body
    BY DEF OneBody
  <2>1. PICK o \in Writes : SameWrite(o, p)
    BY DEF NothingNew
  <2>2. PICK w \in Writes : SameWrite(w, q)
    BY DEF NothingNew
  <2> QED
    BY <2>1, <2>2 DEF IssuedInv, OneBody, SameWrite
<1>4. RevsBounded'
  <2>1. PICK b \in Nat : \A o \in Writes : o.rev <= b
    BY DEF IssuedInv, RevsBounded
  <2>2. \A p \in Writes' : p.rev <= b
    BY <2>1 DEF NothingNew, SameWrite
  <2> QED
    BY <2>2 DEF RevsBounded
<1> QED
  BY <1>1, <1>2, <1>3, <1>4 DEF IssuedInv

\* An upload that is done was under way before.
LEMMA PutDoneNothingNew ==
    ASSUME NEW p \in puts, PutDone(p)
    PROVE  NothingNew
<1> DEFINE new == [ino |-> p.ino, rev |-> p.rev, body |-> p.body]
<1>1. SameWrite(p, new)
  BY DEF SameWrite
<1>2. Writes' \subseteq Writes \cup {new}
  BY DEF PutDone, Writes
<1>3. p \in Writes
  BY DEF Writes
<1> HIDE DEF new
<1> QED
  BY <1>1, <1>2, <1>3 DEF NothingNew, SameWrite

\* Only updateInodes issues numbers, and only a crash forgets what was to be written.
LEMMA OthersNothingNew ==
    ASSUME [Next]_vars
    PROVE  \/ NothingNew /\ UNCHANGED last_inode_rev
           \/ \E n \in Nodes : UpdateInodes(n) \/ Crash(n)
<1> SUFFICES ASSUME ~ \E n \in Nodes : UpdateInodes(n) \/ Crash(n)
             PROVE  NothingNew /\ UNCHANGED last_inode_rev
  OBVIOUS
<1>1. ASSUME UNCHANGED last_inode_rev, Writes' \subseteq Writes
      PROVE  NothingNew /\ UNCHANGED last_inode_rev
  BY <1>1 DEF NothingNew, SameWrite
<1>2. ASSUME NEW n \in Nodes, Tick(n) \/ ListAnswer(n) \/ ListReceive(n) \/ StoreReady(n)
      PROVE  NothingNew /\ UNCHANGED last_inode_rev
  BY <1>1, <1>2 DEF Tick, ListAnswer, ListReceive, StoreReady, nodeVars, wireVars, Writes
<1>3. ASSUME NEW n \in Nodes, NEW x \in notes[n], NEW again \in BOOLEAN, Notify(n, x, again)
      PROVE  NothingNew /\ UNCHANGED last_inode_rev
  BY <1>1, <1>3 DEF Notify, Writes
<1>4. ASSUME NEW n \in Nodes, NEW i \in Inodes,
             \/ NeedInode(n, i) \/ EditInode(n, i) \/ EditMeta(n, i)
             \/ CreateInode(n, i) \/ DestroyInode(n, i)
      PROVE  NothingNew /\ UNCHANGED last_inode_rev
  BY <1>1, <1>4 DEF NeedInode, EditInode, EditMeta, CreateInode, DestroyInode, wireVars, Writes
<1>5. ASSUME NEW g \in gets, ReceiveInode(g) \/ ReceiveNothing(g)
      PROVE  NothingNew /\ UNCHANGED last_inode_rev
  BY <1>1, <1>5 DEF ReceiveInode, ReceiveNothing, nodeVars, Writes
<1>6. ASSUME NEW d \in doctors, DoctorList(d) \/ DoctorHeals(d) \/ DoctorRetries(d)
      PROVE  NothingNew /\ UNCHANGED last_inode_rev
  BY <1>1, <1>6 DEF DoctorList, DoctorHeals, DoctorRetries, Writes
<1>7. ASSUME NEW p \in puts, PutDone(p)
      PROVE  NothingNew /\ UNCHANGED last_inode_rev
  BY <1>7, PutDoneNothingNew DEF PutDone, nodeVars
<1>8. ASSUME NEW d \in deletes, DeleteDone(d)
      PROVE  NothingNew /\ UNCHANGED last_inode_rev
  BY <1>1, <1>8 DEF DeleteDone, nodeVars, Writes
<1>9. CASE UNCHANGED vars
  BY <1>1, <1>9 DEF vars, nodeVars, wireVars, Writes
<1> QED
  BY <1>2, <1>3, <1>4, <1>5, <1>6, <1>7, <1>8, <1>9 DEF Next, S3Answers

-----------------------------------------------------------------------------

Todo(n) == {i \in inodes_to_update[n] : Local(n, i)}

\* The new uploads of a node.
Sent(n, revs) == {[node |-> n, ino |-> i, rev |-> revs[i], body |-> kv01[n][i]] : i \in Todo(n)}

(***************************************************************************)
(* What updateInodes does: each revision it makes up is above all the node *)
(* made up before and ends like its id.                                    *)
(***************************************************************************)
Fresh(n, r) ==
    /\ r \in Nat /\ Epoch * 1000 <= r
    /\ last_inode_rev[n] < r /\ r <= last_inode_rev'[n]
    /\ LowDigits(r) = LowDigits(NodeId[n])

LEMMA FirstIsFresh ==
    ASSUME StoreAssumption, TypeOK, CountersNumbered, NEW n \in Nodes
    PROVE  /\ First(n) \in Nat /\ Epoch * 1000 <= First(n)
           /\ last_inode_rev[n] < First(n)
           /\ LowDigits(First(n)) = LowDigits(NodeId[n])
<1>1. /\ Epoch \in Nat /\ clock[n] \in Nat /\ Epoch + clock[n] \in Nat
      /\ NodeId[n] \in Nat /\ last_inode_rev[n] \in Nat
  BY DEF StoreAssumption, TypeOK
<1>2. last_inode_rev[n] = 0 \/ LowDigits(last_inode_rev[n]) = LowDigits(NodeId[n])
  BY DEF CountersNumbered
<1>3. First(n) \in Nat /\ last_inode_rev[n] < First(n)
  BY <1>1, StampGrows DEF First
<1>4. Epoch * 1000 <= First(n)
  BY <1>1 DEF First, Stamp
<1>5. LowDigits(First(n)) = LowDigits(NodeId[n])
  BY <1>1, <1>2, StampResidue DEF First
<1> QED
  BY <1>3, <1>4, <1>5

LEMMA UpdateFacts ==
    ASSUME StoreAssumption, TypeOK, CountersNumbered, NEW n \in Nodes, UpdateInodes(n)
    PROVE  /\ \E revs : /\ \A i \in Todo(n) : Fresh(n, revs[i])
                       /\ puts' = puts \cup Sent(n, revs)
                       /\ kv03' = [kv03 EXCEPT ![n] =
                              [i \in Inodes |-> IF i \in Todo(n) THEN revs[i] ELSE @[i]]]
           /\ last_inode_rev[n] <= last_inode_rev'[n]
           /\ \A m \in Nodes : m # n => last_inode_rev'[m] = last_inode_rev[m]
           /\ CountersNumbered'
<1> DEFINE todo == Todo(n)
           count == Cardinality(todo)
<1>1. PICK rank \in [todo -> 0 .. count - 1] :
         /\ puts' = puts \cup Sent(n, Uploads(n, todo, rank))
         /\ kv03' = [kv03 EXCEPT ![n] =
                [i \in Inodes |-> IF i \in todo THEN Uploads(n, todo, rank)[i] ELSE @[i]]]
         /\ last_inode_rev' = [last_inode_rev EXCEPT ![n] =
                IF todo = {} THEN @ ELSE First(n) + 100 * (count - 1)]
  BY DEF UpdateInodes, Todo, Sent
<1>2. IsFiniteSet(todo) /\ count \in Nat /\ (todo # {} => count - 1 \in Nat)
  <2>1. todo \subseteq Inodes /\ IsFiniteSet(Inodes)
    BY DEF Todo, TypeOK, StoreAssumption
  <2>2. IsFiniteSet(todo)
    BY <2>1, FS_Subset
  <2>3. count \in Nat /\ (count = 0 <=> todo = {})
    BY <2>2, FS_EmptySet, FS_CardinalityType
  <2> QED
    BY <2>2, <2>3
<1>3. /\ First(n) \in Nat /\ Epoch * 1000 <= First(n) /\ last_inode_rev[n] < First(n)
      /\ LowDigits(First(n)) = LowDigits(NodeId[n])
  BY FirstIsFresh
<1>4. last_inode_rev \in [Nodes -> Nat] /\ Epoch \in Nat
  BY DEF TypeOK, StoreAssumption
<1> HIDE DEF todo, count
<1>5. CASE todo = {}
  <2>1. last_inode_rev' = last_inode_rev
    BY <1>1, <1>4, <1>5
  <2>2. CountersNumbered'
    BY <2>1 DEF CountersNumbered
  <2>3. \A i \in todo : Fresh(n, Uploads(n, todo, rank)[i])
    BY <1>5
  <2>4. last_inode_rev[n] <= last_inode_rev'[n]
    BY <1>4, <2>1
  <2>5. \A m \in Nodes : m # n => last_inode_rev'[m] = last_inode_rev[m]
    BY <2>1
  <2> QED
    BY <1>1, <2>2, <2>3, <2>4, <2>5 DEF todo
<1>6. CASE todo # {}
  <2>1. /\ last_inode_rev'[n] = First(n) + 100 * (count - 1)
        /\ \A m \in Nodes : m # n => last_inode_rev'[m] = last_inode_rev[m]
    BY <1>1, <1>4, <1>6
  <2>2. count - 1 \in Nat
    BY <1>2, <1>6
  <2>3. LowDigits(last_inode_rev'[n]) = LowDigits(NodeId[n])
    BY <1>3, <2>1, <2>2, HundredsApart
  <2>4. last_inode_rev[n] <= last_inode_rev'[n]
    BY <1>3, <1>4, <2>1, <2>2
  <2>5. ASSUME NEW i \in todo PROVE Fresh(n, Uploads(n, todo, rank)[i])
    <3>1. Uploads(n, todo, rank)[i] = First(n) + 100 * rank[i]
      BY DEF Uploads
    <3>2. rank[i] \in Nat /\ rank[i] <= count - 1
      BY <2>2
    <3>3. LowDigits(First(n) + 100 * rank[i]) = LowDigits(NodeId[n])
      BY <1>3, <3>2, HundredsApart
    <3> QED
      BY <1>3, <1>4, <2>1, <2>2, <3>1, <3>2, <3>3 DEF Fresh
  <2>6. CountersNumbered'
    BY <2>1, <2>3 DEF CountersNumbered
  <2> QED
    BY <1>1, <2>1, <2>4, <2>5, <2>6 DEF todo
<1> QED
  BY <1>5, <1>6

LEMMA UpdateIssued ==
    ASSUME StoreAssumption, DistinctIds, TypeOK, IssuedInv, NEW n \in Nodes, UpdateInodes(n)
    PROVE  IssuedInv'
<1>1. CountersNumbered
  BY DEF IssuedInv
<1>2. PICK revs : /\ \A i \in Todo(n) : Fresh(n, revs[i])
                  /\ puts' = puts \cup Sent(n, revs)
  BY <1>1, UpdateFacts
<1>3. /\ last_inode_rev[n] <= last_inode_rev'[n]
      /\ \A m \in Nodes : m # n => last_inode_rev'[m] = last_inode_rev[m]
      /\ CountersNumbered'
  BY <1>1, UpdateFacts
<1>4. Writes' = Writes \cup Sent(n, revs)
  BY <1>2 DEF UpdateInodes, Writes
<1>5. \A p \in Sent(n, revs) : p.ino \in Todo(n) /\ p.rev = revs[p.ino] /\ p.body = kv01[n][p.ino]
  BY DEF Sent
<1>6. /\ \A m \in Nodes : last_inode_rev[m] \in Nat
      /\ last_inode_rev'[n] \in Nat
      /\ Epoch \in Nat
  BY UpdateInodesType DEF StoreAssumption, TypeOK
<1>7. RevsNumbered'
  <2> SUFFICES ASSUME NEW p \in Writes'
               PROVE  (Epoch - 1) * 1000 <= p.rev /\ Numbered(p.rev)'
    BY DEF RevsNumbered
  <2>1. CASE p \in Writes
    <3>1. p.rev \in Nat /\ (Epoch - 1) * 1000 <= p.rev /\ Numbered(p.rev)
      BY <2>1, WritesType DEF IssuedInv, RevsNumbered
    <3>2. CASE p.rev < Epoch * 1000
      BY <3>1, <3>2 DEF Numbered
    <3>3. CASE \E m \in Nodes : LowDigits(p.rev) = LowDigits(NodeId[m]) /\ p.rev <= last_inode_rev[m]
      <4>1. PICK m \in Nodes : LowDigits(p.rev) = LowDigits(NodeId[m]) /\ p.rev <= last_inode_rev[m]
        BY <3>3
      <4>2. p.rev <= last_inode_rev'[m]
        BY <1>3, <1>6, <3>1, <4>1
      <4> QED
        BY <3>1, <4>1, <4>2 DEF Numbered
    <3> QED
      BY <3>1, <3>2, <3>3 DEF Numbered
  <2>2. CASE p \in Sent(n, revs)
    <3>1. Fresh(n, p.rev)
      BY <1>2, <1>5, <2>2
    <3>2. (Epoch - 1) * 1000 <= p.rev
      BY <1>6, <3>1 DEF Fresh
    <3> QED
      BY <3>1, <3>2 DEF Fresh, Numbered
  <2> QED
    BY <1>4, <2>1, <2>2
\* No revision of before is one of the new ones.
<1>8. ASSUME NEW o \in Writes, NEW p \in Sent(n, revs) PROVE o.rev # p.rev
  <2>1. Fresh(n, p.rev)
    BY <1>2, <1>5
  <2>2. o.rev \in Nat /\ Numbered(o.rev)
    BY WritesType DEF IssuedInv, RevsNumbered
  <2>3. CASE o.rev < Epoch * 1000
    BY <1>6, <2>1, <2>2, <2>3 DEF Fresh
  <2>4. ASSUME NEW m \in Nodes, LowDigits(o.rev) = LowDigits(NodeId[m]), o.rev <= last_inode_rev[m]
        PROVE  o.rev # p.rev
    <3>1. CASE m = n
      BY <1>6, <2>1, <2>2, <2>4, <3>1 DEF Fresh
    <3>2. CASE m # n
      BY <2>1, <2>4, <3>2 DEF Fresh, DistinctIds
    <3> QED
      BY <3>1, <3>2
  <2> QED
    BY <2>2, <2>3, <2>4 DEF Numbered
<1>9. OneBody'
  <2> SUFFICES ASSUME NEW p \in Writes', NEW q \in Writes', p.ino = q.ino, p.rev = q.rev
               PROVE  p.body = q.body
    BY DEF OneBody
  <2>1. CASE p \in Writes /\ q \in Writes
    BY <2>1 DEF IssuedInv, OneBody
  <2>2. CASE p \in Sent(n, revs) /\ q \in Sent(n, revs)
    BY <1>5, <2>2
  <2> QED
    BY <1>4, <1>8, <2>1, <2>2
<1>10. RevsBounded'
  <2>1. PICK b \in Nat : \A o \in Writes : o.rev <= b
    BY DEF IssuedInv, RevsBounded
  <2>2. \A p \in Sent(n, revs) : p.rev <= last_inode_rev'[n] /\ p.rev \in Nat
    BY <1>2, <1>5 DEF Fresh
  <2>3. \A o \in Writes : o.rev \in Nat
    BY WritesType
  <2>4. b + last_inode_rev'[n] \in Nat
    BY <1>6
  <2>5. ASSUME NEW p \in Writes' PROVE p.rev <= b + last_inode_rev'[n]
    <3>1. CASE p \in Writes
      BY <1>6, <2>1, <2>3, <3>1
    <3>2. CASE p \in Sent(n, revs)
      BY <1>6, <2>2, <3>2
    <3> QED
      BY <1>4, <3>1, <3>2
  <2> QED
    BY <2>4, <2>5 DEF RevsBounded
<1> QED
  BY <1>3, <1>7, <1>9, <1>10 DEF IssuedInv

\* Without faults nobody crashes and fsck destroys nothing.
LEMMA NoFaultSteps ==
    ASSUME NoFaults, TypeOK
    PROVE  \A n \in Nodes : ~Crash(n) /\ \A i \in Inodes : ~DestroyInode(n, i)
<1>1. ~(used.faults < MaxFaults)
  BY DEF NoFaults, TypeOK
<1> QED
  BY <1>1 DEF Crash, DestroyInode

LEMMA InitIssued == StoreAssumption /\ Init => IssuedInv
<1> SUFFICES ASSUME StoreAssumption, Init
             PROVE  IssuedInv
  OBVIOUS
<1>1. Writes = {[ino |-> i, rev |-> (Epoch - 1) * 1000, body |-> {}] : i \in Initial}
  BY DEF Writes, Init
<1>2. /\ (Epoch - 1) * 1000 \in Nat
      /\ (Epoch - 1) * 1000 < Epoch * 1000
  BY DEF StoreAssumption
<1>3. \A o \in Writes : o.rev = (Epoch - 1) * 1000 /\ o.body = {}
  BY <1>1
<1>4. CountersNumbered
  BY DEF Init, CountersNumbered
<1>5. RevsNumbered
  <2> DEFINE r == (Epoch - 1) * 1000
  <2>1. r \in Nat /\ r < Epoch * 1000 /\ r <= r
    BY <1>2
  <2>2. \A o \in Writes : o.rev = r
    BY <1>3
  <2> HIDE DEF r
  <2>3. \A o \in Writes : r <= o.rev /\ Numbered(o.rev)
    BY <2>1, <2>2 DEF Numbered
  <2> QED
    BY <2>3 DEF RevsNumbered, r
<1>6. OneBody
  <2>1. \A o \in Writes : o.body = {}
    BY <1>3
  <2> QED
    BY <2>1 DEF OneBody
<1>7. RevsBounded
  <2> DEFINE r == (Epoch - 1) * 1000
  <2>1. r \in Nat /\ \A o \in Writes : o.rev = r
    BY <1>2, <1>3
  <2> HIDE DEF r
  <2>2. r <= r
    BY <2>1
  <2> QED
    BY <2>1, <2>2 DEF RevsBounded
<1> QED
  BY <1>4, <1>5, <1>6, <1>7 DEF IssuedInv

LEMMA NextIssued ==
    ASSUME StoreAssumption, DistinctIds, NoFaults
    PROVE  TypeOK /\ IssuedInv /\ [Next]_vars => IssuedInv'
  BY OthersNothingNew, IssuedKept, UpdateIssued, NoFaultSteps

LEMMA IssuedInvariant ==
    ASSUME DistinctIds, NoFaults
    PROVE  Safety => []IssuedInv
<1>1. StoreAssumption
  BY StoreAssumption
<1> QED
  BY <1>1, InitIssued, NextIssued, StoreTypeCorrect, PTL DEF Safety

(***************************************************************************)
(* An object on S3 never changes (RevisionsImmutable), for any number of   *)
(* nodes whose ids differ, whatever their clocks show: makeInodeRev gives  *)
(* every upload a name that no object and no upload under way has.         *)
(***************************************************************************)
THEOREM RevisionsNeverRewritten ==
    ASSUME DistinctIds, NoFaults
    PROVE  Safety => RevisionsImmutable
<1> DEFINE Same == \A o \in objects, p \in objects' :
                       o.ino = p.ino /\ o.rev = p.rev => o.body = p.body
<1>1. TypeOK /\ IssuedInv /\ [Next]_vars => Same
  <2> SUFFICES ASSUME TypeOK, IssuedInv, [Next]_vars,
                      NEW o \in objects, NEW p \in objects', o.ino = p.ino, o.rev = p.rev
               PROVE  o.body = p.body
    OBVIOUS
  <2>1. \E w \in Writes : SameWrite(w, p)
    <3>1. CASE NothingNew
      BY <3>1 DEF NothingNew, Writes
    <3>2. CASE \E n \in Nodes : UpdateInodes(n)
      BY <3>2 DEF UpdateInodes, Writes, SameWrite
    <3> QED
      BY <3>1, <3>2, OthersNothingNew, NoFaultSteps
  <2>2. PICK w \in Writes : SameWrite(w, p)
    BY <2>1
  <2> QED
    BY <2>2 DEF IssuedInv, OneBody, Writes, SameWrite
<1>2. TypeOK /\ IssuedInv /\ [Next]_vars => [Same]_vars
  BY <1>1
<1>3. RevisionsImmutable <=> [][Same]_vars
  BY DEF RevisionsImmutable
<1> HIDE DEF Same
<1> QED
  BY <1>2, <1>3, StoreTypeCorrect, IssuedInvariant, PTL DEF Safety

-----------------------------------------------------------------------------

\* A revision is on S3.
OnS3(i, r) == \E o \in objects : o.ino = i /\ o.rev = r

NamesInv ==
    /\ deletes = {}
    /\ \A n \in Nodes : /\ clock[n] <= MaxClock[n]
                        /\ \A x \in notes[n] : OnS3(x.ino, x.rev)
                        /\ \A x \in listing[n].page : OnS3(x.ino, x.rev)

\* Names somebody hears of: they exist.
Heard(names) == names \in SUBSET Names /\ \A x \in names : OnS3(x.ino, x.rev)

LEMMA HeardRevs ==
    ASSUME NEW names, Heard(names), NEW i, NEW r \in RevsIn(i, names)
    PROVE  r \in Nat /\ OnS3(i, r)
  BY DEF RevsIn, Heard, Names

\* No revision is old enough to be deleted when it is seen again.
LEMMA LearnDeletesNothing ==
    ASSUME StoreAssumption, NothingIsOld, TypeOK, IssuedInv, NamesInv,
           NEW n \in Nodes, NEW names, Heard(names), NEW in_list, Learn(n, names, in_list)
    PROVE  deletes' = {}
<1>1. ASSUME NEW x \in names PROVE x.rev \notin TooOld(n, x.ino, RevsIn(x.ino, names))
  <2>1. PICK o \in objects : o.ino = x.ino /\ o.rev = x.rev
    BY DEF Heard, OnS3
  <2>2. (Epoch - 1) * 1000 <= x.rev /\ x.rev \in Nat
    BY <2>1, WritesType DEF IssuedInv, RevsNumbered, Writes
  <2>3. /\ Epoch \in Nat /\ Hour \in Nat /\ clock[n] \in Nat /\ MaxClock[n] \in Nat
        /\ clock[n] <= MaxClock[n] /\ Epoch + MaxClock[n] - Hour <= (Epoch - 1) * 1000
    BY DEF StoreAssumption, TypeOK, NamesInv, NothingIsOld
  <2>4. ~(x.rev < delete_ok_stamp(n))
    BY <2>2, <2>3 DEF delete_ok_stamp
  <2> QED
    BY <2>4 DEF TooOld
<1> QED
  BY <1>1 DEF Learn, NamesInv

LEMMA PutDoneNames ==
    ASSUME TypeOK, NamesInv, NEW p \in puts, PutDone(p)
    PROVE  NamesInv'
<1> DEFINE new == [ino |-> p.ino, rev |-> p.rev, body |-> p.body]
<1>1. /\ objects' = (objects \ Found(p.ino, p.rev)) \cup {new}
      /\ UNCHANGED <<clock, listing, deletes>>
  BY DEF PutDone, nodeVars
<1>2. OnS3(p.ino, p.rev)'
  <2>1. new \in objects' /\ new.ino = p.ino /\ new.rev = p.rev
    BY <1>1
  <2> HIDE DEF new
  <2> QED
    BY <2>1 DEF OnS3
<1>3. ASSUME NEW i, NEW r, OnS3(i, r) PROVE OnS3(i, r)'
  <2>1. PICK o \in objects : o.ino = i /\ o.rev = r
    BY <1>3 DEF OnS3
  <2>2. CASE o \in Found(p.ino, p.rev)
    BY <1>2, <2>1, <2>2 DEF Found
  <2>3. CASE o \notin Found(p.ino, p.rev)
    BY <1>1, <2>1, <2>3 DEF OnS3
  <2> QED
    BY <2>2, <2>3
<1>4. \A n \in Nodes : notes'[n] \subseteq notes[n] \cup {[ino |-> p.ino, rev |-> p.rev]}
  BY DEF PutDone
<1>5. \A n \in Nodes : \A x \in notes'[n] : OnS3(x.ino, x.rev)'
  BY <1>2, <1>3, <1>4 DEF NamesInv
<1>6. \A n \in Nodes : \A x \in listing[n].page : OnS3(x.ino, x.rev)'
  BY <1>3 DEF NamesInv
<1> QED
  BY <1>1, <1>5, <1>6 DEF NamesInv

LEMMA ListAnswerNames ==
    ASSUME TypeOK, NamesInv, NEW n \in Nodes, ListAnswer(n)
    PROVE  NamesInv'
<1> DEFINE rest == {[ino |-> o.ino, rev |-> o.rev] :
                       o \in {p \in objects : Before(listing[n].after, p)}}
           page == {o \in rest : Cardinality({p \in rest : Before(p, o)}) < PageSize}
<1>1. listing' = [listing EXCEPT ![n].stage = "answered", ![n].page = page,
                                 ![n].more = (page # rest)]
  BY DEF ListAnswer
<1>2. \A x \in page : OnS3(x.ino, x.rev)
  BY DEF OnS3
<1>3. listing[n] \in Listings /\ n \in DOMAIN listing
  BY DEF TypeOK
<1> DEFINE more == (page # rest)
<1> HIDE DEF page, more
<1>4. listing' = [listing EXCEPT ![n] =
                    [listing[n] EXCEPT !.stage = "answered", !.page = page, !.more = more]]
  BY <1>1 DEF TypeOK, more
<1>5. listing'[n].page = page
  BY <1>3, <1>4 DEF Listings
<1>6. \A m \in Nodes : m # n => listing'[m] = listing[m]
  BY <1>4 DEF TypeOK
<1>7. UNCHANGED <<clock, notes, deletes, objects>>
  BY DEF ListAnswer, nodeVars, wireVars
<1> QED
  BY <1>2, <1>5, <1>6, <1>7 DEF NamesInv, OnS3

LEMMA ListReceiveNames ==
    ASSUME StoreAssumption, NothingIsOld, TypeOK, IssuedInv, NamesInv,
           NEW n \in Nodes, ListReceive(n)
    PROVE  NamesInv'
<1>1. Heard(listing[n].page)
  BY DEF Heard, NamesInv, TypeOK, Listings
<1>2. deletes' = {}
  BY <1>1, LearnDeletesNothing DEF ListReceive
<1>3. AfterListing(n).page = {} /\ \A last : [FreshListing EXCEPT !.after = last].page = {}
  BY DEF AfterListing, FreshListing
<1>4. \E new : listing' = [listing EXCEPT ![n] = new] /\ new.page = {}
  BY <1>3 DEF ListReceive
<1>5. \A m \in Nodes : listing'[m].page = {} \/ listing'[m] = listing[m]
  BY <1>4 DEF TypeOK
<1>6. UNCHANGED <<clock, notes, objects>>
  BY DEF ListReceive
<1> QED
  BY <1>2, <1>5, <1>6 DEF NamesInv, OnS3

LEMMA NotifyNames ==
    ASSUME StoreAssumption, NothingIsOld, TypeOK, IssuedInv, NamesInv,
           NEW n \in Nodes, NEW x \in notes[n], NEW again \in BOOLEAN, Notify(n, x, again)
    PROVE  NamesInv'
<1>1. Heard({x})
  BY DEF Heard, NamesInv, TypeOK
<1>2. deletes' = {}
  BY <1>1, LearnDeletesNothing DEF Notify
<1>3. \A m \in Nodes : notes'[m] \subseteq notes[m]
  BY DEF Notify, TypeOK
<1>4. UNCHANGED <<clock, listing, objects>>
  BY DEF Notify
<1> QED
  BY <1>2, <1>3, <1>4 DEF NamesInv, OnS3

LEMMA NextNames ==
    ASSUME StoreAssumption, NothingIsOld, NoFaults
    PROVE  TypeOK /\ IssuedInv /\ NamesInv /\ [Next]_vars => NamesInv'
<1> SUFFICES ASSUME TypeOK, IssuedInv, NamesInv, [Next]_vars
             PROVE  NamesInv'
  OBVIOUS
<1>1. ASSUME NEW n \in Nodes, Tick(n) PROVE NamesInv'
  <2>1. \A m \in Nodes : clock'[m] <= MaxClock[m]
    BY <1>1 DEF Tick, TypeOK, NamesInv, StoreAssumption
  <2>2. UNCHANGED <<deletes, objects, notes, listing>>
    BY <1>1 DEF Tick, wireVars
  <2> QED
    BY <2>1, <2>2 DEF NamesInv, OnS3
<1>2. ASSUME UNCHANGED <<clock, deletes, objects, notes, listing>> PROVE NamesInv'
  BY <1>2 DEF NamesInv, OnS3
<1>3. ASSUME NEW n \in Nodes, StoreReady(n) \/ UpdateInodes(n) PROVE NamesInv'
  BY <1>2, <1>3 DEF StoreReady, UpdateInodes
<1>4. ASSUME NEW n \in Nodes, NEW i \in Inodes,
             NeedInode(n, i) \/ EditInode(n, i) \/ EditMeta(n, i) \/ CreateInode(n, i)
      PROVE  NamesInv'
  BY <1>2, <1>4 DEF NeedInode, EditInode, EditMeta, CreateInode, wireVars
<1>5. ASSUME NEW g \in gets, ReceiveInode(g) \/ ReceiveNothing(g) PROVE NamesInv'
  BY <1>2, <1>5 DEF ReceiveInode, ReceiveNothing, nodeVars
<1>6. ASSUME NEW d \in doctors, DoctorList(d) \/ DoctorHeals(d) \/ DoctorRetries(d)
      PROVE  NamesInv'
  BY <1>2, <1>6 DEF DoctorList, DoctorHeals, DoctorRetries
<1>7. ASSUME NEW d \in deletes, DeleteDone(d) PROVE NamesInv'
  BY <1>7 DEF NamesInv
<1>8. CASE UNCHANGED vars
  BY <1>2, <1>8 DEF vars, nodeVars, wireVars
<1> QED
  BY <1>1, <1>3, <1>4, <1>5, <1>6, <1>7, <1>8, NoFaultSteps, PutDoneNames,
     ListAnswerNames, ListReceiveNames, NotifyNames DEF Next, S3Answers

LEMMA NamesInvariant ==
    ASSUME DistinctIds, NoFaults, NothingIsOld
    PROVE  Safety => []NamesInv
<1>1. StoreAssumption
  BY StoreAssumption
<1>2. StoreAssumption /\ Init => NamesInv
  <2> SUFFICES ASSUME StoreAssumption, Init
               PROVE  NamesInv
    OBVIOUS
  <2>1. \A n \in Nodes : clock[n] <= MaxClock[n] /\ notes[n] = {} /\ listing[n].page = {}
    BY DEF Init, StoreAssumption, FreshListing
  <2> QED
    BY <2>1 DEF Init, NamesInv
<1> QED
  BY <1>1, <1>2, NextNames, IssuedInvariant, StoreTypeCorrect, PTL DEF Safety

(***************************************************************************)
(* learnFile asks S3 to delete a revision when a higher one is known and   *)
(* it is below delete_ok_stamp (S3FS_Store.cpp:182).  A stamp of this      *)
(* century in milliseconds is below every revision in microseconds, so it  *)
(* never does: no old revision is ever discarded, which is not what        *)
(* doc/storage.md:27-28 says.                                              *)
(***************************************************************************)
THEOREM NothingIsDiscarded ==
    ASSUME DistinctIds, NoFaults, NothingIsOld
    PROVE  Safety => [](deletes = {})
<1>1. NamesInv => deletes = {}
  BY DEF NamesInv
<1> QED
  BY <1>1, NamesInvariant, PTL

-----------------------------------------------------------------------------

LEMMA LatestIsHighest ==
    ASSUME NEW R \in SUBSET Nat, NEW q \in R, NEW b \in Nat, \A r \in R : r <= b
    PROVE  Latest(R) \in R /\ q <= Latest(R)
<1>1. \E x \in R : \A y \in R : y <= x
  BY GreatestNatural
<1>2. Latest(R) \in R /\ \A y \in R : y <= Latest(R)
  BY <1>1 DEF Latest
<1> QED
  BY <1>2

(***************************************************************************)
(* What learnFile does to one inode: the copy stays or goes, and goes only *)
(* when no edit waits for its upload; the revision stays or becomes one    *)
(* that was heard of, and a known one is never replaced by a lower.        *)
(***************************************************************************)
LEMMA LearnKnown ==
    ASSUME TypeOK, RevsBounded, NEW n \in Nodes, NEW names, Heard(names), NEW i \in Inodes
    PROVE  LET R == RevsIn(i, names)
           IN  R # {} => /\ \/ Learned(n, i, R) = kv03[n][i] \/ Learned(n, i, R) = NoRev
                            \/ OnS3(i, Learned(n, i, R))
                         /\ Has(n, i) => kv03[n][i] <= Learned(n, i, R)
<1> DEFINE R == RevsIn(i, names)
           B == Base(n, i, R)
<1>1. R \in SUBSET Nat /\ \A r \in R : OnS3(i, r)
  BY HeardRevs
<1>2. kv03[n][i] \in Nat \cup {NoRev}
  BY DEF TypeOK
<1>3. B = kv03[n][i] \/ B = NoRev \/ B \in R
  BY DEF Base, Earliest
<1>4. Has(n, i) => B = kv03[n][i] /\ B \in Nat
  BY <1>2 DEF Base, Has
<1>5. Latest(R \cup {B}) \in R \cup {B, NoRev}
  BY DEF Latest
<1>6. Has(n, i) => B <= Latest(R \cup {B})
  <2> SUFFICES ASSUME Has(n, i)
               PROVE  B <= Latest(R \cup {B})
    OBVIOUS
  <2>1. PICK b \in Nat : \A o \in Writes : o.rev <= b
    BY DEF RevsBounded
  <2>2. B \in Nat
    BY <1>4
  <2>3. \A r \in R : r <= b
    BY <1>1, <2>1 DEF OnS3, Writes
  <2> HIDE DEF R, B
  <2>4. b + B \in Nat /\ \A r \in R \cup {B} : r <= b + B
    BY <1>1, <2>2, <2>3
  <2>5. R \cup {B} \in SUBSET Nat /\ B \in R \cup {B}
    BY <1>1, <2>2
  <2> QED
    BY <2>4, <2>5, LatestIsHighest
<1>7. Learned(n, i, R) = B \/ Learned(n, i, R) = Latest(R \cup {B})
  BY DEF Learned
<1>8. Has(n, i) => B <= B
  BY <1>4
<1> HIDE DEF R, B
<1>9. \/ Learned(n, i, R) = kv03[n][i] \/ Learned(n, i, R) = NoRev
      \/ OnS3(i, Learned(n, i, R))
  BY <1>1, <1>3, <1>5, <1>7
<1>10. Has(n, i) => kv03[n][i] <= Learned(n, i, R)
  BY <1>4, <1>6, <1>7, <1>8
<1> QED
  BY <1>9, <1>10 DEF R

LEMMA LearnFacts ==
    ASSUME TypeOK, RevsBounded, NEW n \in Nodes, NEW names, Heard(names), NEW in_list,
           Learn(n, names, in_list), NEW m \in Nodes, NEW i \in Inodes
    PROVE  /\ \/ kv01'[m][i] = kv01[m][i]
              \/ kv01'[m][i] = NotLocal /\ ~Pending(m, i)
           /\ \/ kv03'[m][i] = kv03[m][i] \/ kv03'[m][i] = NoRev
              \/ OnS3(i, kv03'[m][i])
           /\ Has(m, i) => kv03[m][i] <= kv03'[m][i]
<1> DEFINE known == [j \in Inodes |-> IF RevsIn(j, names) = {} THEN kv03[n][j]
                                      ELSE Learned(n, j, RevsIn(j, names))]
           copies == [j \in Inodes |-> IF DropsCopy(n, j, RevsIn(j, names)) THEN NotLocal
                                       ELSE kv01[n][j]]
<1>1. kv03' = [kv03 EXCEPT ![n] = known] /\ kv01' = [kv01 EXCEPT ![n] = copies]
  BY DEF Learn
<1>2. /\ known[i] = kv03[n][i] \/ known[i] = NoRev \/ OnS3(i, known[i])
      /\ Has(n, i) => kv03[n][i] <= known[i]
  <2>1. CASE RevsIn(i, names) = {}
    <3>1. known[i] = kv03[n][i]
      BY <2>1
    <3>2. Has(n, i) => kv03[n][i] \in Nat
      BY DEF Has, TypeOK
    <3> HIDE DEF known
    <3> QED
      BY <3>1, <3>2
  <2>2. CASE RevsIn(i, names) # {}
    <3>1. known[i] = Learned(n, i, RevsIn(i, names))
      BY <2>2
    <3> HIDE DEF known
    <3> QED
      BY <2>2, <3>1, LearnKnown
  <2> QED
    BY <2>1, <2>2
<1>3. copies[i] = kv01[n][i] \/ (copies[i] = NotLocal /\ ~Pending(n, i))
  BY DEF DropsCopy
<1> HIDE DEF known, copies
<1>4. CASE m = n
  <2>1. kv03'[m][i] = known[i] /\ kv01'[m][i] = copies[i]
    BY <1>1, <1>4 DEF TypeOK
  <2> QED
    BY <1>2, <1>3, <1>4, <2>1
<1>5. CASE m # n
  <2>1. kv03'[m][i] = kv03[m][i] /\ kv01'[m][i] = kv01[m][i]
    BY <1>1, <1>5 DEF TypeOK
  <2>2. Has(m, i) => kv03[m][i] \in Nat
    BY DEF Has, TypeOK
  <2> QED
    BY <2>1, <2>2
<1> QED
  BY <1>4, <1>5

-----------------------------------------------------------------------------

\* Steps after which all that was written is still there.
NothingLost == \A o \in Writes : \E p \in Writes' : SameWrite(o, p)

LEMMA StepsLoseNothing ==
    ASSUME TypeOK, OneBody, deletes = {}, NoFaults, [Next]_vars
    PROVE  NothingLost
<1>1. ASSUME Writes \subseteq Writes' PROVE NothingLost
  BY <1>1 DEF NothingLost, SameWrite
<1>2. ASSUME NEW n \in Nodes, Tick(n) \/ ListAnswer(n) \/ ListReceive(n) \/ StoreReady(n)
      PROVE  NothingLost
  BY <1>1, <1>2 DEF Tick, ListAnswer, ListReceive, StoreReady, nodeVars, wireVars, Writes
<1>3. ASSUME NEW n \in Nodes, NEW x \in notes[n], NEW again \in BOOLEAN, Notify(n, x, again)
      PROVE  NothingLost
  BY <1>1, <1>3 DEF Notify, Writes
<1>4. ASSUME NEW n \in Nodes, NEW i \in Inodes,
             NeedInode(n, i) \/ EditInode(n, i) \/ EditMeta(n, i) \/ CreateInode(n, i)
      PROVE  NothingLost
  BY <1>1, <1>4 DEF NeedInode, EditInode, EditMeta, CreateInode, wireVars, Writes
<1>5. ASSUME NEW g \in gets, ReceiveInode(g) \/ ReceiveNothing(g) PROVE NothingLost
  BY <1>1, <1>5 DEF ReceiveInode, ReceiveNothing, nodeVars, Writes
<1>6. ASSUME NEW d \in doctors, DoctorList(d) \/ DoctorHeals(d) \/ DoctorRetries(d)
      PROVE  NothingLost
  BY <1>1, <1>6 DEF DoctorList, DoctorHeals, DoctorRetries, Writes
<1>7. ASSUME NEW n \in Nodes, UpdateInodes(n) PROVE NothingLost
  <2>1. puts \subseteq puts' /\ objects' = objects
    BY <1>7 DEF UpdateInodes
  <2> QED
    BY <1>1, <2>1 DEF Writes
<1>8. ASSUME NEW p \in puts, PutDone(p) PROVE NothingLost
  <2> DEFINE new == [ino |-> p.ino, rev |-> p.rev, body |-> p.body]
  <2>1. objects' = (objects \ Found(p.ino, p.rev)) \cup {new} /\ puts' = puts \ {p}
    BY <1>8 DEF PutDone
  <2>2. new \in Writes' /\ new.ino = p.ino /\ new.rev = p.rev /\ new.body = p.body
    BY <2>1 DEF Writes
  <2> HIDE DEF new
  <2>3. ASSUME NEW o \in Writes PROVE \E q \in Writes' : SameWrite(o, q)
    <3>1. CASE o = p
      BY <2>2, <3>1 DEF SameWrite
    <3>2. CASE o \in Found(p.ino, p.rev)
      <4>1. p \in Writes /\ o.ino = p.ino /\ o.rev = p.rev
        BY <3>2 DEF Found, Writes
      <4>2. o.body = p.body
        BY <4>1 DEF OneBody
      <4> QED
        BY <2>2, <4>1, <4>2 DEF SameWrite
    <3>3. CASE o # p /\ o \notin Found(p.ino, p.rev)
      <4>1. o \in Writes'
        BY <2>1, <3>3 DEF Writes
      <4> QED
        BY <4>1 DEF SameWrite
    <3> QED
      BY <3>1, <3>2, <3>3
  <2> QED
    BY <2>3 DEF NothingLost
<1>9. ASSUME NEW d \in deletes PROVE FALSE
  OBVIOUS
<1>10. CASE UNCHANGED vars
  BY <1>1, <1>10 DEF vars, wireVars, Writes
<1> QED
  BY <1>2, <1>3, <1>4, <1>5, <1>6, <1>7, <1>8, <1>9, <1>10, NoFaultSteps DEF Next, S3Answers

\* A revision that is on S3 or on its way there.
IsWritten(i, r) == \E o \in Writes : o.ino = i /\ o.rev = r

LEMMA StillWritten ==
    ASSUME NothingLost, NEW i, NEW r, IsWritten(i, r) \/ OnS3(i, r)
    PROVE  \E p \in Writes' : p.ino = i /\ p.rev = r
<1>1. PICK o \in Writes : o.ino = i /\ o.rev = r
  BY DEF IsWritten, OnS3, Writes
<1>2. PICK p \in Writes' : SameWrite(o, p)
  BY DEF NothingLost
<1> QED
  BY <1>1, <1>2 DEF SameWrite

KnownOk(n, i) == Has(n, i) /\ ~Pending(n, i) => IsWritten(i, kv03[n][i])

KnownInv == \A n \in Nodes, i \in Inodes : KnownOk(n, i)

\* Steps that change neither the revision nor the mark, mark the inode, or
\* take a revision that was heard of or is being uploaded.
LEMMA KnownKept ==
    ASSUME KnownInv, NothingLost, NEW n \in Nodes, NEW i \in Inodes,
           \/ kv03'[n][i] = kv03[n][i] /\ (Pending(n, i) => Pending(n, i)')
           \/ Pending(n, i)' \/ ~Has(n, i)' \/ OnS3(i, kv03'[n][i])
           \/ IsWritten(i, kv03[n][i])'
    PROVE  KnownOk(n, i)'
<1>1. CASE kv03'[n][i] = kv03[n][i] /\ (Pending(n, i) => Pending(n, i)')
  <2>1. CASE Has(n, i) /\ ~Pending(n, i)
    <3>1. IsWritten(i, kv03[n][i])
      BY <2>1 DEF KnownInv, KnownOk
    <3>2. \E p \in Writes' : p.ino = i /\ p.rev = kv03'[n][i]
      BY <1>1, <3>1, StillWritten
    <3> QED
      BY <3>2 DEF KnownOk, IsWritten
  <2>2. CASE ~Has(n, i)
    BY <1>1, <2>2 DEF KnownOk, Has
  <2>3. CASE Pending(n, i)
    BY <1>1, <2>3 DEF KnownOk
  <2> QED
    BY <2>1, <2>2, <2>3
<1>2. CASE Pending(n, i)' \/ ~Has(n, i)' \/ IsWritten(i, kv03[n][i])'
  BY <1>2 DEF KnownOk
<1>3. CASE OnS3(i, kv03'[n][i])
  <2>1. \E p \in Writes' : p.ino = i /\ p.rev = kv03'[n][i]
    BY <1>3, StillWritten
  <2> QED
    BY <2>1 DEF KnownOk, IsWritten
<1> QED
  BY <1>1, <1>2, <1>3

\* Steps that keep what nodes know and mark no less.
LEMMA KnownSame ==
    ASSUME KnownInv, NothingLost, UNCHANGED <<kv03, inodes_to_update>>
    PROVE  KnownInv'
<1> SUFFICES ASSUME NEW m \in Nodes, NEW j \in Inodes
             PROVE  KnownOk(m, j)'
  BY DEF KnownInv
<1>1. kv03'[m][j] = kv03[m][j] /\ (Pending(m, j) => Pending(m, j)')
  BY DEF Pending
<1> QED
  BY <1>1, KnownKept

\* Steps that mark an inode, whatever they do to its revision.
LEMMA KnownMarked ==
    ASSUME TypeOK, KnownInv, NothingLost, NEW n \in Nodes, NEW i \in Inodes,
           kv03' = kv03 \/ kv03' = [kv03 EXCEPT ![n][i] = 0],
           inodes_to_update' = [inodes_to_update EXCEPT ![n] = @ \cup {i}]
    PROVE  KnownInv'
<1> SUFFICES ASSUME NEW m \in Nodes, NEW j \in Inodes
             PROVE  KnownOk(m, j)'
  BY DEF KnownInv
<1>1. CASE m = n /\ j = i
  <2>1. Pending(m, j)'
    BY <1>1 DEF Pending, TypeOK
  <2> QED
    BY <2>1, KnownKept
<1>2. CASE ~(m = n /\ j = i)
  <2>1. kv03'[m][j] = kv03[m][j]
    BY <1>2 DEF TypeOK
  <2>2. Pending(m, j) => Pending(m, j)'
    BY DEF Pending, TypeOK
  <2> QED
    BY <2>1, <2>2, KnownKept
<1> QED
  BY <1>1, <1>2

LEMMA KnownLearnt ==
    ASSUME TypeOK, RevsBounded, KnownInv, NothingLost, NEW n \in Nodes, NEW names, Heard(names),
           NEW in_list, Learn(n, names, in_list), UNCHANGED inodes_to_update
    PROVE  KnownInv'
<1> SUFFICES ASSUME NEW m \in Nodes, NEW j \in Inodes
             PROVE  KnownOk(m, j)'
  BY DEF KnownInv
<1>1. kv03'[m][j] = kv03[m][j] \/ kv03'[m][j] = NoRev \/ OnS3(j, kv03'[m][j])
  BY LearnFacts
<1>2. kv03'[m][j] = NoRev => ~Has(m, j)'
  BY DEF Has
<1>3. Pending(m, j) => Pending(m, j)'
  BY DEF Pending
<1> QED
  BY <1>1, <1>2, <1>3, KnownKept

LEMMA KnownUploaded ==
    ASSUME StoreAssumption, TypeOK, CountersNumbered, PendingIsLocal, KnownInv, NothingLost,
           NEW n \in Nodes, UpdateInodes(n)
    PROVE  KnownInv'
<1> SUFFICES ASSUME NEW m \in Nodes, NEW j \in Inodes
             PROVE  KnownOk(m, j)'
  BY DEF KnownInv
<1>1. PICK revs : /\ puts' = puts \cup Sent(n, revs)
                  /\ kv03' = [kv03 EXCEPT ![n] =
                         [i \in Inodes |-> IF i \in Todo(n) THEN revs[i] ELSE @[i]]]
  BY UpdateFacts
<1>2. \A k \in Nodes : k # n => /\ kv03'[k] = kv03[k]
                               /\ inodes_to_update'[k] = inodes_to_update[k]
  BY <1>1 DEF TypeOK, UpdateInodes
<1>3. CASE m # n
  <2>1. kv03'[m][j] = kv03[m][j] /\ (Pending(m, j) => Pending(m, j)')
    BY <1>2, <1>3 DEF Pending
  <2> QED
    BY <2>1, KnownKept
<1>4. CASE m = n /\ j \in Todo(n)
  <2> DEFINE p == [node |-> n, ino |-> j, rev |-> revs[j], body |-> kv01[n][j]]
  <2>1. kv03'[m][j] = revs[j]
    BY <1>1, <1>4 DEF TypeOK
  <2>2. p \in Writes'
    BY <1>1, <1>4 DEF Sent, Writes
  <2>3. p.ino = j /\ p.rev = kv03'[m][j]
    BY <2>1
  <2> HIDE DEF p
  <2> QED
    BY <2>2, <2>3 DEF KnownOk, IsWritten
<1>5. CASE m = n /\ j \notin Todo(n)
  <2>1. kv03'[m][j] = kv03[m][j]
    BY <1>1, <1>5 DEF TypeOK
  <2>2. ~Pending(m, j)
    BY <1>5 DEF Todo, Pending, PendingIsLocal
  <2> QED
    BY <2>1, <2>2, KnownKept
<1> QED
  BY <1>3, <1>4, <1>5

LEMMA NextKnown ==
    ASSUME StoreAssumption, NoFaults
    PROVE  /\ TypeOK /\ IssuedInv /\ NamesInv /\ PendingIsLocal /\ KnownInv /\ [Next]_vars
           => KnownInv'
<1> SUFFICES ASSUME TypeOK, IssuedInv, NamesInv, PendingIsLocal, KnownInv, [Next]_vars
             PROVE  KnownInv'
  OBVIOUS
<1>1. NothingLost /\ RevsBounded /\ CountersNumbered
  BY StepsLoseNothing DEF IssuedInv, NamesInv
<1>2. ASSUME NEW n \in Nodes, Tick(n) \/ ListAnswer(n) PROVE KnownInv'
  BY <1>1, <1>2, KnownSame DEF Tick, ListAnswer, nodeVars
<1>3. ASSUME NEW n \in Nodes, ListReceive(n) PROVE KnownInv'
  <2>1. Heard(listing[n].page)
    BY DEF Heard, NamesInv, TypeOK, Listings
  <2> QED
    BY <1>1, <1>3, <2>1, KnownLearnt DEF ListReceive
<1>4. ASSUME NEW n \in Nodes, NEW x \in notes[n], NEW again \in BOOLEAN, Notify(n, x, again)
      PROVE  KnownInv'
  <2>1. Heard({x})
    BY DEF Heard, NamesInv, TypeOK
  <2> QED
    BY <1>1, <1>4, <2>1, KnownLearnt DEF Notify
<1>5. ASSUME NEW n \in Nodes, StoreReady(n) PROVE KnownInv'
  <2>1. CASE UNCHANGED <<kv03, inodes_to_update>>
    BY <1>1, <2>1, KnownSame
  <2>2. CASE /\ Root \in Inodes
             /\ kv03' = [kv03 EXCEPT ![n][Root] = 0]
             /\ inodes_to_update' = [inodes_to_update EXCEPT ![n] = @ \cup {Root}]
    BY <1>1, <2>2, KnownMarked
  <2> QED
    BY <1>5, <2>1, <2>2 DEF StoreReady
<1>6. ASSUME NEW n \in Nodes, NEW i \in Inodes, NeedInode(n, i) PROVE KnownInv'
  BY <1>1, <1>6, KnownSame DEF NeedInode
<1>7. ASSUME NEW n \in Nodes, NEW i \in Inodes,
             EditInode(n, i) \/ EditMeta(n, i) \/ CreateInode(n, i)
      PROVE  KnownInv'
  <2>1. /\ kv03' = kv03 \/ kv03' = [kv03 EXCEPT ![n][i] = 0]
        /\ inodes_to_update' = [inodes_to_update EXCEPT ![n] = @ \cup {i}]
    BY <1>7 DEF EditInode, EditMeta, CreateInode, Change
  <2> QED
    BY <1>1, <2>1, KnownMarked
<1>8. ASSUME NEW n \in Nodes, UpdateInodes(n) PROVE KnownInv'
  BY <1>1, <1>8, KnownUploaded
<1>9. ASSUME NEW g \in gets, ReceiveInode(g) \/ ReceiveNothing(g) PROVE KnownInv'
  BY <1>1, <1>9, KnownSame DEF ReceiveInode, ReceiveNothing, nodeVars
<1>10. ASSUME NEW d \in doctors, DoctorList(d) \/ DoctorRetries(d) PROVE KnownInv'
  BY <1>1, <1>10, KnownSame DEF DoctorList, DoctorRetries
<1>11. ASSUME NEW d \in doctors, DoctorHeals(d) PROVE KnownInv'
  <2>1. d.node \in Nodes /\ d.ino \in Inodes
    BY DEF TypeOK
  <2> QED
    BY <1>1, <1>11, <2>1, KnownMarked DEF DoctorHeals
<1>12. ASSUME NEW p \in puts, PutDone(p) PROVE KnownInv'
  BY <1>1, <1>12, KnownSame DEF PutDone, nodeVars
<1>13. ASSUME NEW d \in deletes, DeleteDone(d) PROVE KnownInv'
  BY <1>1, <1>13, KnownSame DEF DeleteDone, nodeVars
<1>14. CASE UNCHANGED vars
  BY <1>1, <1>14, KnownSame DEF vars, nodeVars
<1> QED
  BY <1>2, <1>3, <1>4, <1>5, <1>6, <1>7, <1>8, <1>9, <1>10, <1>11, <1>12, <1>13, <1>14,
     NoFaultSteps DEF Next, S3Answers

\* Written(i), as the properties have it, and Writes.
LEMMA WrittenFacts ==
    ASSUME NEW i, NEW o \in Writes, o.ino = i
    PROVE  \E w \in Written(i) : w.rev = o.rev /\ w.body = o.body
<1> DEFINE w == [rev |-> o.rev, body |-> o.body]
<1>1. w \in Written(i) /\ w.rev = o.rev /\ w.body = o.body
  BY DEF Written, Writes
<1> HIDE DEF w
<1> QED
  BY <1>1

(***************************************************************************)
(* The revision a node knows is on S3 or on its way there                  *)
(* (KnownRevisionExists), in a cluster of any size.  It rests on           *)
(* learnFile never deleting a revision, which rests on milliseconds being  *)
(* compared with microseconds: with a working delete_ok_stamp a node that  *)
(* has not heard of the higher revision would be left with a name that is  *)
(* gone.                                                                   *)
(***************************************************************************)
THEOREM KnownRevisionsExist ==
    ASSUME DistinctIds, NoFaults, NothingIsOld
    PROVE  Safety => []KnownRevisionExists
<1>1. StoreAssumption
  BY StoreAssumption
<1>2. Init => KnownInv
  BY DEF Init, KnownInv, KnownOk, Has
<1>3. KnownInv => KnownRevisionExists
  <2> SUFFICES ASSUME KnownInv, NEW n \in Nodes, NEW i \in Inodes \ inodes_to_update[n], Has(n, i)
               PROVE  \E w \in Written(i) : w.rev = kv03[n][i]
    BY DEF KnownRevisionExists
  <2>1. PICK o \in Writes : o.ino = i /\ o.rev = kv03[n][i]
    BY DEF KnownInv, KnownOk, Pending, IsWritten
  <2> QED
    BY <2>1, WrittenFacts
<1> QED
  BY <1>1, <1>2, <1>3, NextKnown, StoreTypeCorrect, IssuedInvariant, NamesInvariant,
     EditsStayUploadable, PTL DEF Safety

-----------------------------------------------------------------------------

\* The downloads and the doctors of one inode on one node.
GetsOf(n, i) == {g \in gets : g.node = n /\ g.ino = i}
DoctorsOf(n, i) == {d \in doctors : d.node = n /\ d.ino = i}

\* One of them at most, and none when nobody waits.
OneFetch(n, i) ==
    /\ GetsOf(n, i) = {} \/ DoctorsOf(n, i) = {}
    /\ \A g, h \in GetsOf(n, i) : g = h
    /\ \A d, e \in DoctorsOf(n, i) : d = e
    /\ i \notin waiting[n] => GetsOf(n, i) = {} /\ DoctorsOf(n, i) = {}

IsARevision(n, i) == \E o \in Writes : o.ino = i /\ o.body = kv01[n][i] /\ o.rev <= kv03[n][i]

\* What a node has of an inode other than the root.
PairOk(n, i) ==
    /\ Local(n, i) => Has(n, i)
    /\ Has(n, i) => i \in used.created
    /\ i \in waiting[n] => Has(n, i) /\ ~Local(n, i)
    /\ OneFetch(n, i)
    /\ \A g \in GetsOf(n, i) : g.rev <= kv03[n][i]
    /\ Local(n, i) /\ ~Pending(n, i) => IsARevision(n, i)

PairsOk == \A n \in Nodes : \A i \in Inodes \ {Root} : PairOk(n, i)

InosCreated == \A o \in Writes : o.ino \in used.created \cup {Root}

CopyInv == PairsOk /\ InosCreated

\* Who waits has no copy and so no edit that waits for its upload.
LEMMA WaitersIdle ==
    ASSUME PendingIsLocal, NEW n \in Nodes, NEW i \in Inodes, PairOk(n, i), i \in waiting[n]
    PROVE  ~Pending(n, i) /\ ~Local(n, i) /\ Has(n, i)
  BY DEF PairOk, Pending, PendingIsLocal

LEMMA RevisionStays ==
    ASSUME NothingLost, NEW n, NEW i, IsARevision(n, i), kv01'[n][i] = kv01[n][i],
           \A o \in Writes : o.rev <= kv03[n][i] => o.rev <= kv03'[n][i]
    PROVE  IsARevision(n, i)'
<1>1. PICK o \in Writes : o.ino = i /\ o.body = kv01[n][i] /\ o.rev <= kv03[n][i]
  BY DEF IsARevision
<1>2. PICK p \in Writes' : SameWrite(o, p)
  BY DEF NothingLost
<1> QED
  BY <1>1, <1>2 DEF IsARevision, SameWrite

FetchKept(n, i) ==
    /\ i \in waiting'[n] <=> i \in waiting[n]
    /\ GetsOf(n, i)' = GetsOf(n, i)
    /\ DoctorsOf(n, i)' = DoctorsOf(n, i)

\* A step that does nothing to this inode on this node.
PairKept(n, i) ==
    /\ kv01'[n][i] = kv01[n][i] /\ kv03'[n][i] = kv03[n][i]
    /\ Pending(n, i)' <=> Pending(n, i)
    /\ FetchKept(n, i)

MoreCreated == used.created \subseteq used.created'

LEMMA KeptOk ==
    ASSUME NothingLost, MoreCreated, NEW n \in Nodes, NEW i \in Inodes, PairOk(n, i), PairKept(n, i)
    PROVE  PairOk(n, i)'
<1>1. OneFetch(n, i)'
  BY DEF PairOk, OneFetch, PairKept, FetchKept
<1>2. Local(n, i)' /\ ~Pending(n, i)' => IsARevision(n, i)'
  BY RevisionStays DEF PairOk, PairKept, Local
<1>3. \A g \in GetsOf(n, i)' : g.rev <= kv03'[n][i]
  BY DEF PairOk, PairKept, FetchKept
<1>4. /\ Local(n, i)' => Has(n, i)'
      /\ Has(n, i)' => i \in used.created'
      /\ i \in waiting'[n] => Has(n, i)' /\ ~Local(n, i)'
  BY DEF PairOk, PairKept, FetchKept, Local, Has, MoreCreated
<1> QED
  BY <1>1, <1>2, <1>3, <1>4 DEF PairOk

\* One inode of a node hears of names.
LEMMA LearntOk ==
    ASSUME TypeOK, RevsBounded, InosCreated, PendingIsLocal, NothingLost, MoreCreated,
           NEW n \in Nodes, NEW names, Heard(names), NEW in_list, Learn(n, names, in_list),
           UNCHANGED inodes_to_update,
           NEW m \in Nodes, NEW i \in Inodes \ {Root}, PairOk(m, i), FetchKept(m, i),
           kv03'[m][i] \in Known
    PROVE  PairOk(m, i)'
<1>1. /\ \/ kv01'[m][i] = kv01[m][i]
         \/ kv01'[m][i] = NotLocal /\ ~Pending(m, i)
      /\ \/ kv03'[m][i] = kv03[m][i] \/ kv03'[m][i] = NoRev
         \/ OnS3(i, kv03'[m][i])
      /\ Has(m, i) => kv03[m][i] <= kv03'[m][i]
  BY LearnFacts
<1>2. Has(m, i) => kv03[m][i] \in Nat /\ kv03'[m][i] \in Nat
  BY <1>1 DEF TypeOK, Has, Known, NoRev
<1>3. Has(m, i) => Has(m, i)'
  BY <1>2 DEF Has, NoRev
<1>4. Local(m, i)' => Local(m, i) /\ kv01'[m][i] = kv01[m][i]
  BY <1>1 DEF Local
<1>5. Has(m, i)' => i \in used.created'
  <2>1. CASE OnS3(i, kv03'[m][i])
    BY <2>1 DEF OnS3, InosCreated, Writes, MoreCreated
  <2>2. CASE kv03'[m][i] = kv03[m][i]
    BY <2>2 DEF PairOk, Has, MoreCreated
  <2> QED
    BY <1>1, <2>1, <2>2 DEF Has
<1>6. OneFetch(m, i)'
  BY DEF PairOk, OneFetch, FetchKept
<1>7. \A g \in GetsOf(m, i)' : g.rev <= kv03'[m][i]
  <2> SUFFICES ASSUME NEW g \in GetsOf(m, i)
               PROVE  g.rev <= kv03'[m][i]
    BY DEF FetchKept
  <2>1. Has(m, i) /\ g.rev <= kv03[m][i]
    BY DEF PairOk, OneFetch
  <2>2. g.rev \in Nat
    BY DEF GetsOf, TypeOK
  <2> QED
    BY <1>1, <1>2, <2>1, <2>2
<1>8. Local(m, i)' /\ ~Pending(m, i)' => IsARevision(m, i)'
  <2> SUFFICES ASSUME Local(m, i)', ~Pending(m, i)'
               PROVE  IsARevision(m, i)'
    OBVIOUS
  <2>1. IsARevision(m, i) /\ Has(m, i)
    BY <1>4 DEF PairOk, Pending
  <2>2. \A o \in Writes : o.rev \in Nat
    BY WritesType
  <2>3. \A o \in Writes : o.rev <= kv03[m][i] => o.rev <= kv03'[m][i]
    BY <1>1, <1>2, <2>1, <2>2
  <2> QED
    BY <1>4, <2>1, <2>3, RevisionStays
<1>9. i \in waiting'[m] => Has(m, i)' /\ ~Local(m, i)'
  BY <1>3, <1>4 DEF PairOk, FetchKept
<1>10. Local(m, i)' => Has(m, i)'
  BY <1>3, <1>4 DEF PairOk
<1> QED
  BY <1>5, <1>6, <1>7, <1>8, <1>9, <1>10 DEF PairOk

-----------------------------------------------------------------------------

(***************************************************************************)
(* Steps about one inode of one node leave all others as they are.         *)
(***************************************************************************)
Elsewhere(n, i, wire, after) ==
    \A x \in wire \cup after : x.node # n \/ x.ino # i => (x \in after <=> x \in wire)

LEMMA OtherPairs ==
    ASSUME TypeOK, NEW n \in Nodes, NEW i \in Inodes,
           kv01' = kv01 \/ \E c : kv01' = [kv01 EXCEPT ![n][i] = c],
           kv03' = kv03 \/ \E r : kv03' = [kv03 EXCEPT ![n][i] = r],
           \/ inodes_to_update' = inodes_to_update
           \/ inodes_to_update' = [inodes_to_update EXCEPT ![n] = @ \cup {i}],
           \/ waiting' = waiting
           \/ waiting' = [waiting EXCEPT ![n] = @ \cup {i}]
           \/ waiting' = [waiting EXCEPT ![n] = @ \ {i}],
           Elsewhere(n, i, gets, gets'), Elsewhere(n, i, doctors, doctors'),
           NEW m \in Nodes, NEW j \in Inodes, m # n \/ j # i
    PROVE  PairKept(m, j)
<1>1. kv01'[m][j] = kv01[m][j] /\ kv03'[m][j] = kv03[m][j]
  BY DEF TypeOK
<1>2. j \in inodes_to_update'[m] <=> j \in inodes_to_update[m]
  BY DEF TypeOK
<1>3. j \in waiting'[m] <=> j \in waiting[m]
  BY DEF TypeOK
<1>4. GetsOf(m, j)' = GetsOf(m, j)
  BY DEF GetsOf, Elsewhere
<1>5. DoctorsOf(m, j)' = DoctorsOf(m, j)
  BY DEF DoctorsOf, Elsewhere
<1> QED
  BY <1>1, <1>2, <1>3, <1>4, <1>5 DEF PairKept, FetchKept, Pending

LEMMA PairsTogether ==
    ASSUME PairsOk, NothingLost, MoreCreated,
           \A m \in Nodes : \A j \in Inodes \ {Root} : PairKept(m, j) \/ PairOk(m, j)'
    PROVE  PairsOk'
  BY KeptOk DEF PairsOk

\* callbackOnInodeCached: the first who waits for a copy that is not there.
LEMMA NeedInodePair ==
    ASSUME TypeOK, PairsOk, NothingLost, MoreCreated, NEW n \in Nodes, NEW i \in Inodes,
           NeedInode(n, i)
    PROVE  PairsOk'
<1> DEFINE g == [node |-> n, ino |-> i, rev |-> kv03[n][i]]
<1>1. /\ waiting' = [waiting EXCEPT ![n] = @ \cup {i}]
      /\ gets' = gets \cup {g}
      /\ UNCHANGED <<kv01, kv03, inodes_to_update, doctors, used>>
      /\ Has(n, i) /\ ~Local(n, i) /\ i \notin waiting[n]
  BY DEF NeedInode
<1>2. g.node = n /\ g.ino = i /\ g.rev = kv03[n][i]
  OBVIOUS
<1> HIDE DEF g
<1>3. ASSUME NEW m \in Nodes, NEW j \in Inodes \ {Root}, ~(m = n /\ j = i) PROVE PairKept(m, j)
  <2>1. Elsewhere(n, i, gets, gets') /\ Elsewhere(n, i, doctors, doctors')
    BY <1>1, <1>2 DEF Elsewhere
  <2> QED
    BY <1>1, <1>3, <2>1, OtherPairs
<1>4. ASSUME i # Root PROVE PairOk(n, i)'
  <2>1. PairOk(n, i)
    BY <1>4 DEF PairsOk
  <2>2. GetsOf(n, i) = {} /\ DoctorsOf(n, i) = {}
    BY <1>1, <2>1 DEF PairOk, OneFetch
  <2>3. GetsOf(n, i)' = {g} /\ DoctorsOf(n, i)' = {}
    BY <1>1, <1>2, <2>2 DEF GetsOf, DoctorsOf
  <2>4. i \in waiting'[n]
    BY <1>1 DEF TypeOK
  <2>5. OneFetch(n, i)'
    BY <2>3, <2>4 DEF OneFetch
  <2>6. Has(n, i)' /\ ~Local(n, i)' /\ i \in used.created'
    BY <1>1, <2>1 DEF PairOk, Has, Local
  <2>7. kv03[n][i] \in Nat /\ kv03'[n][i] = kv03[n][i]
    BY <1>1 DEF TypeOK, Has
  <2>8. \A h \in GetsOf(n, i)' : h.rev <= kv03'[n][i]
    BY <1>2, <2>3, <2>7
  <2> QED
    BY <2>5, <2>6, <2>8 DEF PairOk
<1> QED
  BY <1>3, <1>4, PairsTogether

\* receivedInode: the copy is the revision, nothing is inserted over another.
LEMMA ReceiveInodePair ==
    ASSUME TypeOK, PendingIsLocal, PairsOk, NothingLost, MoreCreated,
           NEW g \in gets, ReceiveInode(g)
    PROVE  PairsOk'
<1> DEFINE n == g.node
           i == g.ino
<1>1. n \in Nodes /\ i \in Inodes /\ g.rev \in Nat
  BY DEF TypeOK
<1>2. PICK o \in Found(i, g.rev) : kv01' = [kv01 EXCEPT ![n][i] = Over(kv01[n][i], o.body)]
  BY DEF ReceiveInode
<1>3. /\ gets' = gets \ {g}
      /\ waiting' = [waiting EXCEPT ![n] = @ \ {i}]
      /\ UNCHANGED <<kv03, inodes_to_update, doctors, used, objects, puts>>
  BY DEF ReceiveInode
<1>4. ASSUME NEW m \in Nodes, NEW j \in Inodes \ {Root}, ~(m = n /\ j = i) PROVE PairKept(m, j)
  <2>1. Elsewhere(n, i, gets, gets') /\ Elsewhere(n, i, doctors, doctors')
    BY <1>3 DEF Elsewhere
  <2> HIDE DEF n, i
  <2> QED
    BY <1>1, <1>2, <1>3, <1>4, <2>1, OtherPairs
<1>5. ASSUME i # Root PROVE PairOk(n, i)'
  <2>1. PairOk(n, i)
    BY <1>1, <1>5 DEF PairsOk
  <2>2. g \in GetsOf(n, i)
    BY DEF GetsOf
  <2> HIDE DEF n, i
  <2>3. i \in waiting[n] /\ GetsOf(n, i) = {g} /\ DoctorsOf(n, i) = {} /\ g.rev <= kv03[n][i]
    BY <2>1, <2>2 DEF PairOk, OneFetch
  <2>4. ~Local(n, i) /\ Has(n, i)
    BY <2>1, <2>3 DEF PairOk
  <2>5. GetsOf(n, i)' = {} /\ DoctorsOf(n, i)' = {}
    BY <1>3, <2>3 DEF GetsOf, DoctorsOf
  <2>6. kv01'[n][i] = o.body
    BY <1>1, <1>2, <2>4 DEF TypeOK, Local, Over
  <2>7. i \notin waiting'[n]
    BY <1>1, <1>3 DEF TypeOK
  <2>8. o \in Writes' /\ o.ino = i /\ o.rev <= kv03'[n][i]
    BY <1>2, <1>3, <2>3 DEF Found, Writes
  <2>9. IsARevision(n, i)'
    BY <2>6, <2>8 DEF IsARevision
  <2>10. Has(n, i)' /\ i \in used.created'
    BY <1>3, <2>1, <2>4 DEF PairOk, Has
  <2> QED
    BY <2>5, <2>7, <2>9, <2>10 DEF PairOk, OneFetch
<1> HIDE DEF n, i
<1> QED
  BY <1>4, <1>5, PairsTogether

\* receivedInode without data: the doctor takes the place of the download.
LEMMA ReceiveNothingPair ==
    ASSUME TypeOK, PairsOk, NothingLost, MoreCreated, NEW g \in gets, ReceiveNothing(g)
    PROVE  PairsOk'
<1> DEFINE n == g.node
           i == g.ino
           d == [node |-> n, ino |-> i, stage |-> "list", revs |-> {}]
<1>1. n \in Nodes /\ i \in Inodes
  BY DEF TypeOK
<1>2. /\ gets' = gets \ {g} /\ doctors' = doctors \cup {d}
      /\ UNCHANGED <<kv01, kv03, inodes_to_update, waiting, used>>
  BY DEF ReceiveNothing, nodeVars
<1>3. d.node = n /\ d.ino = i
  OBVIOUS
<1> HIDE DEF d
<1>4. ASSUME NEW m \in Nodes, NEW j \in Inodes \ {Root}, ~(m = n /\ j = i) PROVE PairKept(m, j)
  <2>1. Elsewhere(n, i, gets, gets') /\ Elsewhere(n, i, doctors, doctors')
    BY <1>2, <1>3 DEF Elsewhere
  <2> HIDE DEF n, i
  <2> QED
    BY <1>1, <1>2, <1>4, <2>1, OtherPairs
<1>5. ASSUME i # Root PROVE PairOk(n, i)'
  <2>1. PairOk(n, i)
    BY <1>1, <1>5 DEF PairsOk
  <2>2. g \in GetsOf(n, i)
    BY DEF GetsOf
  <2> HIDE DEF n, i
  <2>3. i \in waiting[n] /\ GetsOf(n, i) = {g} /\ DoctorsOf(n, i) = {}
    BY <2>1, <2>2 DEF PairOk, OneFetch
  <2>4. GetsOf(n, i)' = {} /\ DoctorsOf(n, i)' = {d}
    BY <1>2, <1>3, <2>3 DEF GetsOf, DoctorsOf
  <2>5. i \in waiting'[n] /\ Has(n, i)' /\ ~Local(n, i)' /\ i \in used.created'
    BY <1>2, <2>1, <2>3 DEF PairOk, Has, Local
  <2> QED
    BY <2>4, <2>5 DEF PairOk, OneFetch
<1> HIDE DEF n, i
<1> QED
  BY <1>4, <1>5, PairsTogether

\* A doctor that gives up: the requests that waited are answered.
LEMMA DoctorFailsPair ==
    ASSUME TypeOK, PairsOk, NothingLost, MoreCreated, NEW d \in doctors, DoctorFails(d),
           UNCHANGED <<kv01, kv03, inodes_to_update, gets, used>>
    PROVE  PairsOk'
<1> DEFINE n == d.node
           i == d.ino
<1>1. n \in Nodes /\ i \in Inodes
  BY DEF TypeOK
<1>2. doctors' = doctors \ {d} /\ waiting' = [waiting EXCEPT ![n] = @ \ {i}]
  BY DEF DoctorFails
<1>3. Elsewhere(n, i, gets, gets') /\ Elsewhere(n, i, doctors, doctors')
  BY <1>2 DEF Elsewhere
<1>4. ASSUME i # Root PROVE PairOk(n, i) /\ d \in DoctorsOf(n, i)
  BY <1>1, <1>4 DEF PairsOk, DoctorsOf
<1> HIDE DEF n, i
<1>5. ASSUME NEW m \in Nodes, NEW j \in Inodes \ {Root}, ~(m = n /\ j = i) PROVE PairKept(m, j)
  BY <1>1, <1>2, <1>3, <1>5, OtherPairs
<1>6. ASSUME i # Root PROVE PairOk(n, i)'
  <2>1. i \in waiting[n] /\ DoctorsOf(n, i) = {d} /\ GetsOf(n, i) = {}
    BY <1>4, <1>6 DEF PairOk, OneFetch
  <2>2. GetsOf(n, i)' = {} /\ DoctorsOf(n, i)' = {}
    BY <1>2, <2>1 DEF GetsOf, DoctorsOf
  <2>3. ~Local(n, i)' /\ Has(n, i)' /\ i \in used.created'
    BY <1>4, <1>6, <2>1 DEF PairOk, Has, Local
  <2>4. i \notin waiting'[n]
    BY <1>1, <1>2 DEF TypeOK
  <2> QED
    BY <2>2, <2>3, <2>4 DEF PairOk, OneFetch
<1> QED
  BY <1>5, <1>6, PairsTogether

\* A doctor that goes on.
LEMMA DoctorGoesOnPair ==
    ASSUME TypeOK, PairsOk, NothingLost, MoreCreated,
           NEW d \in doctors, NEW e, e.node = d.node, e.ino = d.ino,
           doctors' = (doctors \ {d}) \cup {e},
           UNCHANGED <<kv01, kv03, inodes_to_update, waiting, gets, used>>
    PROVE  PairsOk'
<1> DEFINE n == d.node
           i == d.ino
<1>1. n \in Nodes /\ i \in Inodes
  BY DEF TypeOK
<1>2. Elsewhere(n, i, gets, gets') /\ Elsewhere(n, i, doctors, doctors')
  BY DEF Elsewhere
<1>3. ASSUME i # Root PROVE PairOk(n, i) /\ d \in DoctorsOf(n, i)
  BY <1>1, <1>3 DEF PairsOk, DoctorsOf
<1>4. e.node = n /\ e.ino = i
  OBVIOUS
<1> HIDE DEF n, i
<1>5. ASSUME NEW m \in Nodes, NEW j \in Inodes \ {Root}, ~(m = n /\ j = i) PROVE PairKept(m, j)
  BY <1>1, <1>2, <1>5, OtherPairs
<1>6. ASSUME i # Root PROVE PairOk(n, i)'
  <2>1. i \in waiting[n] /\ DoctorsOf(n, i) = {d} /\ GetsOf(n, i) = {}
    BY <1>3, <1>6 DEF PairOk, OneFetch
  <2>2. GetsOf(n, i)' = {} /\ DoctorsOf(n, i)' = {e}
    BY <1>4, <2>1 DEF GetsOf, DoctorsOf
  <2>3. i \in waiting'[n] /\ ~Local(n, i)' /\ Has(n, i)' /\ i \in used.created'
    BY <1>3, <1>6, <2>1 DEF PairOk, Has, Local
  <2> QED
    BY <2>2, <2>3 DEF PairOk, OneFetch
<1> QED
  BY <1>5, <1>6, PairsTogether

LEMMA DoctorListPair ==
    ASSUME TypeOK, PairsOk, NothingLost, MoreCreated, NEW d \in doctors, DoctorList(d)
    PROVE  PairsOk'
<1> DEFINE e == [d EXCEPT !.stage = "get", !.revs = RevsIn(d.ino, objects)]
<1>1. e.node = d.node /\ e.ino = d.ino
  BY DEF TypeOK
<1>2. \/ DoctorFails(d)
      \/ doctors' = (doctors \ {d}) \cup {e} /\ UNCHANGED waiting
  BY DEF DoctorList
<1>3. UNCHANGED <<kv01, kv03, inodes_to_update, gets, used>>
  BY DEF DoctorList
<1> HIDE DEF e
<1> QED
  BY <1>1, <1>2, <1>3, DoctorFailsPair, DoctorGoesOnPair

LEMMA DoctorRetriesPair ==
    ASSUME TypeOK, PairsOk, NothingLost, MoreCreated, NEW d \in doctors, DoctorRetries(d)
    PROVE  PairsOk'
<1> DEFINE e == [d EXCEPT !.revs = d.revs \ {Latest(d.revs)}]
<1>1. e.node = d.node /\ e.ino = d.ino
  BY DEF TypeOK
<1>2. \/ DoctorFails(d)
      \/ doctors' = (doctors \ {d}) \cup {e} /\ UNCHANGED waiting
  BY DEF DoctorRetries
<1>3. UNCHANGED <<kv01, kv03, inodes_to_update, gets, used>>
  BY DEF DoctorRetries
<1> HIDE DEF e
<1> QED
  BY <1>1, <1>2, <1>3, DoctorFailsPair, DoctorGoesOnPair

\* The doctor stores what it found: the inode is marked for upload.
LEMMA DoctorHealsPair ==
    ASSUME StoreAssumption, TypeOK, PairsOk, NothingLost, MoreCreated,
           NEW d \in doctors, DoctorHeals(d)
    PROVE  PairsOk'
<1> DEFINE n == d.node
           i == d.ino
<1>1. n \in Nodes /\ i \in Inodes
  BY DEF TypeOK
<1>2. PICK o \in Found(i, Latest(d.revs)) : kv01' = [kv01 EXCEPT ![n][i] = Over(kv01[n][i], o.body)]
  BY DEF DoctorHeals
<1>3. /\ kv03' = [kv03 EXCEPT ![n][i] = 0]
      /\ inodes_to_update' = [inodes_to_update EXCEPT ![n] = @ \cup {i}]
      /\ doctors' = doctors \ {d}
      /\ waiting' = [waiting EXCEPT ![n] = @ \ {i}]
      /\ UNCHANGED <<gets, used>>
  BY DEF DoctorHeals
<1>4. Elsewhere(n, i, gets, gets') /\ Elsewhere(n, i, doctors, doctors')
  BY <1>3 DEF Elsewhere
<1>5. ASSUME i # Root PROVE PairOk(n, i) /\ d \in DoctorsOf(n, i)
  BY <1>1, <1>5 DEF PairsOk, DoctorsOf
<1> HIDE DEF n, i
<1>6. ASSUME NEW m \in Nodes, NEW j \in Inodes \ {Root}, ~(m = n /\ j = i) PROVE PairKept(m, j)
  <2>1. /\ m # n \/ j # i
        /\ j \in Inodes
    BY <1>6
  <2>2. \E c : kv01' = [kv01 EXCEPT ![n][i] = c]
    BY <1>2
  <2>3. \E r : kv03' = [kv03 EXCEPT ![n][i] = r]
    BY <1>3
  <2>4. /\ inodes_to_update' = [inodes_to_update EXCEPT ![n] = @ \cup {i}]
        /\ waiting' = [waiting EXCEPT ![n] = @ \ {i}]
    BY <1>3
  <2> QED
    BY <1>1, <1>4, <1>6, <2>1, <2>2, <2>3, <2>4, OtherPairs
<1>7. ASSUME i # Root PROVE PairOk(n, i)'
  <2>1. i \in waiting[n] /\ DoctorsOf(n, i) = {d} /\ GetsOf(n, i) = {}
    BY <1>5, <1>7 DEF PairOk, OneFetch
  <2>2. GetsOf(n, i)' = {} /\ DoctorsOf(n, i)' = {}
    BY <1>3, <2>1 DEF GetsOf, DoctorsOf
  <2>3. i \in used.created'
    BY <1>3, <1>5, <1>7, <2>1 DEF PairOk
  <2>4. kv03'[n][i] = 0 /\ i \in inodes_to_update'[n] /\ i \notin waiting'[n]
    BY <1>1, <1>3 DEF TypeOK
  <2> QED
    BY <2>2, <2>3, <2>4 DEF PairOk, OneFetch, Has, NoRev, Pending
<1> QED
  BY <1>6, <1>7, PairsTogether

\* An edit of a copy: nobody waits for it, and it is marked for upload.
LEMMA EditPair ==
    ASSUME TypeOK, PairsOk, NothingLost, MoreCreated, NEW n \in Nodes, NEW i \in Inodes,
           Local(n, i), NEW body, kv01' = [kv01 EXCEPT ![n][i] = body],
           kv03' = kv03 \/ kv03' = [kv03 EXCEPT ![n][i] = 0],
           inodes_to_update' = [inodes_to_update EXCEPT ![n] = @ \cup {i}],
           UNCHANGED <<waiting, gets, doctors>>
    PROVE  PairsOk'
<1>1. Elsewhere(n, i, gets, gets') /\ Elsewhere(n, i, doctors, doctors')
  BY DEF Elsewhere
<1>2. ASSUME NEW m \in Nodes, NEW j \in Inodes \ {Root}, ~(m = n /\ j = i) PROVE PairKept(m, j)
  BY <1>1, <1>2, OtherPairs
<1>3. ASSUME i # Root PROVE PairOk(n, i)'
  <2>1. PairOk(n, i)
    BY <1>3 DEF PairsOk
  <2>2. i \notin waiting'[n] /\ Has(n, i)
    BY <2>1 DEF PairOk
  <2>3. GetsOf(n, i)' = {} /\ DoctorsOf(n, i)' = {}
    BY <2>1, <2>2 DEF PairOk, OneFetch, GetsOf, DoctorsOf
  <2>4. Has(n, i)' /\ i \in used.created'
    BY <2>1, <2>2 DEF PairOk, Has, NoRev, TypeOK, MoreCreated
  <2>5. Pending(n, i)'
    BY DEF Pending, TypeOK
  <2> QED
    BY <2>2, <2>3, <2>4, <2>5 DEF PairOk, OneFetch
<1> QED
  BY <1>2, <1>3, PairsTogether

\* A new inode has a number nobody has heard of.
LEMMA CreatePair ==
    ASSUME TypeOK, PairsOk, NothingLost, MoreCreated, NEW n \in Nodes, NEW i \in Inodes,
           CreateInode(n, i)
    PROVE  PairsOk'
<1>1. /\ kv01' = [kv01 EXCEPT ![n][i] = {}] /\ kv03' = [kv03 EXCEPT ![n][i] = 0]
      /\ inodes_to_update' = [inodes_to_update EXCEPT ![n] = @ \cup {i}]
      /\ UNCHANGED <<waiting, gets, doctors>>
      /\ i \notin used.created /\ i # Root
  BY DEF CreateInode, wireVars
<1>2. Elsewhere(n, i, gets, gets') /\ Elsewhere(n, i, doctors, doctors')
  BY <1>1 DEF Elsewhere
<1>3. ASSUME NEW m \in Nodes, NEW j \in Inodes \ {Root}, ~(m = n /\ j = i) PROVE PairKept(m, j)
  BY <1>1, <1>2, <1>3, OtherPairs
<1>4. PairOk(n, i)'
  <2>1. PairOk(n, i)
    BY <1>1 DEF PairsOk
  <2>2. i \notin waiting'[n]
    BY <1>1, <2>1 DEF PairOk
  <2>3. GetsOf(n, i)' = {} /\ DoctorsOf(n, i)' = {}
    BY <1>1, <2>1, <2>2 DEF PairOk, OneFetch, GetsOf, DoctorsOf
  <2>4. i \in used.created'
    BY DEF CreateInode, TypeOK
  <2>5. kv03'[n][i] = 0 /\ Pending(n, i)'
    BY <1>1 DEF TypeOK, Pending
  <2> QED
    BY <2>2, <2>3, <2>4, <2>5 DEF PairOk, OneFetch, Has, NoRev
<1> QED
  BY <1>3, <1>4, PairsTogether

\* updateInodes: what is uploaded is the copy, under the revision recorded.
LEMMA UpdatePair ==
    ASSUME StoreAssumption, TypeOK, CountersNumbered, PendingIsLocal, PairsOk, NothingLost,
           MoreCreated, NEW n \in Nodes, UpdateInodes(n)
    PROVE  PairsOk'
<1>1. PICK revs : /\ \A i \in Todo(n) : Fresh(n, revs[i])
                  /\ puts' = puts \cup Sent(n, revs)
                  /\ kv03' = [kv03 EXCEPT ![n] =
                         [i \in Inodes |-> IF i \in Todo(n) THEN revs[i] ELSE @[i]]]
  BY UpdateFacts
<1>2. /\ inodes_to_update' = [inodes_to_update EXCEPT ![n] = {}]
      /\ UNCHANGED <<kv01, waiting, gets, doctors, used>>
  BY DEF UpdateInodes
<1>3. ASSUME NEW m \in Nodes, NEW j \in Inodes \ {Root} PROVE FetchKept(m, j)
  BY <1>2 DEF FetchKept, GetsOf, DoctorsOf
<1>4. ASSUME NEW m \in Nodes, NEW j \in Inodes \ {Root}, ~(m = n /\ j \in Todo(n))
      PROVE  PairKept(m, j)
  <2>1. kv03'[m][j] = kv03[m][j] /\ kv01'[m][j] = kv01[m][j]
    BY <1>1, <1>2, <1>4 DEF TypeOK
  <2>2. j \in inodes_to_update'[m] <=> j \in inodes_to_update[m]
    BY <1>2, <1>4 DEF TypeOK, Todo, PendingIsLocal
  <2> QED
    BY <1>3, <2>1, <2>2 DEF PairKept, Pending
<1>5. ASSUME NEW j \in Inodes \ {Root}, j \in Todo(n) PROVE PairOk(n, j)'
  <2> DEFINE p == [node |-> n, ino |-> j, rev |-> revs[j], body |-> kv01[n][j]]
  <2>1. PairOk(n, j) /\ Local(n, j)
    BY <1>5 DEF PairsOk, Todo
  <2>2. kv03'[n][j] = revs[j] /\ revs[j] \in Nat /\ kv01'[n][j] = kv01[n][j]
    BY <1>1, <1>2, <1>5 DEF TypeOK, Fresh
  <2>3. p \in Writes'
    BY <1>1, <1>5 DEF Sent, Writes
  <2>4. p.ino = j /\ p.body = kv01'[n][j] /\ p.rev = kv03'[n][j] /\ p.rev <= kv03'[n][j]
    BY <2>2
  <2> HIDE DEF p
  <2>5. IsARevision(n, j)'
    BY <2>3, <2>4 DEF IsARevision
  <2>6. j \notin waiting'[n] /\ GetsOf(n, j)' = {} /\ DoctorsOf(n, j)' = {}
    BY <1>3, <1>5, <2>1 DEF PairOk, OneFetch, FetchKept
  <2>7. Has(n, j)' /\ j \in used.created'
    BY <1>2, <2>1, <2>2 DEF PairOk, Has, NoRev
  <2> QED
    BY <2>5, <2>6, <2>7 DEF PairOk, OneFetch
<1> QED
  BY <1>4, <1>5, PairsTogether

-----------------------------------------------------------------------------

LEMMA StepsForgetNoNumber ==
    ASSUME TypeOK, [Next]_vars
    PROVE  MoreCreated
<1>1. ASSUME UNCHANGED used PROVE MoreCreated
  BY <1>1 DEF MoreCreated
<1>2. ASSUME NEW n \in Nodes,
             Tick(n) \/ ListAnswer(n) \/ ListReceive(n) \/ StoreReady(n) \/ UpdateInodes(n)
      PROVE  MoreCreated
  BY <1>1, <1>2 DEF Tick, ListAnswer, ListReceive, StoreReady, UpdateInodes
<1>3. ASSUME NEW n \in Nodes, NEW x \in notes[n], NEW again \in BOOLEAN, Notify(n, x, again)
      PROVE  MoreCreated
  BY <1>1, <1>3 DEF Notify
<1>4. ASSUME NEW n \in Nodes, NEW i \in Inodes, NeedInode(n, i) PROVE MoreCreated
  BY <1>1, <1>4 DEF NeedInode
<1>5. ASSUME NEW n \in Nodes, NEW i \in Inodes,
             EditInode(n, i) \/ EditMeta(n, i) \/ DestroyInode(n, i)
      PROVE  MoreCreated
  BY <1>5 DEF EditInode, EditMeta, Change, DestroyInode, MoreCreated, TypeOK
<1>6. ASSUME NEW n \in Nodes, NEW i \in Inodes, CreateInode(n, i) PROVE MoreCreated
  BY <1>6 DEF CreateInode, MoreCreated, TypeOK
<1>7. ASSUME NEW n \in Nodes, Crash(n) PROVE MoreCreated
  BY <1>7 DEF Crash, MoreCreated, TypeOK
<1>8. ASSUME S3Answers PROVE MoreCreated
  BY <1>1, <1>8 DEF S3Answers, ReceiveInode, ReceiveNothing, DoctorList, DoctorHeals,
                    DoctorRetries, PutDone, DeleteDone
<1>9. CASE UNCHANGED vars
  BY <1>1, <1>9 DEF vars
<1> QED
  BY <1>2, <1>3, <1>4, <1>5, <1>6, <1>7, <1>8, <1>9 DEF Next

LEMMA NextInos ==
    ASSUME StoreAssumption, NoFaults, TypeOK, CountersNumbered, CopyInv, [Next]_vars
    PROVE  InosCreated'
<1>1. MoreCreated
  BY StepsForgetNoNumber
<1>2. CASE NothingNew
  BY <1>1, <1>2 DEF NothingNew, SameWrite, CopyInv, InosCreated, MoreCreated
<1>3. ASSUME NEW n \in Nodes, UpdateInodes(n) PROVE InosCreated'
  <2>1. PICK revs : puts' = puts \cup Sent(n, revs)
    BY <1>3, UpdateFacts
  <2>2. Writes' = Writes \cup Sent(n, revs)
    BY <1>3, <2>1 DEF UpdateInodes, Writes
  <2>3. ASSUME NEW p \in Sent(n, revs) PROVE p.ino \in used.created \cup {Root}
    <3>1. p.ino \in Todo(n) /\ p.ino \in Inodes /\ Local(n, p.ino)
      BY DEF Sent, Todo, TypeOK
    <3> QED
      BY <3>1 DEF CopyInv, PairsOk, PairOk
  <2> QED
    BY <1>1, <2>2, <2>3 DEF CopyInv, InosCreated, MoreCreated
<1> QED
  BY <1>2, <1>3, OthersNothingNew, NoFaultSteps

\* Steps that concern no pair but that of a node and the root.
LEMMA PairsLeftAlone ==
    ASSUME PairsOk, NothingLost, MoreCreated,
           \A n \in Nodes : \A i \in Inodes \ {Root} : PairKept(n, i)
    PROVE  PairsOk'
  BY PairsTogether

LEMMA PairsUnchanged ==
    ASSUME PairsOk, NothingLost, MoreCreated,
           UNCHANGED <<kv01, kv03, inodes_to_update, waiting, gets, doctors>>
    PROVE  PairsOk'
<1>1. \A n \in Nodes : \A i \in Inodes \ {Root} : PairKept(n, i)
  BY DEF PairKept, FetchKept, Pending, GetsOf, DoctorsOf
<1> QED
  BY <1>1, PairsLeftAlone

LEMMA StoreReadyPairs ==
    ASSUME TypeOK, PairsOk, NothingLost, MoreCreated, NEW n \in Nodes, StoreReady(n)
    PROVE  PairsOk'
<1>1. CASE Root \notin Inodes
  <2>1. UNCHANGED <<kv01, kv03, inodes_to_update, waiting, gets, doctors>>
    BY <1>1 DEF StoreReady
  <2> QED
    BY <2>1, PairsUnchanged
<1>2. CASE Root \in Inodes
  <2>1. /\ kv01' = kv01 \/ \E c : kv01' = [kv01 EXCEPT ![n][Root] = c]
        /\ kv03' = kv03 \/ \E r : kv03' = [kv03 EXCEPT ![n][Root] = r]
        /\ \/ inodes_to_update' = inodes_to_update
           \/ inodes_to_update' = [inodes_to_update EXCEPT ![n] = @ \cup {Root}]
    <3>1. CASE Has(n, Root)
      BY <1>2, <3>1 DEF StoreReady
    <3>2. CASE ~Has(n, Root)
      <4>1. /\ kv01' = [kv01 EXCEPT ![n][Root] = Over(kv01[n][Root], {})]
            /\ kv03' = [kv03 EXCEPT ![n][Root] = 0]
            /\ inodes_to_update' = [inodes_to_update EXCEPT ![n] = @ \cup {Root}]
        BY <1>2, <3>2 DEF StoreReady
      <4> QED
        BY <4>1
    <3> QED
      BY <3>1, <3>2
  <2>2. Elsewhere(n, Root, gets, gets') /\ Elsewhere(n, Root, doctors, doctors')
    <3> DEFINE g == [node |-> n, ino |-> Root, rev |-> kv03'[n][Root]]
    <3>1. gets' = gets \/ gets' = gets \cup {g}
      BY <1>2 DEF StoreReady
    <3>2. g.node = n /\ g.ino = Root
      OBVIOUS
    <3>3. doctors' = doctors
      BY DEF StoreReady
    <3> HIDE DEF g
    <3> QED
      BY <3>1, <3>2, <3>3 DEF Elsewhere
  <2>3. waiting' = waiting
    BY DEF StoreReady
  <2>4. ASSUME NEW m \in Nodes, NEW j \in Inodes \ {Root} PROVE PairKept(m, j)
    BY <1>2, <2>1, <2>2, <2>3, OtherPairs
  <2> QED
    BY <2>4, PairsLeftAlone
<1> QED
  BY <1>1, <1>2

\* A node hears of names, in a listing or from a message.
LEMMA LearnPairs ==
    ASSUME StoreAssumption, TypeOK, RevsBounded, CopyInv, PendingIsLocal, NothingLost, MoreCreated,
           NEW n \in Nodes, NEW names, Heard(names), NEW in_list \in BOOLEAN,
           Learn(n, names, in_list), UNCHANGED <<inodes_to_update, waiting, gets, doctors>>
    PROVE  PairsOk'
<1>1. kv03' \in [Nodes -> [Inodes -> Known]]
  BY LearnType DEF Heard
<1>2. ASSUME NEW m \in Nodes, NEW i \in Inodes \ {Root} PROVE PairOk(m, i)'
  <2>1. PairOk(m, i) /\ InosCreated
    BY DEF CopyInv, PairsOk
  <2>2. FetchKept(m, i)
    BY DEF FetchKept, GetsOf, DoctorsOf
  <2>3. kv03'[m][i] \in Known
    BY <1>1
  <2> QED
    BY <2>1, <2>2, <2>3, LearntOk
<1> QED
  BY <1>2 DEF PairsOk

LEMMA NextCopies ==
    ASSUME StoreAssumption, NoFaults
    PROVE  /\ TypeOK /\ IssuedInv /\ NamesInv /\ PendingIsLocal /\ CopyInv /\ [Next]_vars
           => CopyInv'
<1> SUFFICES ASSUME TypeOK, IssuedInv, NamesInv, PendingIsLocal, CopyInv, [Next]_vars
             PROVE  CopyInv'
  OBVIOUS
<1>1. /\ NothingLost /\ MoreCreated /\ PairsOk
      /\ RevsBounded /\ CountersNumbered /\ InosCreated'
  BY StepsLoseNothing, StepsForgetNoNumber, NextInos DEF IssuedInv, NamesInv, CopyInv
<1> SUFFICES PairsOk'
  BY <1>1 DEF CopyInv
<1>2. ASSUME NEW n \in Nodes, Tick(n) \/ ListAnswer(n) PROVE PairsOk'
  BY <1>1, <1>2, PairsUnchanged DEF Tick, ListAnswer, nodeVars, wireVars
<1>3. ASSUME NEW n \in Nodes, ListReceive(n) PROVE PairsOk'
  <2>1. Heard(listing[n].page)
    BY DEF Heard, NamesInv, TypeOK, Listings
  <2>2. /\ Learn(n, listing[n].page, TRUE)
        /\ UNCHANGED <<inodes_to_update, waiting, gets, doctors>>
    BY <1>3 DEF ListReceive
  <2> QED
    BY <1>1, <2>1, <2>2, LearnPairs
<1>4. ASSUME NEW n \in Nodes, NEW x \in notes[n], NEW again \in BOOLEAN, Notify(n, x, again)
      PROVE  PairsOk'
  <2>1. Heard({x})
    BY DEF Heard, NamesInv, TypeOK
  <2>2. /\ Learn(n, {x}, FALSE)
        /\ UNCHANGED <<inodes_to_update, waiting, gets, doctors>>
    BY <1>4 DEF Notify
  <2> QED
    BY <1>1, <2>1, <2>2, LearnPairs
<1>5. ASSUME NEW n \in Nodes, StoreReady(n) PROVE PairsOk'
  BY <1>1, <1>5, StoreReadyPairs
<1>6. ASSUME NEW n \in Nodes, UpdateInodes(n) PROVE PairsOk'
  BY <1>1, <1>6, UpdatePair
<1>7. ASSUME NEW n \in Nodes, NEW i \in Inodes, NeedInode(n, i) PROVE PairsOk'
  BY <1>1, <1>7, NeedInodePair
<1>8. ASSUME NEW n \in Nodes, NEW i \in Inodes, EditInode(n, i) \/ EditMeta(n, i) PROVE PairsOk'
  <2>1. PICK body \in Edited(n, i) : Change(n, i, body)
    BY <1>8 DEF EditInode, EditMeta
  <2>2. /\ Local(n, i)
        /\ kv03' = kv03 \/ kv03' = [kv03 EXCEPT ![n][i] = 0]
        /\ UNCHANGED <<waiting, gets, doctors>>
    BY <1>8 DEF EditInode, EditMeta, CanEdit, wireVars
  <2> QED
    BY <1>1, <2>1, <2>2, EditPair DEF Change
<1>9. ASSUME NEW n \in Nodes, NEW i \in Inodes, CreateInode(n, i) PROVE PairsOk'
  BY <1>1, <1>9, CreatePair
<1>10. ASSUME NEW g \in gets, ReceiveInode(g) \/ ReceiveNothing(g) PROVE PairsOk'
  BY <1>1, <1>10, ReceiveInodePair, ReceiveNothingPair
<1>11. ASSUME NEW d \in doctors, DoctorList(d) \/ DoctorHeals(d) \/ DoctorRetries(d)
       PROVE  PairsOk'
  BY <1>1, <1>11, DoctorListPair, DoctorHealsPair, DoctorRetriesPair
<1>12. ASSUME NEW p \in puts, PutDone(p) PROVE PairsOk'
  BY <1>1, <1>12, PairsUnchanged DEF PutDone, nodeVars
<1>13. ASSUME NEW d \in deletes, DeleteDone(d) PROVE PairsOk'
  BY <1>1, <1>13, PairsUnchanged DEF DeleteDone, nodeVars
<1>14. CASE UNCHANGED vars
  BY <1>1, <1>14, PairsUnchanged DEF vars, nodeVars, wireVars
<1> QED
  BY <1>2, <1>3, <1>4, <1>5, <1>6, <1>7, <1>8, <1>9, <1>10, <1>11, <1>12, <1>13, <1>14,
     NoFaultSteps DEF Next, S3Answers

(***************************************************************************)
(* What a node holds of an inode, and is not about to upload, is one whole *)
(* revision and no newer than the one it knows (CopyIsARevision), for any  *)
(* number of nodes, edits, downloads and messages: a download is asked for *)
(* once at a time, only while there is no copy, and its answer finds none  *)
(* there.  It is the root's download at start-up, which nothing registers, *)
(* that the argument does not reach.                                       *)
(***************************************************************************)
THEOREM CopiesAreRevisions ==
    ASSUME DistinctIds, NoFaults, NothingIsOld
    PROVE  Safety => []CopyIsARevision
<1>1. StoreAssumption
  BY StoreAssumption
<1>2. Init => CopyInv
  <2> SUFFICES ASSUME Init
               PROVE  CopyInv
    OBVIOUS
  <2>1. InosCreated
    BY DEF Init, InosCreated, Writes
  <2>2. PairsOk
    BY DEF Init, PairsOk, PairOk, OneFetch, GetsOf, DoctorsOf, Local, Has
  <2> QED
    BY <2>1, <2>2 DEF CopyInv
<1>3. CopyInv => CopyIsARevision
  <2> SUFFICES ASSUME CopyInv, NEW n \in Nodes,
                      NEW i \in Inodes \ (inodes_to_update[n] \cup {Root}), Local(n, i)
               PROVE  \E w \in Written(i) : w.body = kv01[n][i] /\ w.rev <= kv03[n][i]
    BY DEF CopyIsARevision
  <2>1. IsARevision(n, i)
    BY DEF CopyInv, PairsOk, PairOk, Pending
  <2>2. PICK o \in Writes : o.ino = i /\ o.body = kv01[n][i] /\ o.rev <= kv03[n][i]
    BY <2>1 DEF IsARevision
  <2> QED
    BY <2>2, WrittenFacts
<1> QED
  BY <1>1, <1>2, <1>3, NextCopies, StoreTypeCorrect, IssuedInvariant, NamesInvariant,
     EditsStayUploadable, PTL DEF Safety
=============================================================================
