-------------------------- MODULE ICGarbage_proofs --------------------------
(***************************************************************************)
(* Proofs about ICGarbage for any number of clients, windows and ids and   *)
(* any limits.                                                             *)
(***************************************************************************)
EXTENDS ICGarbage, TLAPS

Inv == TypeOK /\ ListsPartition /\ HeldIdsExact

\* What the request handlers pass to the end of im_protocol_handler(): the ICs
\* and the ids held are well typed, and every id held is exact if it was.
Handed(L, F, ics, r, hld) ==
    /\ L \subseteq Id /\ F \subseteq Id
    /\ r \in Id
    /\ ics \in [Id -> IC]
    /\ hld \in [Client -> SUBSET Id]
    /\ ~swept => \A c \in Client : \A i \in hld[c] :
                     i \in L /\ ics[i].connect_id = c

\* The freed IC is an IC.
LEMMA FreedICType == FreedIC \in IC
  BY ConstantsOK DEF FreedIC, IC

\* What is deleted is part of the list, and never the requesting IC.
LEMMA TakenProperties ==
  ASSUME NEW L, NEW ics, NEW r, NEW B \in Blamed(Checked(L, ics, r))
  PROVE  LET C == Checked(L, ics, r)
             D == Duplicates(L, ics, r) \cup Vanished(ics, C) \cup B
         IN  /\ C \subseteq L
             /\ D \subseteq L \ {r}
             /\ \A i, j \in B : i = j /\ errstatus
  BY DEF Blamed, Checked, Duplicates, Vanished

\* A client step types what it changes.
LEMMA CheckIcExistType ==
  ASSUME TypeOK, NEW L, NEW F, NEW ics, NEW r, NEW hld,
         Handed(L, F, ics, r, hld), CheckIcExist(L, F, ics, r, hld)
  PROVE  /\ ic_list' \subseteq Id
         /\ ic_free' \subseteq Id
         /\ ic' \in [Id -> IC]
         /\ since_check' \in 0 .. TIMECHECK_STEP + 1
         /\ errstatus' \in BOOLEAN
         /\ held' \in [Client -> SUBSET Id]
         /\ swept' \in BOOLEAN
<1>1. CASE SweepDue(L, r)
  <2> DEFINE C == Checked(L, ics, r)
  <2>1. PICK B \in Blamed(C) :
          LET D == Duplicates(L, ics, r) \cup Vanished(ics, C) \cup B
          IN  /\ Sweep(L, F, ics, r, C, D)
              /\ errstatus' \in {errstatus /\ C = {}, FALSE}
              /\ swept' = (swept \/ \E i \in D : i \in hld[ics[i].connect_id])
    BY <1>1 DEF CheckIcExist
  <2> DEFINE D == Duplicates(L, ics, r) \cup Vanished(ics, C) \cup B
  <2>2. D \subseteq Id
    BY TakenProperties DEF Handed
  <2>3. \A i \in Id : [ics[i] EXCEPT !.idle = 0] \in IC
    BY ConstantsOK DEF Handed, IC
  <2>4. ic' \in [Id -> IC]
    BY <2>1, <2>3, FreedICType DEF Sweep, Handed
  <2>5. since_check' \in 0 .. TIMECHECK_STEP + 1
    BY <2>1, ConstantsOK DEF Sweep
  <2>6. errstatus' \in BOOLEAN /\ swept' \in BOOLEAN
    BY <2>1 DEF TypeOK
  <2>7. ic_list' \subseteq Id /\ ic_free' \subseteq Id
    BY <2>1, <2>2 DEF Sweep, Handed
  <2> QED BY <2>4, <2>5, <2>6, <2>7 DEF CheckIcExist, Handed
<1>2. CASE ~SweepDue(L, r)
  BY <1>2 DEF CheckIcExist, NoSweep, Handed, TypeOK
<1> QED BY <1>1, <1>2

\* A sweep moves ids from one list to the other.
LEMMA CheckIcExistLists ==
  ASSUME NEW L, NEW F, NEW ics, NEW r, NEW hld,
         L \cap F = {}, CheckIcExist(L, F, ics, r, hld)
  PROVE  /\ ic_list' \cap ic_free' = {}
         /\ ic_list' \cup ic_free' = L \cup F
<1>1. CASE SweepDue(L, r)
  <2> DEFINE C == Checked(L, ics, r)
  <2>1. PICK B \in Blamed(C) :
          LET D == Duplicates(L, ics, r) \cup Vanished(ics, C) \cup B
          IN  Sweep(L, F, ics, r, C, D)
    BY <1>1 DEF CheckIcExist
  <2> DEFINE D == Duplicates(L, ics, r) \cup Vanished(ics, C) \cup B
  <2>2. D \subseteq L
    BY TakenProperties
  <2> HIDE DEF C, D
  <2>3. ic_list' = L \ D /\ ic_free' = F \cup D
    BY <2>1 DEF Sweep, C, D
  <2> QED BY <2>2, <2>3
<1>2. CASE ~SweepDue(L, r)
  BY <1>2 DEF CheckIcExist, NoSweep
<1> QED BY <1>1, <1>2

\* A sweep that leaves swept FALSE took no id that is held.
LEMMA CheckIcExistExact ==
  ASSUME NEW L, NEW F, NEW ics, NEW r, NEW hld,
         Handed(L, F, ics, r, hld), CheckIcExist(L, F, ics, r, hld)
  PROVE  HeldIdsExact'
<1>1. CASE SweepDue(L, r)
  <2> DEFINE C == Checked(L, ics, r)
  <2>1. PICK B \in Blamed(C) :
          LET D == Duplicates(L, ics, r) \cup Vanished(ics, C) \cup B
          IN  /\ Sweep(L, F, ics, r, C, D)
              /\ swept' = (swept \/ \E i \in D : i \in hld[ics[i].connect_id])
    BY <1>1 DEF CheckIcExist
  <2> DEFINE D == Duplicates(L, ics, r) \cup Vanished(ics, C) \cup B
  <2> HIDE DEF C, D
  <2>2. SUFFICES ASSUME ~swept', NEW c \in Client, NEW i \in held'[c]
                 PROVE  i \in ic_list' /\ ic'[i].connect_id = c
    BY DEF HeldIdsExact
  <2>3. ~swept /\ i \in hld[c] /\ i \in L /\ ics[i].connect_id = c /\ i \in Id
    BY <2>1, <2>2 DEF CheckIcExist, Handed, D
  <2>4. i \notin D
    BY <2>1, <2>2, <2>3 DEF D
  <2>5. [ics[i] EXCEPT !.idle = 0].connect_id = c
    BY <2>3 DEF Handed, IC
  <2>6. ic_list' = L \ D /\ ic'[i] \in {ics[i], [ics[i] EXCEPT !.idle = 0]}
    BY <2>1, <2>3, <2>4 DEF Sweep, D
  <2> QED BY <2>3, <2>4, <2>5, <2>6
<1>2. CASE ~SweepDue(L, r)
  BY <1>2 DEF CheckIcExist, NoSweep, Handed, HeldIdsExact
<1> QED BY <1>1, <1>2

\* Deleting by name or by connection moves ids from one list to the other.
LEMMA DeletedType ==
  ASSUME TypeOK, ListsPartition, NEW D, D \subseteq ic_list,
         NEW hld \in [Client -> SUBSET Id], Deleted(D, hld)
  PROVE  TypeOK' /\ ListsPartition'
<1>1. ic' \in [Id -> IC]
  BY FreedICType DEF Deleted, TypeOK
<1>2. errstatus' \in BOOLEAN
  BY DEF Deleted, TypeOK
<1> QED BY <1>1, <1>2 DEF Deleted, TypeOK, ListsPartition

\* The id of a new IC is on neither list of the ICs in use, and keeps the
\* counter where the lists end.
LEMMA NewIdsProperties ==
  ASSUME TypeOK, ListsPartition, NEW i \in NewIds
  PROVE  LET n == IF i > icid THEN i ELSE icid
         IN  /\ i \in Id /\ i \notin ic_list /\ n \in 0 .. MaxIC
             /\ (ic_list \cup {i}) \cap (ic_free \ {i}) = {}
             /\ (ic_list \cup {i}) \cup (ic_free \ {i}) = 1 .. n
<1>0. MaxIC \in Nat /\ icid \in Nat
  BY ConstantsOK DEF TypeOK
<1>1. CASE ic_free # {}
  <2>1. i \in ic_free /\ i \in 1 .. icid /\ ~(i > icid)
    BY <1>0, <1>1 DEF NewIds, ListsPartition
  <2> QED BY <1>0, <2>1 DEF ListsPartition, TypeOK, Id
<1>2. CASE ic_free = {}
  <2>1. i = icid + 1 /\ i \in Id /\ i > icid
    BY <1>0, <1>2 DEF NewIds
  <2>2. ic_list = 1 .. icid
    BY <1>2 DEF ListsPartition
  <2>3. 1 .. icid + 1 = (1 .. icid) \cup {icid + 1}
    BY <1>0
  <2> QED BY <1>0, <1>2, <2>1, <2>2, <2>3 DEF Id
<1> QED BY <1>1, <1>2

\* What CreateIC hands to the sweep.
CreatedIC(c, fw, cw) == [FreedIC EXCEPT !.connect_id = c, !.focus_win = fw,
                                        !.client_win = cw]

\* ic_create() hands the sweep lists that fit together,
LEMMA CreateHands ==
  ASSUME Inv, NEW c \in Client, NEW fw \in Windows(c), NEW cw \in Windows(c),
         NEW i \in NewIds
  PROVE  Handed(ic_list \cup {i}, ic_free \ {i},
                [ic EXCEPT ![i] = CreatedIC(c, fw, cw)], i,
                [held EXCEPT ![c] = @ \cup {i}])
<1> DEFINE new == CreatedIC(c, fw, cw)
<1>1. i \in Id /\ i \notin ic_list
  BY NewIdsProperties DEF Inv
<1>2. new \in IC /\ new.connect_id = c
  BY FreedICType DEF Windows, Mine, IC, CreatedIC
<1> HIDE DEF new
<1>3. [ic EXCEPT ![i] = new] \in [Id -> IC]
  BY <1>1, <1>2 DEF Inv, TypeOK
<1>4. [held EXCEPT ![c] = @ \cup {i}] \in [Client -> SUBSET Id]
  BY <1>1 DEF Inv, TypeOK
<1>5. ASSUME ~swept, NEW d \in Client, NEW j \in [held EXCEPT ![c] = @ \cup {i}][d]
      PROVE  j \in ic_list \cup {i} /\ [ic EXCEPT ![i] = new][j].connect_id = d
  <2>1. CASE j = i /\ d = c
    BY <1>1, <1>2, <2>1 DEF Inv, TypeOK
  <2>2. CASE ~(j = i /\ d = c)
    <3>1. j \in held[d]
      BY <1>5, <2>2 DEF Inv, TypeOK
    <3>2. j \in ic_list /\ ic[j].connect_id = d /\ j \in Id
      BY <1>5, <3>1 DEF Inv, HeldIdsExact, TypeOK
    <3> QED BY <1>1, <3>2 DEF Inv, TypeOK
  <2> QED BY <2>1, <2>2
<1> QED BY <1>1, <1>3, <1>4, <1>5 DEF Handed, Inv, TypeOK, new

\* At the start nothing is in use, free or held.
LEMMA InitInv == Init => Inv
<1> SUFFICES ASSUME Init PROVE Inv
  OBVIOUS
<1>1. ic \in [Id -> IC]
  BY FreedICType DEF Init
<1>2. since_check \in 0 .. TIMECHECK_STEP + 1 /\ icid \in 0 .. MaxIC
  BY ConstantsOK DEF Init
<1>3. TypeOK
  BY <1>1, <1>2 DEF Init, TypeOK
<1>4. ListsPartition /\ HeldIdsExact
  BY DEF Init, ListsPartition, HeldIdsExact
<1> QED BY <1>3, <1>4 DEF Inv

\* so a request that creates an IC keeps the invariant.
LEMMA CreateInv ==
  ASSUME Inv, NEW c \in Client, NEW fw \in Windows(c), NEW cw \in Windows(c),
         CreateIC(c, fw, cw)
  PROVE  Inv'
<1>1. PICK i \in NewIds :
        /\ CheckIcExist(ic_list \cup {i}, ic_free \ {i},
                        [ic EXCEPT ![i] = CreatedIC(c, fw, cw)], i,
                        [held EXCEPT ![c] = @ \cup {i}])
        /\ icid' = IF i > icid THEN i ELSE icid
        /\ UNCHANGED <<owner, dead>>
  BY DEF CreateIC, CreatedIC
<1> DEFINE L == ic_list \cup {i}
           F == ic_free \ {i}
           ics == [ic EXCEPT ![i] = CreatedIC(c, fw, cw)]
           hld == [held EXCEPT ![c] = @ \cup {i}]
<1>2. Handed(L, F, ics, i, hld)
  BY CreateHands
<1>3. L \cap F = {} /\ L \cup F = 1 .. icid' /\ icid' \in 0 .. MaxIC
  BY <1>1, NewIdsProperties DEF Inv
<1>4. CheckIcExist(L, F, ics, i, hld)
  BY <1>1
<1> HIDE DEF L, F, ics, hld
<1>5. TypeOK'
  BY <1>1, <1>2, <1>3, <1>4, CheckIcExistType DEF Inv, TypeOK
<1>6. ListsPartition'
  BY <1>3, <1>4, CheckIcExistLists DEF ListsPartition
<1>7. HeldIdsExact'
  BY <1>2, <1>4, CheckIcExistExact
<1> QED BY <1>5, <1>6, <1>7 DEF Inv

\* The requests that name an IC and go on to the sweep.
LEMMA NamedInv ==
  ASSUME Inv, NEW i \in Id, NEW ics, Handed(ic_list, ic_free, ics, i, held),
         CheckIcExist(ic_list, ic_free, ics, i, held),
         UNCHANGED <<icid, owner, dead>>
  PROVE  Inv'
<1>1. TypeOK'
  BY CheckIcExistType DEF Inv, TypeOK
<1>2. ListsPartition'
  BY CheckIcExistLists DEF Inv, ListsPartition
<1>3. HeldIdsExact'
  BY CheckIcExistExact
<1> QED BY <1>1, <1>2, <1>3 DEF Inv

\* ic_set_values() hands the sweep what it found, with another focus window.
LEMMA SetICValuesHands ==
  ASSUME Inv, NEW c \in Client, NEW i \in Id, NEW fw \in Windows(c),
         NEW ics, ics = IF i \in ic_list THEN [ic EXCEPT ![i].focus_win = fw] ELSE ic
  PROVE  Handed(ic_list, ic_free, ics, i, held)
<1>1. [ic[i] EXCEPT !.focus_win = fw] \in IC
  BY DEF Inv, TypeOK, Windows, Mine, IC
<1>2. ics \in [Id -> IC]
  BY <1>1 DEF Inv, TypeOK
<1>3. \A j \in Id : ics[j].connect_id = ic[j].connect_id
  BY DEF Inv, TypeOK, IC
<1> QED BY <1>2, <1>3 DEF Handed, Inv, TypeOK, HeldIdsExact

\* ICs that are deleted and no longer held by anybody leave the ids exact,
LEMMA DeletedExact ==
  ASSUME Inv, NEW D, D \subseteq ic_list, NEW hld \in [Client -> SUBSET Id],
         \A d \in Client : hld[d] \subseteq held[d],
         ~swept => \A d \in Client : hld[d] \cap D = {},
         Deleted(D, hld)
  PROVE  HeldIdsExact'
  BY DEF Deleted, HeldIdsExact, Inv, TypeOK

\* as ic_destroy() deletes them
LEMMA DestroyInv ==
  ASSUME Inv, NEW c \in Client, NEW i \in Id, DestroyIC(c, i)
  PROVE  Inv'
<1> DEFINE D == {i} \cap ic_list
           hld == [held EXCEPT ![c] = @ \ {i}]
<1>1. hld \in [Client -> SUBSET Id] /\ Deleted(D, hld)
  BY DEF DestroyIC, Inv, TypeOK
<1>2. \A d \in Client : hld[d] \subseteq held[d]
  BY DEF Inv, TypeOK
<1>3. ASSUME ~swept, NEW d \in Client PROVE hld[d] \cap D = {}
  BY <1>3 DEF Inv, TypeOK, HeldIdsExact, DestroyIC
<1> QED BY <1>1, <1>2, <1>3, DeletedType, DeletedExact DEF Inv

\* and ic_clean_all().
LEMMA CleanAllInv ==
  ASSUME Inv, NEW c \in Client, CleanAll(c)
  PROVE  Inv'
<1> DEFINE D == {i \in ic_list : ic[i].connect_id = c}
           hld == [held EXCEPT ![c] = {}]
<1>1. hld \in [Client -> SUBSET Id] /\ Deleted(D, hld)
  BY DEF CleanAll, Inv, TypeOK
<1>2. \A d \in Client : hld[d] \subseteq held[d]
  BY DEF Inv, TypeOK
<1>3. ASSUME ~swept, NEW d \in Client PROVE hld[d] \cap D = {}
  BY <1>3 DEF Inv, TypeOK, HeldIdsExact
<1> QED BY <1>1, <1>2, <1>3, DeletedType, DeletedExact DEF Inv

\* What neither a request nor the clock does to the IC list.
LEMMA OutsideInv ==
  ASSUME Inv,
         \/ \E c \in Client : (\E w \in Window : OpenWindow(c, w)) \/ Die(c)
         \/ \E w \in Window : CloseWindow(w)
         \/ XError
  PROVE  Inv'
<1>1. ASSUME NEW c \in Client, NEW w \in Window, OpenWindow(c, w) PROVE Inv'
  BY <1>1 DEF OpenWindow, Inv, TypeOK, ListsPartition, HeldIdsExact
<1>2. ASSUME NEW c \in Client, Die(c) PROVE Inv'
  BY <1>2 DEF Die, Inv, TypeOK, ListsPartition, HeldIdsExact
<1>3. ASSUME NEW w \in Window, CloseWindow(w) PROVE Inv'
  BY <1>3 DEF CloseWindow, Inv, TypeOK, ListsPartition, HeldIdsExact
<1>4. CASE XError
  BY <1>4 DEF XError, Inv, TypeOK, ListsPartition, HeldIdsExact
<1> QED BY <1>1, <1>2, <1>3, <1>4

\* Time only adds to the ages, which are capped.
LEMMA TickInv == Inv /\ Tick => Inv'
<1> SUFFICES ASSUME Inv, Tick PROVE Inv'
  OBVIOUS
<1>1. \A a \in 0 .. IC_IDLE_TIME + 1 : Capped(a, IC_IDLE_TIME) \in 0 .. IC_IDLE_TIME + 1
  BY ConstantsOK DEF Capped
<1>2. since_check' \in 0 .. TIMECHECK_STEP + 1
  BY ConstantsOK DEF Capped, Tick, Inv, TypeOK
<1>3. \A i \in Id : [ic[i] EXCEPT !.idle = Capped(@, IC_IDLE_TIME)] \in IC
  BY <1>1 DEF Inv, TypeOK, IC
<1>4. ic' \in [Id -> IC]
  BY <1>3 DEF Tick
<1>5. \A i \in Id : ic'[i].connect_id = ic[i].connect_id
  BY DEF Tick, Inv, TypeOK, IC
<1>6. TypeOK' /\ ListsPartition'
  BY <1>2, <1>4 DEF Tick, Inv, TypeOK, ListsPartition
<1>7. HeldIdsExact'
  BY <1>5 DEF Tick, Inv, TypeOK, HeldIdsExact
<1> QED BY <1>6, <1>7 DEF Inv

\* Every step keeps the invariant.
LEMMA NextInv == Inv /\ [Next]_vars => Inv'
<1> SUFFICES ASSUME Inv, [Next]_vars PROVE Inv'
  OBVIOUS
<1>1. ASSUME NEW c \in Client, Request(c) PROVE Inv'
  <2>1. ASSUME NEW fw \in Windows(c), NEW cw \in Windows(c), CreateIC(c, fw, cw)
        PROVE  Inv'
    BY <2>1, CreateInv
  <2>2. ASSUME NEW i \in Id, NEW fw \in Windows(c), SetICValues(c, i, fw)
        PROVE  Inv'
    <3> DEFINE ics == IF i \in ic_list THEN [ic EXCEPT ![i].focus_win = fw] ELSE ic
    <3>1. Handed(ic_list, ic_free, ics, i, held)
      BY SetICValuesHands
    <3>2. CheckIcExist(ic_list, ic_free, ics, i, held) /\ UNCHANGED <<icid, owner, dead>>
      BY <2>2 DEF SetICValues
    <3> HIDE DEF ics
    <3> QED BY <3>1, <3>2, NamedInv
  <2>3. ASSUME NEW i \in Id, OtherRequest(c, i) PROVE Inv'
    <3>1. Handed(ic_list, ic_free, ic, i, held)
      BY DEF Handed, Inv, TypeOK, HeldIdsExact
    <3> QED BY <2>3, <3>1, NamedInv DEF OtherRequest
  <2> QED BY <1>1, <2>1, <2>2, <2>3, DestroyInv, CleanAllInv, OutsideInv DEF Request
<1>2. CASE UNCHANGED vars
  BY <1>2 DEF vars, Inv, TypeOK, ListsPartition, HeldIdsExact
<1> QED BY <1>1, <1>2, OutsideInv, TickInv DEF Next

\* The invariants of the IC list hold in every state.
THEOREM Invariance == Spec => []Inv
  BY InitInv, NextInv, PTL DEF Spec

\* The lists, the ids, the windows and the ages of ICGarbage stay in their types.
THEOREM TypeCorrect == Spec => []TypeOK
  BY Invariance, PTL DEF Inv

\* No id is ever both in use and on the free list, and none is lost.
THEOREM ListsAlwaysPartition == Spec => []ListsPartition
  BY Invariance, PTL DEF Inv

\* Until a sweep takes an IC from under its client, every id names the right IC.
THEOREM HeldIdsAlwaysExact == Spec => []HeldIdsExact
  BY Invariance, PTL DEF Inv

----------------------------------------------------------------------------
(* What a sweep takes.                                                     *)

SparedStep ==
    since_check' < since_check =>
        \A i, j \in ic_list \ ic_list' : Safe(i) /\ Safe(j) => i = j /\ errstatus

\* A sweep by a request that named r takes no safe IC but the one that pays for
\* a pending error.
LEMMA SweepSpares ==
  ASSUME NEW L, NEW F, NEW ics, NEW r, NEW hld, ic_list \subseteq L, L \subseteq Id,
         r \in Id, ics \in [Id -> IC],
         \A i \in ic_list \ {r} : ics[i] = ic[i],
         CheckIcExist(L, F, ics, r, hld)
  PROVE  SparedStep
<1>1. CASE SweepDue(L, r)
  <2> DEFINE C == Checked(L, ics, r)
  <2>1. PICK B \in Blamed(C) :
          LET D == Duplicates(L, ics, r) \cup Vanished(ics, C) \cup B
          IN  Sweep(L, F, ics, r, C, D)
    BY <1>1 DEF CheckIcExist
  <2> DEFINE D == Duplicates(L, ics, r) \cup Vanished(ics, C) \cup B
  <2>2. C \subseteq L /\ D \subseteq L \ {r} /\ \A i, j \in B : i = j /\ errstatus
    BY TakenProperties
  <2>3. ic_list' = L \ D /\ r \in ic_list'
    BY <1>1, <2>1, <2>2 DEF Sweep, SweepDue
  <2>4. ic'[r].focus_win = ics[r].focus_win
    <3>1. ic'[r] = [ics[r] EXCEPT !.idle = 0]
      BY <2>1, <2>2 DEF Sweep
    <3>2. ics[r] \in IC
      OBVIOUS
    <3> QED BY <3>1, <3>2 DEF IC
  <2>5. ASSUME NEW i \in ic_list \ ic_list', Safe(i) PROVE i \in B
    <3>1. i \in D /\ i # r /\ ics[i] = ic[i]
      BY <2>2, <2>3, <2>5
    <3>2. i \notin Duplicates(L, ics, r)
      BY <2>3, <2>4, <2>5, <3>1 DEF Duplicates, Safe
    <3>3. i \notin Vanished(ics, C)
      BY <2>5, <3>1 DEF Vanished, Checked, Safe
    <3> QED BY <3>1, <3>2, <3>3
  <2> QED BY <2>2, <2>5 DEF SparedStep
<1>2. CASE ~SweepDue(L, r)
  BY <1>2 DEF CheckIcExist, NoSweep, SparedStep
<1> QED BY <1>1, <1>2

\* Whatever ends with a sweep spares the ICs that are in use.
LEMMA NextSpares == Inv /\ [Next]_vars => SparedStep
<1> SUFFICES ASSUME Inv, [Next]_vars PROVE SparedStep
  OBVIOUS
<1>1. ASSUME NEW c \in Client, NEW fw \in Windows(c), NEW cw \in Windows(c),
             CreateIC(c, fw, cw)
      PROVE  SparedStep
  <2>1. PICK i \in NewIds :
          CheckIcExist(ic_list \cup {i}, ic_free \ {i},
                       [ic EXCEPT ![i] = CreatedIC(c, fw, cw)], i,
                       [held EXCEPT ![c] = @ \cup {i}])
    BY <1>1 DEF CreateIC, CreatedIC
  <2> DEFINE ics == [ic EXCEPT ![i] = CreatedIC(c, fw, cw)]
  <2>2. i \in Id /\ i \notin ic_list
    BY NewIdsProperties DEF Inv
  <2>3. ics \in [Id -> IC] /\ ic_list \cup {i} \subseteq Id
    BY CreateHands DEF Handed
  <2>4. \A j \in ic_list \ {i} : ics[j] = ic[j]
    BY <2>2 DEF Inv, TypeOK
  <2> HIDE DEF ics
  <2> QED BY <2>1, <2>2, <2>3, <2>4, SweepSpares DEF ics
<1>2. ASSUME NEW c \in Client, NEW i \in Id, NEW fw \in Windows(c),
             SetICValues(c, i, fw)
      PROVE  SparedStep
  <2> DEFINE ics == IF i \in ic_list THEN [ic EXCEPT ![i].focus_win = fw] ELSE ic
  <2>1. ics \in [Id -> IC]
    BY SetICValuesHands DEF Handed
  <2>2. \A j \in ic_list \ {i} : ics[j] = ic[j]
    BY DEF Inv, TypeOK
  <2>3. CheckIcExist(ic_list, ic_free, ics, i, held)
    BY <1>2 DEF SetICValues
  <2> HIDE DEF ics
  <2> QED BY <2>1, <2>2, <2>3, SweepSpares DEF Inv, TypeOK
<1>3. ASSUME NEW c \in Client, NEW i \in Id, OtherRequest(c, i) PROVE SparedStep
  BY <1>3, SweepSpares DEF OtherRequest, Inv, TypeOK
<1>4. ASSUME since_check' = since_check PROVE SparedStep
  BY <1>4 DEF SparedStep, Inv, TypeOK
<1>5. ASSUME NEW c \in Client, Request(c) PROVE SparedStep
  BY <1>1, <1>2, <1>3, <1>4, <1>5
     DEF Request, DestroyIC, CleanAll, Deleted, OpenWindow, Die
<1>6. CASE Tick
  BY <1>6, ConstantsOK DEF Tick, Capped, SparedStep, Inv, TypeOK
<1> QED BY <1>4, <1>5, <1>6 DEF Next, CloseWindow, XError, vars

\* Neither the requesting IC nor a quiet client's IC with a window of its own is
\* ever taken, but for one IC when an X error was pending.
THEOREM LiveIcAlwaysSpared == Spec => LiveIcSpared
<1>1. Inv /\ [Next]_vars => [SparedStep]_vars
  BY NextSpares
<1> QED BY <1>1, Invariance, PTL DEF Spec, LiveIcSpared, SparedStep
=============================================================================
