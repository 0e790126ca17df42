------------------------------ MODULE ICGarbage ------------------------------
(***************************************************************************)
(* The garbage collection of input contexts: check_ic_exist() of           *)
(* src/src/xim_IC.c, which im_protocol_handler() calls at the end of every *)
(* client request, over the IC list, the recycling of ids by new_IC() and  *)
(* delete_IC(), and the windows of the clients in the X server, that       *)
(* gui_check_window() of src/src/gui.c asks about.                         *)
(*                                                                         *)
(* A client may die without a word: its windows vanish and its ICs stay    *)
(* until a sweep finds them.  What a client believes it holds is kept      *)
(* apart (held), since a sweep tells no client what it deleted.            *)
(*                                                                         *)
(* Time is kept as ages, capped one past the limit they are compared with: *)
(* since_check is current_time - last_check, and idle of an IC is          *)
(* current_time - exec_time.  Both clocks start at 0, the epoch, so a new  *)
(* IC is as idle as can be and the first sweep is due at once.             *)
(*                                                                         *)
(* The two lists are kept as sets: which id comes off the free list next,  *)
(* and which of the ICs a sweep asks about is the first one, is left open. *)
(***************************************************************************)
EXTENDS Integers

CONSTANTS
    Client,           \* the XIM connections
    Window,           \* the ids of the windows the clients can create
    MaxIC,            \* bound: how far the static counter icid of new_IC goes
    TIMECHECK_STEP,   \* the seconds between two sweeps
    IC_IDLE_TIME      \* the seconds until an IC's window is looked at

NoWindow == 0
NoClient == "none"

ASSUME ConstantsOK ==
    /\ NoClient \notin Client
    /\ NoWindow \notin Window
    /\ MaxIC \in Nat \ {0}
    /\ TIMECHECK_STEP \in Nat
    /\ IC_IDLE_TIME \in Nat

Id == 1 .. MaxIC

VARIABLES
    ic_list,      \* the ids of the ICs in use
    ic_free,      \* the ids on the free list, to be handed out again
    icid,         \* the last id that was never used before
    ic,           \* the ICs, by id
    since_check,  \* the seconds since last_check, up to TIMECHECK_STEP + 1
    errstatus,    \* the last X error has not been looked at yet
    owner,        \* X server: whose each window is, NoClient if there is none
    dead,         \* clients that ended without XIM_CLOSE
    held,         \* the ids each client was given and has not destroyed
    swept         \* history: a sweep deleted an IC that its client still held

vars == <<ic_list, ic_free, icid, ic, since_check, errstatus, owner, dead,
          held, swept>>

IC == [connect_id : Client \cup {NoClient},
       focus_win  : Window \cup {NoWindow},
       client_win : Window \cup {NoWindow},
       idle       : 0 .. IC_IDLE_TIME + 1]

FreedIC == [connect_id |-> NoClient, focus_win |-> NoWindow,
            client_win |-> NoWindow, idle |-> IC_IDLE_TIME + 1]

Exists(w) == owner[w] # NoClient
Mine(c) == {w \in Window : owner[w] = c}

Init ==
    /\ ic_list = {}
    /\ ic_free = {}
    /\ icid = 0
    /\ ic = [i \in Id |-> FreedIC]
    /\ since_check = TIMECHECK_STEP + 1
    /\ errstatus = FALSE
    /\ owner = [w \in Window |-> NoClient]
    /\ dead = {}
    /\ held = [c \in Client |-> {}]
    /\ swept = FALSE

----------------------------------------------------------------------------
(* check_ic_exist().  L and ics are the IC list and the ICs as the handler *)
(* left them, r the IC the request named.                                  *)

\* Faulty: the requesting IC is not told from the others.
DuplicatesOrSelf(L, ics, r) ==
    {i \in L : ics[i].focus_win # NoWindow /\ ics[i].focus_win = ics[r].focus_win}

\* "each IC should has its distinct window"
Duplicates(L, ics, r) ==
    {i \in L \ {r} : ics[i].focus_win # NoWindow /\
                     ics[i].focus_win = ics[r].focus_win}

\* The ICs whose client window is asked for.
Checked(L, ics, r) ==
    {i \in L \ ({r} \cup Duplicates(L, ics, r)) :
        ics[i].idle > IC_IDLE_TIME /\ ics[i].client_win # NoWindow}

\* gui_check_window() takes an error that was pending before it for its own
\* answer, and clears it: the first IC it is called for pays.
Blamed(C) == IF errstatus /\ C # {} THEN {{i} : i \in C} ELSE {{}}

Vanished(ics, C) == {i \in C : ~Exists(ics[i].client_win)}

SweepDue(L, r) == r \in L /\ since_check > TIMECHECK_STEP

\* Faulty: every IC the sweep passes counts as used now.
SweepRenewsAll(L, F, ics, r, C, D) ==
    /\ ic_list' = L \ D
    /\ ic_free' = F \cup D
    /\ ic' = [i \in Id |-> IF i \in D THEN FreedIC ELSE [ics[i] EXCEPT !.idle = 0]]
    /\ since_check' = 0

\* C are the ICs it asked about, D those it deletes.
Sweep(L, F, ics, r, C, D) ==
    /\ ic_list' = L \ D
    /\ ic_free' = F \cup D
    /\ ic' = [i \in Id |->
                IF i \in D THEN FreedIC
                ELSE IF i \in C \cup {r} THEN [ics[i] EXCEPT !.idle = 0]
                ELSE ics[i]]
    /\ since_check' = 0

NoSweep(L, F, ics) ==
    /\ ic_list' = L
    /\ ic_free' = F
    /\ ic' = ics
    /\ UNCHANGED since_check

\* The end of im_protocol_handler(): the sweep, if one is due, and the drawing
\* of the windows, which clears errstatus if the over-the-spot window is moved
\* (overspot_win_adjust()).  hld is what the clients hold after the request.
CheckIcExist(L, F, ics, r, hld) ==
    /\ \/ /\ SweepDue(L, r)
          /\ \E B \in Blamed(Checked(L, ics, r)) :
               LET C == Checked(L, ics, r)
                   D == Duplicates(L, ics, r) \cup Vanished(ics, C) \cup B
               IN  /\ Sweep(L, F, ics, r, C, D)
                   /\ errstatus' \in {errstatus /\ C = {}, FALSE}
                   /\ swept' = (swept \/ \E i \in D : i \in hld[ics[i].connect_id])
       \/ /\ ~SweepDue(L, r)
          /\ NoSweep(L, F, ics)
          /\ errstatus' \in {errstatus, FALSE}
          /\ UNCHANGED swept
    /\ held' = hld

----------------------------------------------------------------------------
(* Client requests.                                                        *)

Windows(c) == Mine(c) \cup {NoWindow}

\* new_IC(): an id off the free list, else the next of the counter.
NewIds == IF ic_free # {} THEN ic_free ELSE {icid + 1} \cap Id

CreateIC(c, fw, cw) ==
    \E i \in NewIds :
        LET new == [FreedIC EXCEPT !.connect_id = c, !.focus_win = fw,
                                   !.client_win = cw]
        IN  /\ CheckIcExist(ic_list \cup {i}, ic_free \ {i},
                            [ic EXCEPT ![i] = new], i,
                            [held EXCEPT ![c] = @ \cup {i}])
            /\ icid' = IF i > icid THEN i ELSE icid
            /\ UNCHANGED <<owner, dead>>

\* XIM_SET_IC_VALUES with XNFocusWindow, looked up by the id alone.
SetICValues(c, i, fw) ==
    LET ics == IF i \in ic_list THEN [ic EXCEPT ![i].focus_win = fw] ELSE ic
    IN  /\ i \in held[c]
        /\ CheckIcExist(ic_list, ic_free, ics, i, held)
        /\ UNCHANGED <<icid, owner, dead>>

\* Focus, keys, reading of values: of the state kept here only the sweep's.
OtherRequest(c, i) ==
    /\ i \in held[c]
    /\ CheckIcExist(ic_list, ic_free, ic, i, held)
    /\ UNCHANGED <<icid, owner, dead>>

\* Requests that delete: the id they name is gone when the sweep looks for it,
\* or is none (-1), so nothing is swept.
Deleted(D, hld) ==
    /\ ic_list' = ic_list \ D
    /\ ic_free' = ic_free \cup D
    /\ ic' = [i \in Id |-> IF i \in D THEN FreedIC ELSE ic[i]]
    /\ errstatus' \in {errstatus, FALSE}
    /\ held' = hld
    /\ UNCHANGED <<icid, since_check, owner, dead, swept>>

\* Faulty: it is the connection that is compared.
DestroyAll(c, i) ==
    /\ i \in held[c]
    /\ Deleted({j \in ic_list : ic[j].connect_id = c}, [held EXCEPT ![c] = @ \ {i}])

\* ic_destroy(): the IC of that id, whoever it belongs to by now.
DestroyIC(c, i) ==
    /\ i \in held[c]
    /\ Deleted({i} \cap ic_list, [held EXCEPT ![c] = @ \ {i}])

\* XIM_CLOSE: ic_clean_all().
CleanAll(c) ==
    Deleted({i \in ic_list : ic[i].connect_id = c}, [held EXCEPT ![c] = {}])

----------------------------------------------------------------------------
(* The clients, the X server and the clock.                                *)

\* A window id that is free may be given to any client.
OpenWindow(c, w) ==
    /\ ~Exists(w)
    /\ owner' = [owner EXCEPT ![w] = c]
    /\ UNCHANGED <<ic_list, ic_free, icid, ic, since_check, errstatus, dead,
                   held, swept>>

CloseWindow(w) ==
    /\ Exists(w)
    /\ owner' = [owner EXCEPT ![w] = NoClient]
    /\ UNCHANGED <<ic_list, ic_free, icid, ic, since_check, errstatus, dead,
                   held, swept>>

\* The connection breaks without XIM_CLOSE.
Die(c) ==
    /\ dead' = dead \cup {c}
    /\ owner' = [w \in Window |-> IF owner[w] = c THEN NoClient ELSE owner[w]]
    /\ held' = [held EXCEPT ![c] = {}]
    /\ UNCHANGED <<ic_list, ic_free, icid, ic, since_check, errstatus, swept>>

\* errhandle(): an X request of xcin, such as an answer sent to a client that
\* is gone, failed.
XError ==
    /\ dead # {}
    /\ errstatus' = TRUE
    /\ UNCHANGED <<ic_list, ic_free, icid, ic, since_check, owner, dead, held,
                   swept>>

Capped(age, limit) == IF age > limit THEN age ELSE age + 1

Tick ==
    /\ since_check' = Capped(since_check, TIMECHECK_STEP)
    /\ ic' = [i \in Id |-> [ic[i] EXCEPT !.idle = Capped(@, IC_IDLE_TIME)]]
    /\ UNCHANGED <<ic_list, ic_free, icid, errstatus, owner, dead, held, swept>>

Request(c) ==
    \/ \E fw, cw \in Windows(c) : CreateIC(c, fw, cw)
    \/ \E i \in Id : \E fw \in Windows(c) : SetICValues(c, i, fw)
    \/ \E i \in Id : OtherRequest(c, i)
    \/ \E i \in Id : DestroyIC(c, i)
    \/ CleanAll(c)
    \/ \E w \in Window : OpenWindow(c, w)
    \/ Die(c)

Next ==
    \/ \E c \in Client \ dead : Request(c)
    \/ \E w \in Window : CloseWindow(w)
    \/ XError
    \/ Tick

Spec == Init /\ [][Next]_vars

\* A client that still has an IC.
Typing == \E c \in Client \ dead : \E i \in held[c] : i \in ic_list

\* Time goes on, and a user who can type goes on typing: some client that has
\* an IC sends a request after TIMECHECK_STEP is over.
TypesOn == /\ since_check > TIMECHECK_STEP
           /\ \E c \in Client \ dead : \E i \in held[c] \cap ic_list : OtherRequest(c, i)

FairSpec == Spec /\ WF_vars(Tick) /\ SF_vars(TypesOn)

----------------------------------------------------------------------------
(* Properties.                                                             *)

TypeOK ==
    /\ ic_list \subseteq Id
    /\ ic_free \subseteq Id
    /\ icid \in 0 .. MaxIC
    /\ ic \in [Id -> IC]
    /\ since_check \in 0 .. TIMECHECK_STEP + 1
    /\ errstatus \in BOOLEAN
    /\ owner \in [Window -> Client \cup {NoClient}]
    /\ dead \subseteq Client
    /\ held \in [Client -> SUBSET Id]
    /\ swept \in BOOLEAN

\* The two lists of xim_IC.c hold every id the counter has given out, and no id
\* is both in use and to be handed out, over any order of requests and sweeps.
ListsPartition ==
    /\ ic_list \cap ic_free = {}
    /\ ic_list \cup ic_free = 1 .. icid

\* Requests name ICs by id alone and ids are used again, so an id a client
\* holds must name an IC of its own.  That is so until a sweep has deleted an
\* IC under a client that still held it.
HeldIdsExact ==
    ~swept => \A c \in Client : \A i \in held[c] :
                  i \in ic_list /\ ic[i].connect_id = c

\* What a sweep may take.  An IC whose client window exists and whose focus
\* window no surviving IC has survives it, however long its client was silent --
\* but for one IC, when an unrelated X error was pending.  Neither the requesting
\* IC nor a quiet client with windows of its own is ever lost.
Safe(i) ==
    /\ ic[i].client_win = NoWindow \/ Exists(ic[i].client_win)
    /\ \A j \in ic_list' : ic'[j].focus_win \notin {ic[i].focus_win} \ {NoWindow}

LiveIcSpared ==
    [][since_check' < since_check =>
         \A i, j \in ic_list \ ic_list' : Safe(i) /\ Safe(j) => i = j /\ errstatus]_vars

\* An IC nobody holds any more, whose client window is gone.
Orphan(i) ==
    /\ i \in ic_list
    /\ ic[i].client_win # NoWindow
    /\ ~Exists(ic[i].client_win)
    /\ \A c \in Client : i \notin held[c]

\* The purpose of the sweep: as long as some client goes on typing, the IC of a
\* client that died is deleted in the end, unless its window id is used again.
Collected ==
    \A i \in Id : []<>Typing => (Orphan(i) ~> ~Orphan(i))
=============================================================================
