-------------------------- MODULE OverspotClients --------------------------
(***************************************************************************)
(* The records of the over-the-spot clients, src/src/gui_overspot.c: the   *)
(* array oc, one record for an IC that was drawn, with the font its client *)
(* asked for.  This is the window with the client's own colours and fonts  *)
(* (neither OVERSPOT_USE_USRCOLOR nor OVERSPOT_USE_USRFONTSET).            *)
(***************************************************************************)
EXTENDS FontCache

CONSTANTS
    Id,             \* the ids of ICs, which are recycled
    overspot_font,  \* the font of the rcfile, which is a valid one
    MaxSlots        \* bound: the length of oc

ASSUME OverspotConstants ==
    /\ Id \subseteq Nat \ {0}
    /\ overspot_font \in Valid
    /\ MaxSlots \in Nat
    /\ Node # {}

VARIABLES
    ic,      \* Id -> ic_rec of a live IC, or NoIC
    oc,      \* 0 .. MaxSlots - 1 -> record, or NULL before it is allocated
    oc_edx,  \* the records in use are below it
    hint     \* the static i of search_struct_oc()

vars == <<fontVars, ic, oc, oc_edx, hint>>

NoIC == [font |-> Nil, style |-> Nil, update |-> FALSE]
NULL == [icid |-> 0, font |-> Nil]
Live(i) == ic[i] # NoIC
Slots == 0 .. (MaxSlots - 1)

(* Everything a handler works on. *)
World == [list |-> fontlist, head |-> freef_head, end |-> freef_end, node |-> font,
          got |-> Nil, oc |-> oc, edx |-> oc_edx, hint |-> hint, ic |-> ic]
Becomes(s) ==
    /\ FontsAre(s)
    /\ oc' = s.oc /\ oc_edx' = s.edx /\ hint' = s.hint /\ ic' = s.ic

(* search_struct_oc(): the record found last is looked at first. *)
None == MaxSlots
Search(s, i) ==
    IF s.hint < MaxSlots /\ s.oc[s.hint].icid = i THEN s.hint
    ELSE LET hits == {k \in Slots : k < s.edx /\ s.oc[k].icid = i}
         IN  IF hits = {} THEN None ELSE CHOOSE k \in hits : \A h \in hits : k <= h
Searched(s, i) == [s EXCEPT !.hint = IF Search(s, i) = None THEN 0 ELSE Search(s, i)]

(* update_IC_fontset() *)
UpdateFontset(s, name) ==
    IF name = Nil THEN CreateFontset(s, overspot_font)
    ELSE UNION {IF t.got = Nil THEN CreateFontset(t, overspot_font) ELSE {t}
                  : t \in CreateFontset(s, name)}

(* gui_overspot_delete_client() *)
\* Faulty: oc_edx shrinks whichever record goes.
DeleteShrinks(s0, i) ==
    LET k == Search(s0, i)
        s == Searched(s0, i)
        f == FreeFontset(s, s.oc[k].font)
    IN  IF k = None THEN s
        ELSE [f EXCEPT !.edx = IF @ > 1 THEN @ - 1 ELSE @, !.oc[k].icid = 0]
DeleteClient(s0, i) ==
    LET k == Search(s0, i)
        s == Searched(s0, i)
        f == FreeFontset(s, s.oc[k].font)
    IN  IF k = None THEN s
        ELSE [f EXCEPT !.edx = IF k = @ - 1 /\ @ > 1 THEN @ - 1 ELSE @, !.oc[k].icid = 0]

(* overspot_register_ic(): the first record that is free, or a new one;    *)
(* no outcome where Slots is used up.  gui_overspot_delete_client() is     *)
(* given the place of the record where it expects an id.                   *)
FreeSlot(s) ==
    LET free == {k \in Slots : k < s.edx /\ s.oc[k].icid = 0}
    IN  IF free = {} THEN s.edx ELSE CHOOSE k \in free : \A h \in free : k <= h

Register(s, i) ==
    LET k == FreeSlot(s)
        grown == [s EXCEPT !.edx = IF k = @ THEN @ + 1 ELSE @]
        clear == IF s.oc[k] = NULL THEN grown ELSE DeleteClient(grown, k + 1)
    IN  IF k = MaxSlots THEN {}
        ELSE {[t EXCEPT !.oc[k] = [icid |-> i, font |-> t.got]]
                : t \in UpdateFontset(clear, s.ic[i].font)}

(* overspot_check_ic(): the client has set another font. *)
CheckIC(s, i) ==
    LET k == Search(s, i)
        seen == [s EXCEPT !.ic[i].update = FALSE]
    IN  IF ~s.ic[i].update THEN {s}
        ELSE {[t EXCEPT !.oc[k].font = t.got]
                : t \in UpdateFontset(FreeFontset(seen, s.oc[k].font), s.ic[i].font)}

-----------------------------------------------------------------------------
(* The main window has opened the font of the rcfile. *)
Init ==
    /\ fontlist = CHOOSE n \in Node : TRUE
    /\ font = [n \in Node |->
                 IF n = fontlist
                   THEN [Unused EXCEPT !.name = overspot_font, !.ref_cnt = 1, !.open = TRUE]
                   ELSE Unused]
    /\ freef_head = Nil /\ freef_end = Nil
    /\ ic = [i \in Id |-> NoIC]
    /\ oc = [k \in Slots |-> NULL]
    /\ oc_edx = 0 /\ hint = 0

(* XIM_CREATE_IC, with a font of the client or without. *)
CreateIC(i, f, style) ==
    /\ ~Live(i)
    /\ ic' = [ic EXCEPT ![i] = [font |-> f, style |-> style, update |-> f # Nil]]
    /\ UNCHANGED <<fontVars, oc, oc_edx, hint>>

(* XIM_SET_IC_VALUES, as ic_set_values() takes it: another font is marked, *)
(* another input style is taken without a word to the records.             *)
SetFont(i, f) ==
    /\ Live(i) /\ ic[i].font # f
    /\ ic' = [ic EXCEPT ![i] = [@ EXCEPT !.font = f, !.update = TRUE]]
    /\ UNCHANGED <<fontVars, oc, oc_edx, hint>>
SetStyle(i) ==
    /\ Live(i)
    /\ ic' = [ic EXCEPT ![i].style = IF @ = "OverSpot" THEN "Root" ELSE "OverSpot"]
    /\ UNCHANGED <<fontVars, oc, oc_edx, hint>>

(* gui_overspot_draw(), for the current IC; it is in focus or not. *)
Draw(i, focus) ==
    LET known == Searched(World, i)
        there == IF Search(World, i) = None THEN Register(known, i) ELSE {known}
    IN  /\ Live(i) /\ ic[i].style = "OverSpot"
        /\ \E s \in IF focus THEN UNION {CheckIC(t, i) : t \in there} ELSE there :
              Becomes(s)

(* delete_IC() *)
DeleteIC(i) ==
    LET s == IF ic[i].style = "OverSpot" THEN DeleteClient(World, i) ELSE World
    IN  /\ Live(i)
        /\ Becomes([s EXCEPT !.ic[i] = NoIC])

Next ==
    \E i \in Id :
        \/ \E f \in Font \cup {Nil}, style \in {"OverSpot", "Root"} : CreateIC(i, f, style)
        \/ \E f \in Font : SetFont(i, f)
        \/ SetStyle(i)
        \/ \E focus \in BOOLEAN : Draw(i, focus)
        \/ DeleteIC(i)

Spec == Init /\ [][Next]_vars

-----------------------------------------------------------------------------
(* The shape of the state. *)
TypeOK ==
    /\ fontlist \in Node \cup {Nil}
    /\ freef_head \in Node \cup {Nil} /\ freef_end \in Node \cup {Nil}
    /\ \A n \in Node : /\ font[n].name \in Font \cup {Nil}
                       /\ font[n].ref_cnt \in Nat
                       /\ font[n].next \in Node \cup {Nil}
                       /\ font[n].prev \in Node \cup {Nil}
    /\ \A i \in Id : ic[i].font \in Font \cup {Nil}
    /\ \A k \in Slots : oc[k].icid \in Id \cup {0} /\ oc[k].font \in Node \cup {Nil}
    /\ oc_edx \in 0 .. MaxSlots
    /\ hint \in 0 .. MaxSlots

Users(n) == {k \in Slots : oc[k].icid \in Id /\ oc[k].font = n}

(* The font of a registered client is open, whoever freed or opened which  *)
(* fonts before: a font that somebody still draws with is never closed,    *)
(* although the lists lose fonts.                                          *)
UsedFontIsOpen ==
    \A k \in Slots : oc[k].icid \in Id => oc[k].font \in Node /\ font[oc[k].font].open

(* The count of a font in fontlist is the number of its users; the main    *)
(* window uses the font of the rcfile.                                     *)
CountIsUsers ==
    \A n \in Chain(Fonts, fontlist) :
        font[n].ref_cnt = Cardinality(Users(n))
                          + (IF font[n].name = overspot_font THEN 1 ELSE 0)

(* A font is in use or free, never both, and the free list ends where      *)
(* freef_end says: the next font that is opened takes over its last node.  *)
ListsApart ==
    LET free == Chain(Fonts, freef_head)
    IN  /\ Chain(Fonts, fontlist) \cap free = {}
        /\ (freef_head = Nil) <=> (freef_end = Nil)
        /\ freef_end # Nil => freef_end \in free /\ font[freef_end].next = Nil
        /\ \A n \in free : font[n].ref_cnt = 0 /\ Users(n) = {}

(* The cache of fonts is right about its users: over any order of clients  *)
(* that come, change their font and go, whatever fonts the lists have lost. *)
FontsAccounted == UsedFontIsOpen /\ CountIsUsers /\ ListsApart

(* An IC has one record at most, and it is below oc_edx, so that the record *)
(* that search_struct_oc() remembers is the one the search would find.      *)
OneRecord ==
    \A k \in Slots : oc[k].icid \in Id =>
        /\ k < oc_edx
        /\ \A h \in Slots : oc[h].icid = oc[k].icid => h = k

(* gui_overspot.c:52, "Indices by icid": a record belongs to its IC until  *)
(* this IC is deleted.  Violated: the records have their own numbers, and  *)
(* registering in record idx deletes the client whose id is idx + 1.       *)
RecordKept ==
    [][\A k \in Slots : oc[k].icid \in Id /\ oc'[k].icid # oc[k].icid
         => ic'[oc[k].icid] = NoIC]_vars

(* Every font that is open can be found again.  Violated: prev is never    *)
(* set, so a font that is freed takes the ones in front of it off the list. *)
FontsListed ==
    \A n \in Node : font[n].open =>
        n \in Chain(Fonts, fontlist) \cup Chain(Fonts, freef_head)
=============================================================================
