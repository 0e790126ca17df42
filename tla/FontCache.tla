------------------------------ MODULE FontCache ------------------------------
(***************************************************************************)
(* The fontsets of src/src/gui.c: gui_create_fontset(), gui_free_fontset() *)
(* and the two lists they keep, the fonts in use (fontlist) and the ones   *)
(* that nobody uses any more (freef_head .. freef_end).  The lists are     *)
(* kept pointer by pointer, because what the code does with prev matters.  *)
(***************************************************************************)
EXTENDS Naturals, FiniteSets

CONSTANTS
    Font,    \* names of fonts
    Valid,   \* the names the X server makes a fontset of
    Node     \* bound: the ifont_t that may be allocated

Nil == "nil"

ASSUME FontConstants ==
    /\ Valid \subseteq Font /\ Nil \notin Font
    /\ IsFiniteSet(Node) /\ Nil \notin Node

VARIABLES
    fontlist, freef_head, freef_end,
    font     \* Node -> [name, ref_cnt, next, prev, open]

fontVars == <<fontlist, freef_head, freef_end, font>>

Unused == [name |-> Nil, ref_cnt |-> 0, next |-> Nil, prev |-> Nil, open |-> FALSE]

(* What the functions work on. *)
Fonts == [list |-> fontlist, head |-> freef_head, end |-> freef_end, node |-> font,
          got |-> Nil]
FontsAre(c) ==
    /\ fontlist' = c.list /\ freef_head' = c.head
    /\ freef_end' = c.end /\ font' = c.node

(* The nodes of the list that begins at n, in a set. *)
Chain(c, n) ==
    LET at[k \in 0 .. Cardinality(Node)] ==
          IF k = 0 THEN n
          ELSE IF at[k - 1] = Nil THEN Nil ELSE c.node[at[k - 1]].next
    IN  {at[k] : k \in 0 .. Cardinality(Node)} \ {Nil}

Named(c, n, name) == {k \in Chain(c, n) : c.node[k].name = name}

(* The search stops at the first one of that name. *)
First(c, n, name) ==
    CHOOSE k \in Named(c, n, name) :
        \A j \in Named(c, n, name) : j \in Chain(c, k)

Push(c, n, r) ==
    [c EXCEPT !.node[n] = [r EXCEPT !.next = c.list, !.prev = Nil], !.list = n, !.got = n]

(* prev of the node behind n, as far as there is one. *)
Unhooked(c, n, front) ==
    LET r == c.node[n]
        before == IF r.prev = Nil THEN c.node
                  ELSE [c.node EXCEPT ![r.prev].next = r.next]
        after  == IF r.next = Nil THEN before
                  ELSE [before EXCEPT ![r.next].prev = r.prev]
    IN  IF front = "list"
          THEN [c EXCEPT !.node = after, !.list = IF r.prev = Nil THEN r.next ELSE @]
          ELSE [c EXCEPT !.node = after, !.head = IF r.prev = Nil THEN r.next ELSE @,
                         !.end = IF r.next = Nil THEN r.prev ELSE @]

(* A font that is not in any list: the end of the free list gives its node *)
(* and takes the list with it, as far as prev says; then the X server is   *)
(* asked.                                                                  *)
Evict(c) ==
    IF c.end = Nil THEN c
    ELSE LET p == c.node[c.end].prev
             closed == [c.node EXCEPT ![c.end].open = FALSE, ![c.end].name = Nil]
         IN  [c EXCEPT !.end = p,
                       !.head = IF p = Nil THEN Nil ELSE @,
                       !.node = IF p = Nil THEN closed ELSE [closed EXCEPT ![p].next = Nil]]
Create(c, name) ==
    LET e == Evict(c)
        fresh == [name |-> name, ref_cnt |-> 1, next |-> Nil, prev |-> Nil, open |-> TRUE]
        nodes == IF c.end # Nil THEN {c.end}
                 ELSE {n \in Node : c.node[n] = Unused /\ n \notin Chain(c, c.list)}
    IN  IF name \notin Valid THEN {[e EXCEPT !.got = Nil]}
        ELSE IF nodes = {} THEN {}
        ELSE {Push(e, CHOOSE n \in nodes : TRUE, fresh)}

(* gui_create_fontset(): no outcome where Node is used up. *)
CreateFontset(c, name) ==
    IF Named(c, c.list, name) # {}
      THEN LET n == First(c, c.list, name)
           IN  {[c EXCEPT !.node[n].ref_cnt = @ + 1, !.got = n]}
    ELSE IF Named(c, c.head, name) # {}
      THEN LET n == First(c, c.head, name)
           IN  {Push(Unhooked(c, n, "free"), n, [c.node[n] EXCEPT !.ref_cnt = @ + 1])}
    ELSE Create(c, name)

\* Faulty: the font goes to the free list with one user left.
FreeAtOne(c, n) ==
    LET counted == [c EXCEPT !.node[n].ref_cnt = @ - 1]
        out == Unhooked(counted, n, "list")
    IN  IF n \notin Chain(c, c.list) THEN c
        ELSE IF counted.node[n].ref_cnt > 1 THEN counted
        ELSE [out EXCEPT !.node[n].prev = Nil, !.node[n].next = c.head,
                         !.head = n, !.end = IF @ = Nil THEN n ELSE @]
(* gui_free_fontset(): nothing happens to a font the list has lost. *)
FreeFontset(c, n) ==
    LET counted == [c EXCEPT !.node[n].ref_cnt = @ - 1]
        out == Unhooked(counted, n, "list")
    IN  IF n \notin Chain(c, c.list) THEN c
        ELSE IF counted.node[n].ref_cnt > 0 THEN counted
        ELSE [out EXCEPT !.node[n].prev = Nil, !.node[n].next = c.head,
                         !.head = n, !.end = IF @ = Nil THEN n ELSE @]
=============================================================================
