----------------------- MODULE OverspotClients_proofs -----------------------
(***************************************************************************)
(* Proofs about the client records of the overspot windows and the fonts   *)
(* they use, for any number of records, fonts and windows.  The first half *)
(* is what gui_create_fontset() and gui_free_fontset() do to the lists of  *)
(* fonts, for any fonts and any number of users: a list is taken up by     *)
(* induction once, for the set of nodes it has; the rest is about sets.    *)
(***************************************************************************)
EXTENDS OverspotClients, Integers, FiniteSetTheorems, TLAPS

-----------------------------------------------------------------------------
(* The nodes of a list.                                                    *)

\* Induction over the numbers, for a set.
LEMMA SetInduction ==
  ASSUME NEW S, 0 \in S, \A n \in Nat : n \in S => n + 1 \in S
  PROVE  \A n \in Nat : n \in S
<1> DEFINE R == OpToRel(<, Nat)
           T == Nat \ S
<1> SUFFICES ASSUME T # {} PROVE FALSE
  OBVIOUS
<1>1. PICK x \in T : \A y \in T : <<y, x>> \notin R
  <2> HIDE DEF R
  <2>1. IsWellFoundedOn(R, Nat)
    BY NatLessThanWellFounded DEF R
  <2> QED
    BY <2>1, WFMin
<1>2. x # 0 /\ x - 1 \in Nat
  OBVIOUS
<1>3. <<x - 1, x>> \in R
  BY <1>2 DEF OpToRel
<1>4. x - 1 \in S
  BY <1>1, <1>2, <1>3
<1> QED
  BY <1>2, <1>4

\* The node after k steps from n, as Chain follows next.
IsWalk(at, c, n, N) ==
    at = [k \in 0 .. N |->
             IF k = 0 THEN n ELSE IF at[k - 1] = Nil THEN Nil ELSE c.node[at[k - 1]].next]

\* There is a walk of any length,
LEMMA WalkExists ==
  ASSUME NEW c, NEW n
  PROVE  \A N \in Nat : \E at : IsWalk(at, c, n, N)
<1> DEFINE S == {N \in Nat : \E at : IsWalk(at, c, n, N)}
<1>1. 0 \in S
  <2>1. IsWalk([k \in 0 .. 0 |-> n], c, n, 0)
    BY DEF IsWalk
  <2> QED
    BY <2>1
<1>2. ASSUME NEW N \in Nat, N \in S PROVE N + 1 \in S
  <2>1. PICK at : IsWalk(at, c, n, N)
    BY <1>2
  <2> DEFINE more == [k \in 0 .. N + 1 |->
                        IF k < N + 1 THEN at[k]
                        ELSE IF at[N] = Nil THEN Nil ELSE c.node[at[N]].next]
  <2>2. ASSUME NEW k \in 0 .. N + 1
        PROVE  more[k] = IF k = 0 THEN n
                         ELSE IF more[k - 1] = Nil THEN Nil ELSE c.node[more[k - 1]].next
    <3>1. \A j \in 0 .. N : more[j] = at[j]
      OBVIOUS
    <3>2. \A j \in 0 .. N : at[j] = IF j = 0 THEN n
                         ELSE IF at[j - 1] = Nil THEN Nil ELSE c.node[at[j - 1]].next
      BY <2>1 DEF IsWalk
    <3>3. more[N + 1] = IF at[N] = Nil THEN Nil ELSE c.node[at[N]].next
      OBVIOUS
    <3> HIDE DEF more
    <3>4. CASE k \in 0 .. N /\ k # 0
      <4>1. k - 1 \in 0 .. N
        BY <3>4
      <4> QED
        BY <3>1, <3>2, <3>4, <4>1
    <3>5. CASE k = 0
      BY <3>1, <3>2, <3>5
    <3>6. CASE k = N + 1
      <4>1. k - 1 = N /\ N \in 0 .. N /\ k # 0
        BY <3>6
      <4> QED
        BY <3>1, <3>3, <3>6, <4>1
    <3> QED
      BY <3>4, <3>5, <3>6
  <2>3. IsWalk(more, c, n, N + 1)
    BY <2>2 DEF IsWalk
  <2> HIDE DEF more
  <2> QED
    BY <2>3
<1> HIDE DEF S
<1>3. \A N \in Nat : N \in S
  BY <1>1, <1>2, SetInduction
<1> QED
  BY <1>3 DEF S

\* and Chain collects one of the length of Node.
LEMMA ChainWalk ==
  ASSUME NEW c, NEW n
  PROVE  \E at : /\ IsWalk(at, c, n, Cardinality(Node))
                 /\ Chain(c, n) = {at[k] : k \in 0 .. Cardinality(Node)} \ {Nil}
<1> DEFINE at[k \in 0 .. Cardinality(Node)] ==
             IF k = 0 THEN n ELSE IF at[k - 1] = Nil THEN Nil ELSE c.node[at[k - 1]].next
<1>1. Cardinality(Node) \in Nat
  BY FontConstants, FS_CardinalityType
<1>2. at = CHOOSE g : IsWalk(g, c, n, Cardinality(Node))
  BY DEF IsWalk
<1>3. IsWalk(at, c, n, Cardinality(Node))
  <2> HIDE DEF at
  <2> QED
    BY <1>1, <1>2, WalkExists
<1>4. Chain(c, n) = {at[k] : k \in 0 .. Cardinality(Node)} \ {Nil}
  BY DEF Chain
<1> HIDE DEF at
<1> QED
  BY <1>3, <1>4

\* Every set that has the first node and goes wherever next goes has the list.
LEMMA ChainLeast ==
  ASSUME NEW c, NEW n, NEW S, n \in S \cup {Nil},
         \A k \in S : c.node[k].next \in S \cup {Nil}
  PROVE  Chain(c, n) \subseteq S
<1>1. PICK at : /\ IsWalk(at, c, n, Cardinality(Node))
                /\ Chain(c, n) = {at[k] : k \in 0 .. Cardinality(Node)} \ {Nil}
  BY ChainWalk
<1> DEFINE N == Cardinality(Node)
           T == {k \in Nat : k <= N => at[k] \in S \cup {Nil}}
<1>2. N \in Nat
  BY FontConstants, FS_CardinalityType
<1> HIDE DEF N
<1>3. 0 \in T
  BY <1>1, <1>2 DEF IsWalk, N
<1>4. ASSUME NEW k \in Nat, k \in T PROVE k + 1 \in T
  <2> SUFFICES ASSUME k + 1 <= N PROVE at[k + 1] \in S \cup {Nil}
    OBVIOUS
  <2>1. at[k] \in S \cup {Nil}
    BY <1>2, <1>4
  <2>2. at[k + 1] = IF at[k] = Nil THEN Nil ELSE c.node[at[k]].next
    BY <1>1, <1>2 DEF IsWalk, N
  <2> QED
    BY <2>1, <2>2
<1> HIDE DEF T
<1>5. \A k \in Nat : k \in T
  BY <1>3, <1>4, SetInduction
<1> QED
  BY <1>1, <1>2, <1>5 DEF T, N

\* What follows next from a node leads to a node.
Linked(c) == \A k \in Node : c.node[k].next \in Node \cup {Nil}

\* What a list contains are nodes.
LEMMA ChainType ==
  ASSUME NEW c, Linked(c), NEW n \in Node \cup {Nil}
  PROVE  Chain(c, n) \subseteq Node
  BY ChainLeast DEF Linked

\* The list begins with its first node and goes wherever next goes: by the
\* pigeonhole principle Node is long enough for that, even were it a circle.
LEMMA ChainClosed ==
  ASSUME NEW c, Linked(c), NEW n \in Node
  PROVE  /\ n \in Chain(c, n)
         /\ \A k \in Chain(c, n) : c.node[k].next \in Chain(c, n) \cup {Nil}
<1>1. PICK at : /\ IsWalk(at, c, n, Cardinality(Node))
                /\ Chain(c, n) = {at[k] : k \in 0 .. Cardinality(Node)} \ {Nil}
  BY ChainWalk
<1> DEFINE N == Cardinality(Node)
<1>2. N \in Nat
  BY FontConstants, FS_CardinalityType
<1> HIDE DEF N
<1>3. at[0] = n
  BY <1>1, <1>2 DEF IsWalk, N
<1>4. ASSUME NEW j \in 0 .. N, j < N
      PROVE  at[j + 1] = IF at[j] = Nil THEN Nil ELSE c.node[at[j]].next
  BY <1>1, <1>2, <1>4 DEF IsWalk, N
<1>5. \A j \in 0 .. N : at[j] \in Node \cup {Nil}
  BY <1>1, ChainType DEF N
<1> SUFFICES ASSUME NEW k \in Chain(c, n) PROVE c.node[k].next \in Chain(c, n) \cup {Nil}
  BY <1>1, <1>2, <1>3, FontConstants DEF N
<1>6. PICK j \in 0 .. N : at[j] = k /\ k # Nil
  BY <1>1 DEF N
<1>7. CASE j < N
  BY <1>1, <1>2, <1>4, <1>6, <1>7 DEF N
<1>8. CASE j = N
  <2>1. \A i \in 0 .. N : at[i] # Nil
    <3> SUFFICES ASSUME NEW i \in 0 .. N, at[i] = Nil PROVE FALSE
      OBVIOUS
    <3> DEFINE T == {m \in Nat : i + m <= N => at[i + m] = Nil}
    <3>1. 0 \in T
      OBVIOUS
    <3>2. ASSUME NEW m \in Nat, m \in T PROVE m + 1 \in T
      <4> SUFFICES ASSUME i + (m + 1) <= N PROVE at[i + (m + 1)] = Nil
        OBVIOUS
      <4>1. i + m \in 0 .. N /\ i + m < N /\ (i + m) + 1 = i + (m + 1)
        BY <1>2
      <4>2. at[i + m] = Nil
        BY <1>2, <3>2, <4>1
      <4> QED
        BY <1>4, <4>1, <4>2
    <3> HIDE DEF T
    <3>3. N - i \in T
      <4>1. N - i \in Nat
        BY <1>2
      <4> QED
        BY <3>1, <3>2, <4>1, SetInduction
    <3> QED
      BY <1>2, <1>6, <1>8, <3>3 DEF T
  <2>2. PICK a \in 0 .. N, b \in 0 .. N : a < b /\ at[a] = at[b]
    <3>1. IsFiniteSet(0 .. N) /\ Cardinality(0 .. N) = N + 1
      BY <1>2, FS_Interval
    <3> DEFINE f == [i \in 0 .. N |-> at[i]]
    <3>2. f \in [0 .. N -> Node]
      BY <1>5, <2>1
    <3> HIDE DEF f
    <3>3. \E x, y \in 0 .. N : x # y /\ f[x] = f[y]
      <4>1. IsFiniteSet(Node) /\ Cardinality(Node) < Cardinality(0 .. N)
        BY <1>2, <3>1, FontConstants DEF N
      <4> QED
        BY <3>1, <3>2, <4>1, FS_PigeonHole
    <3> QED
      BY <1>2, <3>3 DEF f
  <2> DEFINE T == {m \in Nat : b + m <= N => at[a + m] = at[b + m]}
  <2>3. 0 \in T
    BY <2>2
  <2>4. ASSUME NEW m \in Nat, m \in T PROVE m + 1 \in T
    <3> SUFFICES ASSUME b + (m + 1) <= N PROVE at[a + (m + 1)] = at[b + (m + 1)]
      OBVIOUS
    <3>1. /\ b + m \in 0 .. N /\ b + m < N /\ (b + m) + 1 = b + (m + 1)
          /\ a + m \in 0 .. N /\ a + m < N /\ (a + m) + 1 = a + (m + 1)
      BY <1>2, <2>2
    <3>2. at[a + m] = at[b + m]
      BY <1>2, <2>4, <3>1
    <3> QED
      BY <1>4, <3>1, <3>2
  <2> HIDE DEF T
  <2>5. N - b \in T
    <3>1. N - b \in Nat
      BY <1>2
    <3> QED
      BY <2>3, <2>4, <3>1, SetInduction
  <2> DEFINE i == a + (N - b)
  <2>6. i \in 0 .. N /\ i < N /\ at[i] = k
    BY <1>2, <1>6, <1>8, <2>2, <2>5 DEF T
  <2> HIDE DEF i
  <2>7. i + 1 \in 0 .. N /\ at[i + 1] = c.node[k].next
    BY <1>2, <1>4, <1>6, <2>6
  <2> QED
    BY <1>1, <2>7 DEF N
<1> QED
  BY <1>2, <1>7, <1>8

-----------------------------------------------------------------------------
(* A list behind a node, and a list whose nodes have not changed.          *)

\* An empty list contains nothing.
LEMMA ChainNil ==
  ASSUME NEW c
  PROVE  Chain(c, Nil) = {}
<1> DEFINE S == {}
<1>1. Nil \in S \cup {Nil} /\ \A k \in S : c.node[k].next \in S \cup {Nil}
  OBVIOUS
<1> HIDE DEF S
<1>2. Chain(c, Nil) \subseteq S
  BY <1>1, ChainLeast
<1> QED
  BY <1>2 DEF S

\* The list behind a node is a part of the list the node is in.
LEMMA ChainWithin ==
  ASSUME NEW c, Linked(c), NEW n \in Node, NEW k \in Chain(c, n)
  PROVE  /\ Chain(c, k) \subseteq Chain(c, n)
         /\ Chain(c, c.node[k].next) \subseteq Chain(c, n)
<1> DEFINE S == Chain(c, n)
<1>1. \A j \in S : c.node[j].next \in S \cup {Nil}
  BY ChainClosed
<1> HIDE DEF S
<1>2. k \in S
  BY DEF S
<1>3. Chain(c, k) \subseteq S
  BY <1>1, <1>2, ChainLeast
<1> DEFINE m == c.node[k].next
<1>4. m \in S \cup {Nil}
  BY <1>1, <1>2
<1> HIDE DEF m
<1>5. Chain(c, m) \subseteq S
  BY <1>1, <1>4, ChainLeast
<1> QED
  BY <1>3, <1>5 DEF S, m

\* A list is its first node and the list behind it.
LEMMA ChainStep ==
  ASSUME NEW c, Linked(c), NEW n \in Node
  PROVE  Chain(c, n) = {n} \cup Chain(c, c.node[n].next)
<1> DEFINE m == c.node[n].next
           S == {n} \cup Chain(c, m)
<1>1. m \in Node \cup {Nil}
  BY DEF Linked
<1>2. /\ m \in Chain(c, m) \cup {Nil}
      /\ \A k \in Chain(c, m) : c.node[k].next \in Chain(c, m) \cup {Nil}
  <2> HIDE DEF m
  <2> QED
    BY <1>1, ChainClosed, ChainNil
<1>3. Chain(c, n) \subseteq S
  <2>1. \A k \in S : c.node[k].next \in S \cup {Nil}
    BY <1>2
  <2>2. n \in S
    OBVIOUS
  <2> HIDE DEF S
  <2> QED
    BY <2>1, <2>2, ChainLeast
<1>4. n \in Chain(c, n) /\ Chain(c, m) \subseteq Chain(c, n)
  BY ChainClosed, ChainWithin
<1> QED
  BY <1>3, <1>4

\* A list is what its own nodes make of it.
LEMMA ChainFrame ==
  ASSUME NEW c, Linked(c), NEW t, Linked(t), NEW n \in Node \cup {Nil},
         \A k \in Chain(c, n) : t.node[k].next = c.node[k].next
  PROVE  Chain(t, n) = Chain(c, n)
<1>1. CASE n = Nil
  BY <1>1, ChainNil
<1>2. CASE n \in Node
  <2> DEFINE S == Chain(c, n)
             U == Chain(t, n)
  <2>1. n \in S /\ \A k \in S : c.node[k].next \in S \cup {Nil}
    BY <1>2, ChainClosed
  <2>2. \A k \in S : t.node[k].next \in S \cup {Nil}
    BY <2>1
  <2>3. n \in U /\ \A k \in U : t.node[k].next \in U \cup {Nil}
    BY <1>2, ChainClosed
  <2>4. U \subseteq S
    <3> HIDE DEF S
    <3> QED
      BY <2>1, <2>2, ChainLeast
  <2>5. \A k \in U : c.node[k].next \in U \cup {Nil}
    BY <2>3, <2>4
  <2>6. S \subseteq U
    <3> HIDE DEF U
    <3> QED
      BY <2>3, <2>5, ChainLeast
  <2> QED
    BY <2>4, <2>6
<1> QED
  BY <1>1, <1>2

-----------------------------------------------------------------------------
(* The cache and the users of its fonts: H has the font of each user, main *)
(* is the user that stays, and name the name of its font.                  *)

Held(H, n) == {h \in DOMAIN H : H[h] = n}
With(H, x, n) == [h \in DOMAIN H \cup {x} |-> IF h = x THEN n ELSE H[h]]
Without(H, x) == [h \in DOMAIN H \ {x} |-> H[h]]

\* The nodes and the ends of the lists; nothing ever sets prev.
FontNode == [name : Font \cup {Nil}, ref_cnt : Nat, next : Node \cup {Nil}, prev : {Nil},
             open : BOOLEAN]
Shape(c) ==
    /\ {"list", "head", "end", "node", "got"} \subseteq DOMAIN c
    /\ {c.list, c.head, c.end} \subseteq Node \cup {Nil}
    /\ c.node \in [Node -> FontNode]

\* A user has an open font, listed or lost.
UsersHold(c, H, main, name) ==
    /\ IsFiniteSet(DOMAIN H)
    /\ \A h \in DOMAIN H : H[h] \in Node /\ c.node[H[h]].open
    /\ main \in DOMAIN H /\ H[main] \in Chain(c, c.list)
    /\ c.node[H[main]].name = name

\* The fonts in use count their users, and the font of main is the last.
ListCounts(c, H, main) ==
    \A n \in Chain(c, c.list) :
        /\ c.node[n].open
        /\ c.node[n].ref_cnt = Cardinality(Held(H, n))
        /\ n \notin Chain(c, c.node[n].next)
        /\ H[main] \in Chain(c, n)

\* The free fonts have none, and freef_end is the last.
FreeRests(c, H) ==
    /\ (c.head = Nil) <=> (c.end = Nil)
    /\ c.end # Nil => c.end \in Chain(c, c.head) /\ c.node[c.end].next = Nil
    /\ \A n \in Chain(c, c.head) :
          /\ c.node[n].open
          /\ c.node[n].ref_cnt = 0
          /\ Held(H, n) = {}
          /\ n \notin Chain(c, c.node[n].next)
          /\ c.end \in Chain(c, n)

\* No font is in both lists, or listed under its name twice.
NamesApart(c) ==
    /\ Chain(c, c.list) \cap Chain(c, c.head) = {}
    /\ \A m, n \in Chain(c, c.list) \cup Chain(c, c.head) :
          c.node[m].name = c.node[n].name => m = n

Cached(c, H, main, name) ==
    /\ Shape(c)
    /\ UsersHold(c, H, main, name)
    /\ ListCounts(c, H, main)
    /\ FreeRests(c, H)
    /\ NamesApart(c)

\* In lists of the right shape next never leaves the nodes.
LEMMA ShapeLinked ==
  ASSUME NEW c, Shape(c)
  PROVE  Linked(c)
  BY DEF Shape, Linked, FontNode

\* One user more,
LEMMA HeldWith ==
  ASSUME NEW H, IsFiniteSet(DOMAIN H), NEW x, x \notin DOMAIN H, NEW n, NEW m
  PROVE  /\ IsFiniteSet(DOMAIN With(H, x, n))
         /\ Cardinality(Held(H, m)) \in Nat
         /\ Cardinality(Held(With(H, x, n), m)) =
               IF m = n THEN Cardinality(Held(H, m)) + 1 ELSE Cardinality(Held(H, m))
<1>1. IsFiniteSet(Held(H, m))
  BY FS_Subset DEF Held
<1>2. Held(With(H, x, n), m) = IF m = n THEN Held(H, m) \cup {x} ELSE Held(H, m)
  BY DEF Held, With
<1>3. x \notin Held(H, m)
  BY DEF Held
<1>4. DOMAIN With(H, x, n) = DOMAIN H \cup {x}
  BY DEF With
<1> QED
  BY <1>1, <1>2, <1>3, <1>4, FS_AddElement, FS_CardinalityType

\* or one less.
LEMMA HeldWithout ==
  ASSUME NEW H, IsFiniteSet(DOMAIN H), NEW x \in DOMAIN H, NEW m
  PROVE  /\ IsFiniteSet(DOMAIN Without(H, x))
         /\ Cardinality(Held(H, m)) \in Nat
         /\ m = H[x] => Cardinality(Held(H, m)) > 0
         /\ Cardinality(Held(Without(H, x), m)) =
               IF m = H[x] THEN Cardinality(Held(H, m)) - 1 ELSE Cardinality(Held(H, m))
<1>1. IsFiniteSet(Held(H, m))
  BY FS_Subset DEF Held
<1>2. Held(Without(H, x), m) = IF m = H[x] THEN Held(H, m) \ {x} ELSE Held(H, m)
  BY DEF Held, Without
<1>3. m = H[x] => x \in Held(H, m)
  BY DEF Held
<1>4. DOMAIN Without(H, x) = DOMAIN H \ {x}
  BY DEF Without
<1>5. m = H[x] => Cardinality(Held(H, m)) # 0
  BY <1>1, <1>3, FS_EmptySet
<1>6. Cardinality(Held(H, m)) \in Nat
  BY <1>1, FS_CardinalityType
<1>7. m = H[x] => Cardinality(Held(H, m) \ {x}) = Cardinality(Held(H, m)) - 1
  BY <1>1, <1>3, FS_RemoveElement
<1>8. IsFiniteSet(DOMAIN Without(H, x))
  BY <1>4, FS_RemoveElement
<1> QED
  BY <1>2, <1>5, <1>6, <1>7, <1>8

-----------------------------------------------------------------------------
(* The steps of the two functions.                                         *)

\* Only ref_cnt has changed, so the lists have not.
LEMMA SameLists ==
  ASSUME NEW c, Shape(c), NEW t, Shape(t),
         \A k \in Node : t.node[k].next = c.node[k].next
  PROVE  \A m \in Node \cup {Nil} : Chain(t, m) = Chain(c, m)
<1> SUFFICES ASSUME NEW m \in Node \cup {Nil} PROVE Chain(t, m) = Chain(c, m)
  OBVIOUS
<1>1. Linked(c) /\ Linked(t)
  BY ShapeLinked
<1>2. Chain(c, m) \subseteq Node
  BY <1>1, ChainType
<1> QED
  BY <1>1, <1>2, ChainFrame

\* What else a handler works on does not matter.
LEMMA SameFonts ==
  ASSUME NEW c, NEW H, NEW main, NEW name, Cached(c, H, main, name),
         NEW t, DOMAIN t = DOMAIN c, t.node = c.node,
         t.list = c.list, t.head = c.head, t.end = c.end
  PROVE  Cached(t, H, main, name)
<1>1. Shape(c) /\ Linked(c)
  BY ShapeLinked DEF Cached
<1>2. Shape(t)
  BY <1>1 DEF Shape
<1>3. \A m \in Node \cup {Nil} : Chain(t, m) = Chain(c, m) /\ Chain(c, m) \subseteq Node
  BY <1>1, <1>2, SameLists, ChainType
<1>4. /\ {c.list, c.head} \subseteq Node \cup {Nil}
      /\ \A k \in Node : c.node[k].next \in Node \cup {Nil}
  BY <1>1 DEF Shape, Linked
<1>5. /\ Chain(t, t.list) = Chain(c, c.list) /\ Chain(t, t.head) = Chain(c, c.head)
      /\ \A k \in Chain(c, c.list) \cup Chain(c, c.head) :
            Chain(t, k) = Chain(c, k) /\ Chain(t, t.node[k].next) = Chain(c, c.node[k].next)
  BY <1>3, <1>4
<1>6. UsersHold(t, H, main, name) /\ ListCounts(t, H, main)
  BY <1>5 DEF Cached, UsersHold, ListCounts
<1>7. FreeRests(t, H) /\ NamesApart(t)
  BY <1>5 DEF Cached, FreeRests, NamesApart
<1> QED
  BY <1>2, <1>6, <1>7 DEF Cached

\* A font in use has a user more or less; it keeps one.
Recounts(c, H, n, t, G, main) ==
    /\ n \in Chain(c, c.list)
    /\ Shape(t) /\ t.list = c.list /\ t.head = c.head /\ t.end = c.end
    /\ \A k \in Node : /\ t.node[k].next = c.node[k].next
                       /\ t.node[k].name = c.node[k].name
                       /\ t.node[k].open = c.node[k].open
                       /\ k # n => t.node[k].ref_cnt = c.node[k].ref_cnt
    /\ IsFiniteSet(DOMAIN G) /\ main \in DOMAIN G /\ G[main] = H[main]
    /\ \A h \in DOMAIN G : (h \in DOMAIN H /\ G[h] = H[h]) \/ G[h] = n
    /\ t.node[n].ref_cnt = Cardinality(Held(G, n))
    /\ \A m \in Node \ {n} : Cardinality(Held(G, m)) = Cardinality(Held(H, m))

\* A node whose users were counted anew leaves the cache sound,
LEMMA Counted ==
  ASSUME NEW c, NEW H, NEW main, NEW name, Cached(c, H, main, name),
         NEW n, NEW t, NEW G, Recounts(c, H, n, t, G, main)
  PROVE  Cached(t, G, main, name)
<1> USE DEF Recounts
<1>1. Shape(c) /\ Linked(c)
  BY ShapeLinked DEF Cached
<1>2. \A m \in Node \cup {Nil} : Chain(t, m) = Chain(c, m) /\ Chain(c, m) \subseteq Node
  BY <1>1, SameLists, ChainType
<1>3. /\ {c.list, c.head, c.end} \subseteq Node \cup {Nil} /\ n \in Node
      /\ \A k \in Node : t.node[k].next \in Node \cup {Nil}
  BY <1>1, <1>2 DEF Shape, FontNode
<1>4. c.node[n].open /\ n \notin Chain(c, c.head)
  BY DEF Cached, ListCounts, NamesApart
<1>5. UsersHold(t, G, main, name)
  BY <1>2, <1>3, <1>4 DEF Cached, UsersHold
<1>6. ListCounts(t, G, main)
  <2> SUFFICES ASSUME NEW m \in Chain(c, c.list)
               PROVE  /\ t.node[m].open
                      /\ t.node[m].ref_cnt = Cardinality(Held(G, m))
                      /\ m \notin Chain(t, t.node[m].next)
                      /\ G[main] \in Chain(t, m)
    BY <1>2, <1>3 DEF ListCounts
  <2>1. m \in Node
    BY <1>2, <1>3
  <2>2. /\ c.node[m].open
        /\ c.node[m].ref_cnt = Cardinality(Held(H, m))
        /\ m \notin Chain(c, c.node[m].next)
        /\ H[main] \in Chain(c, m)
    BY DEF Cached, ListCounts
  <2> QED
    BY <1>2, <1>3, <2>1, <2>2
<1>7. FreeRests(t, G)
  <2>1. ASSUME NEW m \in Chain(c, c.head)
        PROVE  /\ t.node[m].open
               /\ t.node[m].ref_cnt = 0
               /\ Held(G, m) = {}
               /\ m \notin Chain(t, t.node[m].next)
               /\ t.end \in Chain(t, m)
    <3>1. m \in Node /\ m # n
      BY <1>2, <1>3, <1>4
    <3>2. /\ c.node[m].open
          /\ c.node[m].ref_cnt = 0
          /\ Held(H, m) = {}
          /\ m \notin Chain(c, c.node[m].next)
          /\ c.end \in Chain(c, m)
      BY DEF Cached, FreeRests
    <3>3. Held(G, m) \subseteq Held(H, m)
      BY <3>1 DEF Held
    <3> QED
      BY <1>2, <1>3, <3>1, <3>2, <3>3
  <2>2. /\ (t.head = Nil) <=> (t.end = Nil)
        /\ t.end # Nil => t.end \in Chain(c, c.head) /\ t.node[t.end].next = Nil
    BY <1>2, <1>3 DEF Cached, FreeRests
  <2> QED
    BY <1>2, <1>3, <2>1, <2>2 DEF FreeRests
<1>8. NamesApart(t)
  <2>1. Chain(t, t.list) = Chain(c, c.list) /\ Chain(t, t.head) = Chain(c, c.head)
    BY <1>2, <1>3
  <2>2. Chain(c, c.list) \subseteq Node /\ Chain(c, c.head) \subseteq Node
    BY <1>2, <1>3
  <2> QED
    BY <2>1, <2>2 DEF Cached, NamesApart
<1> QED
  BY <1>5, <1>6, <1>7, <1>8 DEF Cached

\* A node nobody uses comes to the front of fontlist with one user; of the
\* free list a part remains that does not have it.
Takes(c, H, n, t) ==
    /\ n \in Node /\ n \notin Chain(c, c.list) /\ Held(H, n) = {}
    /\ Shape(t) /\ t.list = n
    /\ \A k \in Node \ {n} : t.node[k] = c.node[k]
    /\ t.node[n].next = c.list /\ t.node[n].open /\ t.node[n].ref_cnt = 1
    /\ t.head \in Chain(c, c.head) \cup {Nil} /\ n \notin Chain(c, t.head)
    /\ (t.head = Nil) <=> (t.end = Nil)
    /\ t.end # Nil => t.end \in Chain(c, t.head) /\ c.node[t.end].next = Nil
    /\ \A k \in Chain(c, t.head) : t.end \in Chain(c, k)
    /\ \A k \in Chain(c, c.list) \cup Chain(c, t.head) : c.node[k].name # t.node[n].name

\* so does a node taken from the free list for a user more,
LEMMA TakenUp ==
  ASSUME NEW c, NEW H, NEW main, NEW name, Cached(c, H, main, name),
         NEW n, NEW t, Takes(c, H, n, t), NEW x, x \notin DOMAIN H
  PROVE  Cached(t, With(H, x, n), main, name)
<1> USE DEF Takes
<1> DEFINE G == With(H, x, n)
           list == Chain(c, c.list)
           free == Chain(c, t.head)
<1>1. Shape(c) /\ Linked(c) /\ Linked(t)
  BY ShapeLinked DEF Cached
<1>2. /\ \A m \in Node \cup {Nil} : Chain(c, m) \subseteq Node
      /\ c.list \in Node \cup {Nil} /\ c.head \in Node \cup {Nil} /\ t.head \in Node \cup {Nil}
  BY <1>1, ChainType DEF Shape, FontNode
<1>3. free \subseteq Chain(c, c.head)
  <2>1. CASE t.head = Nil
    BY <2>1, ChainNil
  <2>2. CASE t.head # Nil
    <3>1. c.head \in Node
      BY <1>2, <2>2, ChainNil
    <3> QED
      BY <1>1, <2>2, <3>1, ChainWithin
  <2> QED
    BY <2>1, <2>2
<1>4. \A m \in Node \cup {Nil} : n \notin Chain(c, m) => Chain(t, m) = Chain(c, m)
  <2> SUFFICES ASSUME NEW m \in Node \cup {Nil}, n \notin Chain(c, m)
               PROVE  Chain(t, m) = Chain(c, m)
    OBVIOUS
  <2>1. \A k \in Chain(c, m) : t.node[k].next = c.node[k].next
    BY <1>2
  <2> QED
    BY <1>1, <2>1, ChainFrame
<1>5. Chain(t, t.list) = {n} \cup list /\ Chain(t, n) = {n} \cup list /\ Chain(t, c.list) = list
  BY <1>1, <1>2, <1>4, ChainStep
<1>6. Chain(t, t.head) = free
  BY <1>2, <1>4
<1>7. list \subseteq Node /\ free \subseteq Node
  BY <1>2
\* The lists behind the nodes of both.
<1>8. ASSUME NEW m \in list
      PROVE  /\ t.node[m] = c.node[m]
             /\ Chain(t, m) = Chain(c, m) /\ Chain(t, t.node[m].next) = Chain(c, c.node[m].next)
  <2>1. m \in Node /\ m # n /\ c.list \in Node
    BY <1>2, <1>7, <1>8, ChainNil
  <2>2. n \notin Chain(c, m) /\ n \notin Chain(c, c.node[m].next)
    BY <1>1, <2>1, ChainWithin
  <2> QED
    BY <1>1, <1>4, <2>1, <2>2 DEF Shape, FontNode
<1>9. ASSUME NEW m \in free
      PROVE  /\ t.node[m] = c.node[m]
             /\ Chain(t, m) = Chain(c, m) /\ Chain(t, t.node[m].next) = Chain(c, c.node[m].next)
  <2>1. m \in Node /\ m # n /\ t.head \in Node
    BY <1>2, <1>7, <1>9, ChainNil
  <2>2. n \notin Chain(c, m) /\ n \notin Chain(c, c.node[m].next)
    BY <1>1, <2>1, ChainWithin
  <2> QED
    BY <1>1, <1>4, <2>1, <2>2 DEF Shape, FontNode
\* The users.
<1>10. IsFiniteSet(DOMAIN H)
  BY DEF Cached, UsersHold
<1>11. /\ IsFiniteSet(DOMAIN G) /\ DOMAIN G = DOMAIN H \cup {x} /\ G[x] = n
       /\ \A h \in DOMAIN H : G[h] = H[h]
  BY <1>10, HeldWith DEF With
<1>12. /\ Cardinality(Held(G, n)) = 1
       /\ \A m : m # n => Held(G, m) = Held(H, m)
  <2>1. Cardinality(Held(H, n)) = 0
    BY FS_EmptySet
  <2>2. Cardinality(Held(G, n)) = 1
    <3> HIDE DEF G
    <3>1. \A m : Cardinality(Held(G, m)) =
                    IF m = n THEN Cardinality(Held(H, m)) + 1 ELSE Cardinality(Held(H, m))
      BY <1>10, HeldWith DEF G
    <3>2. Cardinality(Held(G, n)) = 0 + 1
      BY <2>1, <3>1, Zenon
    <3> QED
      BY <3>2
  <2>3. \A m : m # n => Held(G, m) = Held(H, m)
    BY DEF Held, With
  <2> QED
    BY <2>2, <2>3
<1>13. main \in DOMAIN H /\ H[main] \in list /\ c.node[H[main]].name = name
  BY DEF Cached, UsersHold
<1> HIDE DEF G, list, free
<1>14. UsersHold(t, G, main, name)
  <2>1. \A h \in DOMAIN H : H[h] \in Node /\ H[h] # n /\ c.node[H[h]].open
    BY DEF Cached, UsersHold, Held
  <2>2. \A h \in DOMAIN G : G[h] \in Node /\ t.node[G[h]].open
    BY <1>11, <2>1
  <2> QED
    BY <1>5, <1>8, <1>11, <1>13, <2>2 DEF UsersHold
<1>15. ListCounts(t, G, main)
  <2> SUFFICES ASSUME NEW m \in {n} \cup list
               PROVE  /\ t.node[m].open
                      /\ t.node[m].ref_cnt = Cardinality(Held(G, m))
                      /\ m \notin Chain(t, t.node[m].next)
                      /\ G[main] \in Chain(t, m)
    BY <1>5 DEF ListCounts
  <2>1. CASE m = n
    BY <1>5, <1>11, <1>12, <1>13, <2>1 DEF list
  <2>2. CASE m \in list
    <3>1. /\ c.node[m].open
          /\ c.node[m].ref_cnt = Cardinality(Held(H, m))
          /\ m \notin Chain(c, c.node[m].next)
          /\ H[main] \in Chain(c, m)
      BY <2>2 DEF Cached, ListCounts, list
    <3>2. m # n
      BY <2>2 DEF list
    <3> QED
      BY <1>8, <1>11, <1>12, <1>13, <2>2, <3>1, <3>2
  <2> QED
    BY <2>1, <2>2
<1>16. FreeRests(t, G)
  <2>1. ASSUME NEW m \in free
        PROVE  /\ t.node[m].open
               /\ t.node[m].ref_cnt = 0
               /\ Held(G, m) = {}
               /\ m \notin Chain(t, t.node[m].next)
               /\ t.end \in Chain(t, m)
    <3>1. /\ c.node[m].open
          /\ c.node[m].ref_cnt = 0
          /\ Held(H, m) = {}
          /\ m \notin Chain(c, c.node[m].next)
      BY <1>3, <2>1 DEF Cached, FreeRests
    <3>2. m # n /\ t.end \in Chain(c, m)
      BY <2>1 DEF free
    <3> QED
      BY <1>9, <1>12, <2>1, <3>1, <3>2
  <2>2. t.end # Nil => t.end \in free /\ t.node[t.end].next = Nil
    BY <1>9 DEF free
  <2> QED
    BY <1>6, <2>1, <2>2 DEF FreeRests
<1>17. NamesApart(t)
  <2>1. list \cap free = {} /\ \A j, k \in list \cup free :
                                  c.node[j].name = c.node[k].name => j = k
    BY <1>3 DEF Cached, NamesApart, list
  <2>2. n \notin free /\ \A k \in list \cup free : c.node[k].name # t.node[n].name
    BY DEF list, free
  <2>3. \A k \in list \cup free : t.node[k] = c.node[k]
    BY <1>8, <1>9
  <2> QED
    BY <1>5, <1>6, <2>1, <2>2, <2>3 DEF NamesApart
<1> QED
  BY <1>14, <1>15, <1>16, <1>17 DEF Cached, G

\* The last user of a font in use leaves: the font goes to the front of the
\* free list, and the fonts in front of it are lost with their users.
PutsAway(c, H, x, main, t) ==
    /\ x \in DOMAIN H /\ x # main /\ H[x] \in Chain(c, c.list)
    /\ Held(Without(H, x), H[x]) = {}
    /\ Shape(t) /\ t.list = c.node[H[x]].next /\ t.head = H[x]
    /\ t.end = IF c.end = Nil THEN H[x] ELSE c.end
    /\ \A k \in Node \ {H[x]} : t.node[k] = c.node[k]
    /\ t.node[H[x]].next = c.head /\ t.node[H[x]].open /\ t.node[H[x]].ref_cnt = 0
    /\ t.node[H[x]].name = c.node[H[x]].name

\* and a node put there because its last user is gone.
LEMMA PutAway ==
  ASSUME NEW c, NEW H, NEW main, NEW name, Cached(c, H, main, name),
         NEW x, NEW t, PutsAway(c, H, x, main, t)
  PROVE  Cached(t, Without(H, x), main, name)
<1> USE DEF PutsAway
<1> DEFINE n == H[x]
           G == Without(H, x)
           list == Chain(c, t.list)
           free == Chain(c, c.head)
<1>1. Shape(c) /\ Linked(c) /\ Linked(t)
  BY ShapeLinked DEF Cached
<1>2. /\ \A m \in Node \cup {Nil} : Chain(c, m) \subseteq Node
      /\ c.list \in Node \cup {Nil} /\ c.head \in Node \cup {Nil} /\ t.list \in Node \cup {Nil}
  BY <1>1, ChainType DEF Shape, FontNode
<1>3. n \in Node /\ c.list \in Node /\ n \in Chain(c, c.list)
  BY <1>2, ChainNil
<1>4. /\ n \notin list /\ list \subseteq Chain(c, c.list)
      /\ n \notin free /\ Chain(c, c.list) \cap free = {} /\ c.node[n].open
  BY <1>1, <1>3, ChainWithin DEF Cached, ListCounts, NamesApart
\* The users that stay.
<1>5. IsFiniteSet(DOMAIN H) /\ main \in DOMAIN H /\ c.node[H[main]].name = name
  BY DEF Cached, UsersHold
<1>6. /\ IsFiniteSet(DOMAIN G) /\ DOMAIN G = DOMAIN H \ {x}
      /\ \A h \in DOMAIN G : G[h] = H[h] /\ G[h] # n
      /\ main \in DOMAIN G
      /\ \A m : m # n => Held(G, m) = Held(H, m)
  <2>1. IsFiniteSet(DOMAIN G)
    BY <1>5, HeldWithout
  <2>2. DOMAIN G = DOMAIN H \ {x} /\ \A h \in DOMAIN G : G[h] = H[h]
    BY DEF Without
  <2>3. \A h \in DOMAIN G : G[h] # n
    BY DEF Held
  <2>4. \A m : m # n => Held(G, m) = Held(H, m)
    BY <2>2 DEF Held
  <2> QED
    BY <1>5, <2>1, <2>2, <2>3, <2>4
\* The font of main is behind it.
<1>7. H[main] \in list /\ H[main] # n
  <2>1. H[main] \in Chain(c, n)
    BY <1>3 DEF Cached, ListCounts
  <2>2. Chain(c, n) = {n} \cup list
    BY <1>1, <1>3, ChainStep
  <2> QED
    BY <1>6, <2>1, <2>2
<1> HIDE DEF G
<1>8. \A m \in Node \cup {Nil} : n \notin Chain(c, m) => Chain(t, m) = Chain(c, m)
  <2> SUFFICES ASSUME NEW m \in Node \cup {Nil}, n \notin Chain(c, m)
               PROVE  Chain(t, m) = Chain(c, m)
    OBVIOUS
  <2>1. \A k \in Chain(c, m) : t.node[k].next = c.node[k].next
    BY <1>2
  <2> QED
    BY <1>1, <2>1, ChainFrame
<1>9. Chain(t, t.list) = list
  BY <1>2, <1>4, <1>8
<1>10. Chain(t, t.head) = {n} \cup free /\ Chain(t, t.node[n].next) = free
  BY <1>1, <1>2, <1>3, <1>4, <1>8, ChainStep
<1>11. ASSUME NEW m \in list
       PROVE  /\ t.node[m] = c.node[m] /\ m # n /\ m \in Chain(c, c.list)
              /\ Chain(t, m) = Chain(c, m) /\ Chain(t, t.node[m].next) = Chain(c, c.node[m].next)
  <2>1. m \in Node /\ m # n /\ t.list \in Node
    BY <1>2, <1>4, <1>11, ChainNil
  <2>2. n \notin Chain(c, m) /\ n \notin Chain(c, c.node[m].next)
    BY <1>1, <1>4, <1>11, <2>1, ChainWithin
  <2> QED
    BY <1>1, <1>4, <1>8, <1>11, <2>1, <2>2 DEF Shape, FontNode
<1>12. ASSUME NEW m \in free
       PROVE  /\ t.node[m] = c.node[m] /\ m # n
              /\ Chain(t, m) = Chain(c, m) /\ Chain(t, t.node[m].next) = Chain(c, c.node[m].next)
  <2>1. m \in Node /\ m # n /\ c.head \in Node
    BY <1>2, <1>4, <1>12, ChainNil
  <2>2. n \notin Chain(c, m) /\ n \notin Chain(c, c.node[m].next)
    BY <1>1, <1>4, <1>12, <2>1, ChainWithin
  <2> QED
    BY <1>1, <1>8, <2>1, <2>2 DEF Shape, FontNode
<1>13. UsersHold(t, G, main, name)
  <2>1. \A h \in DOMAIN H : H[h] \in Node /\ c.node[H[h]].open
    BY DEF Cached, UsersHold
  <2>2. \A h \in DOMAIN G : G[h] \in Node /\ t.node[G[h]].open
    BY <1>6, <2>1
  <2> QED
    BY <1>5, <1>6, <1>7, <1>9, <1>11, <2>2 DEF UsersHold
<1>14. ListCounts(t, G, main)
  <2> SUFFICES ASSUME NEW m \in list
               PROVE  /\ t.node[m].open
                      /\ t.node[m].ref_cnt = Cardinality(Held(G, m))
                      /\ m \notin Chain(t, t.node[m].next)
                      /\ G[main] \in Chain(t, m)
    BY <1>9 DEF ListCounts
  <2>1. /\ c.node[m].open
        /\ c.node[m].ref_cnt = Cardinality(Held(H, m))
        /\ m \notin Chain(c, c.node[m].next)
        /\ H[main] \in Chain(c, m)
    BY <1>11 DEF Cached, ListCounts
  <2> QED
    BY <1>6, <1>11, <2>1
<1>15. FreeRests(t, G)
  <2>1. ASSUME NEW m \in {n} \cup free
        PROVE  /\ t.node[m].open
               /\ t.node[m].ref_cnt = 0
               /\ Held(G, m) = {}
               /\ m \notin Chain(t, t.node[m].next)
               /\ t.end \in Chain(t, m)
    <3>0. /\ c.end = Nil => free = {}
          /\ c.end # Nil => c.end \in free
      BY ChainNil DEF Cached, FreeRests
    <3>1. CASE m = n
      BY <1>4, <1>10, <3>0, <3>1 DEF G
    <3>2. CASE m \in free
      <4>1. /\ c.node[m].open
            /\ c.node[m].ref_cnt = 0
            /\ Held(H, m) = {}
            /\ m \notin Chain(c, c.node[m].next)
            /\ c.end \in Chain(c, m)
        BY <3>2 DEF Cached, FreeRests
      <4> QED
        BY <1>6, <1>12, <3>0, <3>2, <4>1
    <3> QED
      BY <2>1, <3>1, <3>2
  <2>2. /\ t.head # Nil /\ t.end # Nil
        /\ t.end \in {n} \cup free /\ t.node[t.end].next = Nil
    <3>1. (c.head = Nil) <=> (c.end = Nil)
      BY DEF Cached, FreeRests
    <3>2. c.end # Nil => c.end \in free /\ c.node[c.end].next = Nil
      BY DEF Cached, FreeRests
    <3> QED
      BY <1>3, <1>12, <3>1, <3>2, FontConstants
  <2> QED
    BY <1>10, <2>1, <2>2 DEF FreeRests
<1>16. NamesApart(t)
  <2>1. \A j, k \in Chain(c, c.list) \cup free : c.node[j].name = c.node[k].name => j = k
    BY DEF Cached, NamesApart
  <2>2. \A k \in {n} \cup list \cup free : /\ k \in Chain(c, c.list) \cup free
                                          /\ t.node[k].name = c.node[k].name
    BY <1>3, <1>4, <1>11, <1>12
  <2>3. list \cap ({n} \cup free) = {}
    BY <1>4
  <2> QED
    BY <1>9, <1>10, <2>1, <2>2, <2>3 DEF NamesApart
<1> QED
  BY <1>13, <1>14, <1>15, <1>16 DEF Cached, G

-----------------------------------------------------------------------------
(* The two functions.                                                      *)

\* As nothing sets prev, taking a node off a list gives the list behind it.
LEMMA Unhooking ==
  ASSUME NEW c, Shape(c), NEW n \in Node
  PROVE  /\ DOMAIN Unhooked(c, n, "free") = DOMAIN c
         /\ Unhooked(c, n, "free").node = c.node
         /\ Unhooked(c, n, "free").list = c.list
         /\ Unhooked(c, n, "free").head = c.node[n].next
         /\ Unhooked(c, n, "free").end = IF c.node[n].next = Nil THEN Nil ELSE c.end
         /\ DOMAIN Unhooked(c, n, "list") = DOMAIN c
         /\ Unhooked(c, n, "list").node = c.node
         /\ Unhooked(c, n, "list").list = c.node[n].next
         /\ Unhooked(c, n, "list").head = c.head
         /\ Unhooked(c, n, "list").end = c.end
<1> DEFINE r == c.node[n]
           after == IF r.next = Nil THEN c.node ELSE [c.node EXCEPT ![r.next].prev = r.prev]
<1>1. r.prev = Nil /\ r.next \in Node \cup {Nil}
  BY DEF Shape, FontNode
<1>2. after = c.node
  <2>1. CASE r.next = Nil
    BY <2>1
  <2>2. CASE r.next # Nil
    <3> DEFINE m == r.next
    <3>1. m \in Node /\ c.node[m] \in FontNode /\ c.node[m].prev = Nil
      BY <1>1, <2>2 DEF Shape, FontNode
    <3> HIDE DEF m
    <3>2. [c.node[m] EXCEPT !.prev = Nil] = c.node[m]
      BY <3>1 DEF FontNode
    <3>3. [c.node EXCEPT ![m] = c.node[m]] = c.node
      BY <3>1 DEF Shape
    <3>4. [c.node EXCEPT ![m].prev = Nil] = [c.node EXCEPT ![m] = [c.node[m] EXCEPT !.prev = Nil]]
      OBVIOUS
    <3> QED
      BY <1>1, <2>2, <3>2, <3>3, <3>4 DEF m
  <2> QED
    BY <2>1, <2>2
<1>3. Unhooked(c, n, "free") =
        [c EXCEPT !.node = after, !.head = r.next, !.end = IF r.next = Nil THEN Nil ELSE @]
  BY <1>1 DEF Unhooked
<1>4. Unhooked(c, n, "list") = [c EXCEPT !.node = after, !.list = r.next]
  BY <1>1 DEF Unhooked
<1> HIDE DEF after
<1> QED
  BY <1>2, <1>3, <1>4 DEF Shape

\* A name is found where it is: no list has it twice.
LEMMA FirstNamed ==
  ASSUME NEW c, NEW H, NEW main, NEW name, Cached(c, H, main, name),
         NEW n \in {c.list, c.head}, NEW f, Named(c, n, f) # {}
  PROVE  /\ First(c, n, f) \in Chain(c, n) /\ First(c, n, f) \in Node
         /\ c.node[First(c, n, f)].name = f
<1>1. Shape(c) /\ Linked(c) /\ n \in Node \cup {Nil}
  BY ShapeLinked DEF Cached, Shape
<1>2. Chain(c, n) \subseteq Node
  BY <1>1, ChainType
<1>3. PICK k \in Named(c, n, f) : TRUE
  OBVIOUS
<1>4. \A j \in Named(c, n, f) : j = k
  BY <1>3 DEF Named, Cached, NamesApart
<1>5. k \in Chain(c, k)
  BY <1>1, <1>2, <1>3, ChainClosed DEF Named
<1>6. First(c, n, f) \in Named(c, n, f)
  BY <1>3, <1>4, <1>5 DEF First
<1> QED
  BY <1>2, <1>6 DEF Named

\* The font is in use: it has one user more.
LEMMA CreateListed ==
  ASSUME NEW c, NEW H, NEW main, NEW name, Cached(c, H, main, name),
         NEW x, x \notin DOMAIN H, NEW n \in Chain(c, c.list)
  PROVE  Cached([c EXCEPT !.node[n].ref_cnt = @ + 1, !.got = n], With(H, x, n), main, name)
<1> DEFINE t == [c EXCEPT !.node[n].ref_cnt = @ + 1, !.got = n]
           r == [c.node[n] EXCEPT !.ref_cnt = @ + 1]
           G == With(H, x, n)
<1>1. Shape(c) /\ n \in Node
  BY ShapeLinked, ChainType DEF Cached, Shape
<1>2. c.node[n] \in FontNode /\ c.node[n].ref_cnt = Cardinality(Held(H, n))
  BY <1>1 DEF Cached, Shape, ListCounts
<1>3. /\ DOMAIN t = DOMAIN c /\ t.list = c.list /\ t.head = c.head /\ t.end = c.end
      /\ t.node = [c.node EXCEPT ![n] = r]
  BY <1>1 DEF Shape
<1> HIDE DEF t
<1>4. /\ r \in FontNode /\ r.name = c.node[n].name /\ r.next = c.node[n].next
      /\ r.open = c.node[n].open /\ r.ref_cnt = c.node[n].ref_cnt + 1
  BY <1>2 DEF FontNode
<1> HIDE DEF r
<1>5. Shape(t)
  BY <1>1, <1>3, <1>4 DEF Shape
<1>6. \A k \in Node : /\ t.node[k].next = c.node[k].next
                      /\ t.node[k].name = c.node[k].name
                      /\ t.node[k].open = c.node[k].open
                      /\ t.node[k].ref_cnt = IF k = n THEN c.node[k].ref_cnt + 1
                                             ELSE c.node[k].ref_cnt
  BY <1>1, <1>3, <1>4 DEF Shape
<1>7. IsFiniteSet(DOMAIN H) /\ main \in DOMAIN H
  BY DEF Cached, UsersHold
<1>8. /\ main \in DOMAIN G /\ G[main] = H[main]
      /\ \A h \in DOMAIN G : (h \in DOMAIN H /\ G[h] = H[h]) \/ G[h] = n
  BY <1>7 DEF With
<1> HIDE DEF G
<1>9. /\ IsFiniteSet(DOMAIN G)
      /\ \A m : Cardinality(Held(G, m)) =
                   IF m = n THEN Cardinality(Held(H, m)) + 1 ELSE Cardinality(Held(H, m))
  BY <1>7, HeldWith DEF G
<1>10. /\ t.node[n].ref_cnt = Cardinality(Held(G, n))
       /\ \A m \in Node \ {n} : Cardinality(Held(G, m)) = Cardinality(Held(H, m))
  BY <1>1, <1>2, <1>6, <1>9
<1>11. Recounts(c, H, n, t, G, main)
  <2>1. \A k \in Node : /\ t.node[k].next = c.node[k].next
                        /\ t.node[k].name = c.node[k].name
                        /\ t.node[k].open = c.node[k].open
                        /\ k # n => t.node[k].ref_cnt = c.node[k].ref_cnt
    BY <1>6
  <2> QED
    BY <1>3, <1>5, <1>8, <1>9, <1>10, <2>1 DEF Recounts
<1>12. Cached(t, G, main, name)
  BY <1>11, Counted
<1> QED
  BY <1>12 DEF t, G

\* The font is a free one: it comes back into use.
LEMMA CreateFreed ==
  ASSUME NEW c, NEW H, NEW main, NEW name, Cached(c, H, main, name),
         NEW x, x \notin DOMAIN H, NEW n \in Chain(c, c.head)
  PROVE  Cached(Push(Unhooked(c, n, "free"), n, [c.node[n] EXCEPT !.ref_cnt = @ + 1]),
                With(H, x, n), main, name)
<1> DEFINE u == Unhooked(c, n, "free")
           r == [c.node[n] EXCEPT !.ref_cnt = @ + 1]
           t == Push(u, n, r)
           q == [r EXCEPT !.next = c.list, !.prev = Nil]
<1>1. Shape(c) /\ Linked(c) /\ n \in Node /\ c.head \in Node
  BY ShapeLinked, ChainType, ChainNil DEF Cached, Shape
<1>2. /\ c.node[n] \in FontNode /\ c.node[n].ref_cnt = 0 /\ c.node[n].open
      /\ Held(H, n) = {} /\ n \notin Chain(c, c.node[n].next)
      /\ n \notin Chain(c, c.list)
  BY <1>1 DEF Cached, Shape, FreeRests, NamesApart
<1>3. /\ q \in FontNode /\ q.next = c.list /\ q.ref_cnt = 1 /\ q.open
      /\ q.name = c.node[n].name
  <2>1. r \in FontNode /\ r.ref_cnt = 1 /\ r.open /\ r.name = c.node[n].name
    BY <1>2 DEF FontNode
  <2> HIDE DEF r
  <2> QED
    BY <1>1, <2>1 DEF FontNode, Shape
<1>4. /\ DOMAIN u = DOMAIN c /\ u.node = c.node /\ u.list = c.list
      /\ u.head = c.node[n].next /\ u.end = IF c.node[n].next = Nil THEN Nil ELSE c.end
  BY <1>1, Unhooking
<1> HIDE DEF u, q, r
<1>5. t = [u EXCEPT !.node[n] = q, !.list = n, !.got = n]
  BY <1>4 DEF Push, q
<1>6. /\ DOMAIN t = DOMAIN c /\ t.list = n /\ t.head = u.head /\ t.end = u.end
      /\ t.node = [c.node EXCEPT ![n] = q]
  BY <1>1, <1>4, <1>5 DEF Shape
<1> HIDE DEF t
<1>7. Shape(t)
  BY <1>1, <1>3, <1>4, <1>6 DEF Shape, FontNode
<1>8. t.node[n] = q /\ \A k \in Node \ {n} : t.node[k] = c.node[k]
  BY <1>1, <1>6 DEF Shape
<1>9. c.node[n].next \in Chain(c, c.head) \cup {Nil}
  BY <1>1, ChainClosed
<1>10. (t.head = Nil) <=> (t.end = Nil)
  BY <1>1, <1>4, <1>6, ChainNil DEF Cached, FreeRests
<1>11. /\ t.end # Nil => t.end \in Chain(c, t.head) /\ c.node[t.end].next = Nil
       /\ \A k \in Chain(c, t.head) : t.end \in Chain(c, k)
  <2>1. CASE c.node[n].next = Nil
    BY <1>4, <1>6, <2>1, ChainNil
  <2>2. CASE c.node[n].next # Nil
    <3>1. c.end \in Chain(c, n) /\ c.node[c.end].next = Nil
      BY <1>1, FontConstants DEF Cached, FreeRests
    <3>2. Chain(c, n) = {n} \cup Chain(c, c.node[n].next)
      BY <1>1, ChainStep
    <3>3. Chain(c, c.node[n].next) \subseteq Chain(c, c.head)
      BY <1>1, ChainWithin
    <3>4. \A k \in Chain(c, c.head) : c.end \in Chain(c, k)
      BY DEF Cached, FreeRests
    <3> QED
      BY <1>4, <1>6, <2>2, <3>1, <3>2, <3>3, <3>4
  <2> QED
    BY <2>1, <2>2
<1>12. \A k \in Chain(c, c.list) \cup Chain(c, t.head) : c.node[k].name # t.node[n].name
  <2>1. Chain(c, c.node[n].next) \subseteq Chain(c, c.head) \ {n}
    BY <1>1, <1>2, ChainWithin
  <2> QED
    BY <1>2, <1>3, <1>4, <1>6, <1>8, <2>1 DEF Cached, NamesApart
<1>13. n \notin Chain(c, t.head)
  BY <1>2, <1>4, <1>6
<1>14. Takes(c, H, n, t)
  BY <1>1, <1>2, <1>3, <1>4, <1>6, <1>7, <1>8, <1>9, <1>10, <1>11, <1>12, <1>13 DEF Takes
<1>15. Cached(t, With(H, x, n), main, name)
  BY <1>14, TakenUp
<1> QED
  BY <1>15 DEF t, u, r

\* The end of the free list gives its node, and with it goes the free list.
LEMMA Evicted ==
  ASSUME NEW c, NEW H, NEW main, NEW name, Cached(c, H, main, name)
  PROVE  /\ Cached(Evict(c), H, main, name)
         /\ Evict(c).list = c.list /\ Evict(c).head = Nil /\ Evict(c).end = Nil
         /\ \A k \in Node : /\ Evict(c).node[k].next = c.node[k].next
                            /\ k # c.end => Evict(c).node[k] = c.node[k]
         /\ c.end # Nil => Held(H, c.end) = {} /\ c.end \in Node \ Chain(c, c.list)
<1> DEFINE e == Evict(c)
           n == c.end
           r == [c.node[n] EXCEPT !.open = FALSE, !.name = Nil]
<1>1. Shape(c) /\ Linked(c)
  BY ShapeLinked DEF Cached
<1>2. CASE n = Nil
  <2>1. e = c
    BY <1>2 DEF Evict
  <2>2. c.head = Nil
    BY <1>2 DEF Cached, FreeRests
  <2> QED
    BY <1>2, <2>1, <2>2
<1>3. CASE n # Nil
  <2>1. n \in Chain(c, c.head) /\ n \in Node /\ c.node[n].prev = Nil /\ c.node[n] \in FontNode
    BY <1>1, <1>3 DEF Cached, FreeRests, Shape, FontNode
  <2>2. e = [c EXCEPT !.end = Nil, !.head = Nil,
                      !.node = [c.node EXCEPT ![n].open = FALSE, ![n].name = Nil]]
    BY <1>3, <2>1 DEF Evict
  <2>3. [c.node EXCEPT ![n].open = FALSE, ![n].name = Nil] = [c.node EXCEPT ![n] = r]
    BY <1>1, <2>1 DEF Shape
  <2>4. /\ DOMAIN e = DOMAIN c /\ e.list = c.list /\ e.head = Nil /\ e.end = Nil
        /\ e.node = [c.node EXCEPT ![n] = r]
    BY <1>1, <2>2, <2>3 DEF Shape
  <2> HIDE DEF e
  <2>5. r \in FontNode /\ r.next = c.node[n].next /\ r.ref_cnt = c.node[n].ref_cnt
    BY <2>1 DEF FontNode
  <2> HIDE DEF r
  <2>6. Shape(e)
    BY <1>1, <2>1, <2>4, <2>5 DEF Shape
  <2>7. \A k \in Node : e.node[k].next = c.node[k].next /\ (k # n => e.node[k] = c.node[k])
    BY <1>1, <2>1, <2>4, <2>5 DEF Shape
  <2>8. \A m \in Node \cup {Nil} : Chain(e, m) = Chain(c, m) /\ Chain(c, m) \subseteq Node
    BY <1>1, <2>6, <2>7, SameLists, ChainType
  <2>9. Held(H, n) = {} /\ n \notin Chain(c, c.list)
    BY <2>1 DEF Cached, FreeRests, NamesApart
  <2>10. /\ c.list \in Node \cup {Nil} /\ \A k \in Node : c.node[k].next \in Node \cup {Nil}
         /\ Chain(e, e.list) = Chain(c, c.list) /\ Chain(e, e.head) = {}
    BY <1>1, <2>4, <2>8, ChainNil DEF Shape, Linked
  <2>11. \A k \in Chain(c, c.list) : k \in Node /\ e.node[k] = c.node[k]
    BY <2>7, <2>8, <2>9, <2>10
  <2>12. UsersHold(e, H, main, name)
    BY <2>7, <2>9, <2>10, <2>11 DEF Cached, UsersHold, Held
  <2>13. ListCounts(e, H, main)
    BY <2>8, <2>10, <2>11 DEF Cached, ListCounts
  <2>14. FreeRests(e, H)
    BY <2>4, <2>10 DEF FreeRests
  <2>15. NamesApart(e)
    BY <2>10, <2>11 DEF Cached, NamesApart
  <2>16. Cached(e, H, main, name)
    BY <2>6, <2>12, <2>13, <2>14, <2>15 DEF Cached
  <2> QED
    BY <2>1, <2>4, <2>7, <2>9, <2>16 DEF e
<1> QED
  BY <1>2, <1>3

\* The font is in no list: a node gets it, and the X server is asked.
LEMMA CreateNew ==
  ASSUME NEW c, NEW H, NEW main, NEW name, Cached(c, H, main, name),
         NEW x, x \notin DOMAIN H, NEW f, Named(c, c.list, f) = {},
         NEW t \in Create(c, f)
  PROVE  \/ f \notin Valid /\ t.got = Nil /\ Cached(t, H, main, name)
         \/ t.got \in Node /\ Cached(t, With(H, x, t.got), main, name)
<1> DEFINE e == Evict(c)
           fresh == [name |-> f, ref_cnt |-> 1, next |-> Nil, prev |-> Nil, open |-> TRUE]
           nodes == IF c.end # Nil THEN {c.end}
                    ELSE {n \in Node : c.node[n] = Unused /\ n \notin Chain(c, c.list)}
<1>1. Shape(c) /\ Linked(c) /\ Shape(e) /\ Linked(e) /\ Cached(e, H, main, name)
  BY Evicted, ShapeLinked DEF Cached
<1>2. /\ e.list = c.list /\ e.head = Nil /\ e.end = Nil
      /\ \A k \in Node : /\ e.node[k].next = c.node[k].next
                         /\ k # c.end => e.node[k] = c.node[k]
      /\ c.end # Nil => Held(H, c.end) = {} /\ c.end \in Node \ Chain(c, c.list)
  BY Evicted
<1> HIDE DEF e
<1>3. CASE f \notin Valid
  <2>1. t = [e EXCEPT !.got = Nil]
    BY <1>3 DEF Create, e
  <2>2. /\ DOMAIN t = DOMAIN e /\ t.got = Nil /\ t.node = e.node
        /\ t.list = e.list /\ t.head = e.head /\ t.end = e.end
    BY <1>1, <2>1 DEF Shape
  <2> HIDE DEF e
  <2>3. Cached(t, H, main, name)
    BY <1>1, <2>2, SameFonts
  <2> QED
    BY <1>3, <2>2, <2>3
<1>4. CASE f \in Valid
  <2> DEFINE n == CHOOSE k \in nodes : TRUE
             q == [fresh EXCEPT !.next = c.list, !.prev = Nil]
  <2>1. nodes # {} /\ t = Push(e, n, fresh)
    BY <1>4 DEF Create, e
  <2>2. n \in nodes
    BY <2>1
  <2> HIDE DEF n
  <2>3. n \in Node /\ n \notin Chain(c, c.list) /\ Held(H, n) = {}
    <3>1. CASE c.end # Nil
      BY <1>2, <2>2, <3>1
    <3>2. CASE c.end = Nil
      <4>1. n \in Node /\ n \notin Chain(c, c.list) /\ ~c.node[n].open
        BY <2>2, <3>2 DEF Unused
      <4> QED
        BY <4>1 DEF Cached, UsersHold, Held
    <3> QED
      BY <3>1, <3>2
  <2>4. /\ q \in FontNode /\ q.next = c.list /\ q.ref_cnt = 1 /\ q.open /\ q.name = f
    BY <1>1, <1>4, FontConstants DEF FontNode, Shape
  <2>5. t = [e EXCEPT !.node[n] = q, !.list = n, !.got = n]
    BY <1>2, <2>1 DEF Push
  <2> HIDE DEF q
  <2>6. /\ DOMAIN t = DOMAIN e /\ t.list = n /\ t.head = Nil /\ t.end = Nil /\ t.got = n
        /\ t.node = [e.node EXCEPT ![n] = q]
    BY <1>1, <1>2, <2>5 DEF Shape
  <2>7. Shape(t)
    BY <1>1, <2>3, <2>4, <2>6 DEF Shape
  <2>8. t.node[n] = q /\ \A k \in Node \ {n} : t.node[k] = e.node[k]
    BY <1>1, <2>3, <2>6 DEF Shape
  <2>9. Chain(e, e.list) = Chain(c, c.list) /\ Chain(c, c.list) \subseteq Node
    BY <1>1, <1>2, SameLists, ChainType DEF Shape
  <2>10. \A k \in Chain(c, c.list) : e.node[k].name # f
    <3>1. \A k \in Chain(c, c.list) : c.node[k].name # f
      BY DEF Named
    <3>2. \A k \in Chain(c, c.list) : k \in Node /\ k # c.end
      BY <1>2, <2>9, FontConstants
    <3> QED
      BY <1>2, <3>1, <3>2
  <2>11. Takes(e, H, n, t)
    BY <1>2, <2>3, <2>4, <2>6, <2>7, <2>8, <2>9, <2>10, ChainNil DEF Takes
  <2> QED
    BY <1>1, <2>3, <2>6, <2>11, TakenUp
<1> QED
  BY <1>3, <1>4

\* gui_create_fontset(): it answers with an open font that counts the user,
\* or with none, and the other users keep theirs.
LEMMA CreateCached ==
  ASSUME NEW c, NEW H, NEW main, NEW name, Cached(c, H, main, name),
         NEW x, x \notin DOMAIN H, NEW f, NEW t \in CreateFontset(c, f)
  PROVE  \/ f \notin Valid /\ t.got = Nil /\ Cached(t, H, main, name)
         \/ t.got \in Node /\ Cached(t, With(H, x, t.got), main, name)
<1>1. Shape(c)
  BY DEF Cached
<1>2. CASE Named(c, c.list, f) # {}
  <2> DEFINE n == First(c, c.list, f)
  <2>1. n \in Chain(c, c.list) /\ n \in Node
    BY <1>2, FirstNamed
  <2>2. t = [c EXCEPT !.node[n].ref_cnt = @ + 1, !.got = n]
    BY <1>2 DEF CreateFontset
  <2> HIDE DEF n
  <2>3. t.got = n
    BY <1>1, <2>2 DEF Shape
  <2>4. Cached(t, With(H, x, n), main, name)
    BY <2>1, <2>2, CreateListed
  <2> QED
    BY <2>1, <2>3, <2>4
<1>3. CASE Named(c, c.list, f) = {} /\ Named(c, c.head, f) # {}
  <2> DEFINE n == First(c, c.head, f)
             u == Unhooked(c, n, "free")
             r == [c.node[n] EXCEPT !.ref_cnt = @ + 1]
  <2>1. n \in Chain(c, c.head) /\ n \in Node
    BY <1>3, FirstNamed
  <2>2. t = Push(u, n, r)
    BY <1>3 DEF CreateFontset
  <2> HIDE DEF n
  <2>3. Cached(Push(u, n, r), With(H, x, n), main, name)
    BY <2>1, CreateFreed
  <2>4. "got" \in DOMAIN u
    BY <1>1, <2>1, Unhooking DEF Shape
  <2> HIDE DEF u, r
  <2>5. t.got = n
    BY <2>2, <2>4 DEF Push
  <2> QED
    BY <2>1, <2>2, <2>3, <2>5
<1>4. CASE Named(c, c.list, f) = {} /\ Named(c, c.head, f) = {}
  <2>1. t \in Create(c, f)
    BY <1>4 DEF CreateFontset
  <2> QED
    BY <1>4, <2>1, CreateNew
<1> QED
  BY <1>2, <1>3, <1>4

\* gui_free_fontset(): one user less, whether or not the font was lost.
LEMMA FreeCached ==
  ASSUME NEW c, NEW H, NEW main, NEW name, Cached(c, H, main, name),
         NEW x \in DOMAIN H, x # main
  PROVE  Cached(FreeFontset(c, H[x]), Without(H, x), main, name)
<1> DEFINE n == H[x]
           G == Without(H, x)
           r == [c.node[n] EXCEPT !.ref_cnt = @ - 1]
           counted == [c EXCEPT !.node[n].ref_cnt = @ - 1]
           out == Unhooked(counted, n, "list")
           freed == [out EXCEPT !.node[n].prev = Nil, !.node[n].next = c.head,
                                !.head = n, !.end = IF @ = Nil THEN n ELSE @]
<1>1. Shape(c) /\ n \in Node /\ main \in DOMAIN H
  BY DEF Cached, UsersHold
<1>2. c.node[n] \in FontNode
  BY <1>1 DEF Shape
<1>3. /\ DOMAIN G = DOMAIN H \ {x} /\ \A h \in DOMAIN G : G[h] = H[h]
      /\ \A m : m # n => Held(G, m) = Held(H, m)
  BY DEF Without, Held
<1>4. IsFiniteSet(DOMAIN H)
  BY DEF Cached, UsersHold
<1>5. /\ IsFiniteSet(DOMAIN G) /\ Cardinality(Held(H, n)) \in Nat /\ Cardinality(Held(H, n)) > 0
      /\ Cardinality(Held(G, n)) = Cardinality(Held(H, n)) - 1
  BY <1>4, HeldWithout
<1>6. FreeFontset(c, n) = IF n \notin Chain(c, c.list) THEN c
                          ELSE IF counted.node[n].ref_cnt > 0 THEN counted ELSE freed
  BY Zenon DEF FreeFontset
<1>7. CASE n \notin Chain(c, c.list)
  <2>1. FreeFontset(c, n) = c
    BY <1>6, <1>7
  <2> HIDE DEF G
  <2>2. UsersHold(c, G, main, name)
    BY <1>1, <1>3, <1>5 DEF Cached, UsersHold
  <2>3. ListCounts(c, G, main)
    BY <1>1, <1>3, <1>7 DEF Cached, ListCounts
  <2>4. FreeRests(c, G)
    <3>1. \A m : Held(G, m) \subseteq Held(H, m)
      BY <1>3 DEF Held
    <3> QED
      BY <3>1 DEF Cached, FreeRests
  <2> QED
    BY <2>1, <2>2, <2>3, <2>4 DEF Cached, G
<1>8. CASE n \in Chain(c, c.list)
  <2>1. c.node[n].ref_cnt = Cardinality(Held(H, n)) /\ c.node[n].open
    BY <1>8 DEF Cached, ListCounts
  <2>2. /\ DOMAIN counted = DOMAIN c /\ counted.list = c.list /\ counted.head = c.head
        /\ counted.end = c.end /\ counted.node = [c.node EXCEPT ![n] = r]
    BY <1>1 DEF Shape
  <2>3. /\ r \in FontNode /\ r.name = c.node[n].name /\ r.next = c.node[n].next
        /\ r.open = c.node[n].open /\ r.ref_cnt = c.node[n].ref_cnt - 1
    <3>1. c.node[n].ref_cnt \in Nat /\ c.node[n].ref_cnt > 0
      BY <1>5, <2>1
    <3> QED
      BY <1>2, <3>1 DEF FontNode
  <2> HIDE DEF r, counted, G
  <2>4. Shape(counted)
    BY <1>1, <2>2, <2>3 DEF Shape
  <2>5. counted.node[n] = r /\ \A k \in Node \ {n} : counted.node[k] = c.node[k]
    BY <1>1, <2>2 DEF Shape
  <2>6. CASE counted.node[n].ref_cnt > 0
    <3>1. Recounts(c, H, n, counted, G, main)
      <4>1. \A k \in Node : /\ counted.node[k].next = c.node[k].next
                            /\ counted.node[k].name = c.node[k].name
                            /\ counted.node[k].open = c.node[k].open
                            /\ k # n => counted.node[k].ref_cnt = c.node[k].ref_cnt
        BY <2>3, <2>5
      <4>2. counted.node[n].ref_cnt = Cardinality(Held(G, n))
        BY <1>5, <2>1, <2>3, <2>5
      <4> QED
        BY <1>1, <1>3, <1>5, <1>8, <2>2, <2>4, <4>1, <4>2 DEF Recounts
    <3>2. Cached(counted, G, main, name)
      BY <3>1, Counted
    <3> QED
      BY <1>6, <1>8, <2>6, <3>2 DEF G
  <2>7. CASE ~(counted.node[n].ref_cnt > 0)
    <3> DEFINE q == [r EXCEPT !.prev = Nil, !.next = c.head]
    <3>1. counted.node[n].ref_cnt = 0 /\ Cardinality(Held(G, n)) = 0
      BY <1>5, <2>1, <2>3, <2>5, <2>7
    <3>2. Held(G, n) = {}
      <4>1. IsFiniteSet(Held(G, n))
        BY <1>5, FS_Subset DEF Held
      <4> QED
        BY <3>1, <4>1, FS_EmptySet
    <3>3. /\ DOMAIN out = DOMAIN c /\ out.node = counted.node /\ out.list = r.next
          /\ out.head = c.head /\ out.end = c.end
      <4>1. /\ DOMAIN out = DOMAIN counted /\ out.node = counted.node
            /\ out.list = counted.node[n].next
            /\ out.head = counted.head /\ out.end = counted.end
        <5> HIDE DEF n
        <5> QED
          BY <1>1, <2>4, Unhooking
      <4> HIDE DEF out
      <4> QED
        BY <2>2, <2>5, <4>1
    <3> HIDE DEF out
    <3>4. q \in FontNode /\ q.next = c.head /\ q.open /\ q.ref_cnt = 0 /\ q.name = c.node[n].name
      BY <1>1, <2>1, <2>3, <2>5, <3>1 DEF Shape, FontNode
    <3>5. /\ DOMAIN freed = DOMAIN c /\ freed.list = r.next /\ freed.head = n
          /\ freed.end = IF c.end = Nil THEN n ELSE c.end
          /\ freed.node = [[out.node EXCEPT ![n].prev = Nil] EXCEPT ![n].next = c.head]
      BY <1>1, <3>3 DEF Shape
    <3>6. freed.node = [counted.node EXCEPT ![n] = q]
      BY <1>1, <2>4, <2>5, <3>3, <3>5 DEF Shape
    <3> HIDE DEF freed, q
    <3>7. Shape(freed)
      BY <1>1, <2>3, <2>4, <3>4, <3>5, <3>6 DEF Shape, FontNode
    <3>8. freed.node[n] = q /\ \A k \in Node \ {n} : freed.node[k] = c.node[k]
      BY <1>1, <2>4, <2>5, <3>6 DEF Shape
    <3>9. PutsAway(c, H, x, main, freed)
      BY <1>8, <2>3, <3>2, <3>4, <3>5, <3>7, <3>8 DEF PutsAway, G
    <3>10. Cached(freed, G, main, name)
      BY <3>9, PutAway DEF G
    <3> QED
      BY <1>6, <1>8, <2>7, <3>10 DEF G
  <2> QED
    BY <2>6, <2>7
<1> QED
  BY <1>7, <1>8

-----------------------------------------------------------------------------
(* The records.                                                            *)

\* What a handler works on has these fields.
Fields == {"list", "head", "end", "node", "got", "oc", "edx", "hint", "ic"}

\* The fonts are all that differs.
SameRecords(s, t) ==
    /\ DOMAIN t = Fields
    /\ t.oc = s.oc /\ t.edx = s.edx /\ t.hint = s.hint /\ t.ic = s.ic

\* Records in use, of different ICs, all of them below the bound.
Sound(s) ==
    /\ DOMAIN s = Fields
    /\ s.edx \in 0 .. MaxSlots
    /\ s.hint \in 0 .. MaxSlots
    /\ DOMAIN s.oc = Slots
    /\ \A k \in Slots : DOMAIN s.oc[k] = {"icid", "font"}
    /\ \A k \in Slots : s.oc[k].icid \in Id \cup {0}
    /\ \A k \in Slots : s.oc[k].icid \in Id =>
           /\ k < s.edx
           /\ \A h \in Slots : s.oc[h].icid = s.oc[k].icid => h = k

-----------------------------------------------------------------------------
(* The font cache and the records.                                         *)

\* Moving a node between the lists is none of the records' business.
LEMMA ListsKeep ==
  ASSUME NEW s, DOMAIN s = Fields, NEW n, NEW r, NEW front
  PROVE  /\ SameRecords(s, Push(s, n, r))
         /\ SameRecords(s, Unhooked(s, n, front))
         /\ SameRecords(s, Evict(s))
  BY DEF SameRecords, Fields, Push, Unhooked, Evict

\* Neither is the opening of a font,
LEMMA CreateKeeps ==
  ASSUME NEW s, DOMAIN s = Fields, NEW name
  PROVE  \A t \in CreateFontset(s, name) : SameRecords(s, t)
<1> SUFFICES ASSUME NEW t \in CreateFontset(s, name) PROVE SameRecords(s, t)
  OBVIOUS
<1>1. CASE Named(s, s.list, name) # {}
  BY <1>1 DEF CreateFontset, SameRecords, Fields
<1>2. CASE Named(s, s.list, name) = {} /\ Named(s, s.head, name) # {}
  <2> DEFINE n == First(s, s.head, name)
             u == Unhooked(s, n, "free")
  <2>1. t = Push(u, n, [s.node[n] EXCEPT !.ref_cnt = @ + 1])
    BY <1>2 DEF CreateFontset
  <2>2. SameRecords(s, u)
    BY ListsKeep
  <2>3. SameRecords(u, t)
    BY <2>1, <2>2, ListsKeep DEF SameRecords
  <2> QED
    BY <2>2, <2>3 DEF SameRecords
<1>3. CASE Named(s, s.list, name) = {} /\ Named(s, s.head, name) = {}
  <2> DEFINE e == Evict(s)
  <2>1. SameRecords(s, e)
    BY ListsKeep
  <2>2. t \in Create(s, name)
    BY <1>3 DEF CreateFontset
  <2>3. t = [e EXCEPT !.got = Nil] \/ \E n, r : t = Push(e, n, r)
    BY <2>2 DEF Create
  <2>4. CASE t = [e EXCEPT !.got = Nil]
    BY <2>1, <2>4 DEF SameRecords, Fields
  <2>5. CASE \E n, r : t = Push(e, n, r)
    <3>1. SameRecords(e, t)
      BY <2>1, <2>5, ListsKeep DEF SameRecords
    <3> QED
      BY <2>1, <3>1 DEF SameRecords
  <2> QED
    BY <2>3, <2>4, <2>5
<1> QED
  BY <1>1, <1>2, <1>3

\* or its being given back.
LEMMA FreeKeeps ==
  ASSUME NEW s, DOMAIN s = Fields, NEW n
  PROVE  SameRecords(s, FreeFontset(s, n))
<1> DEFINE counted == [s EXCEPT !.node[n].ref_cnt = @ - 1]
           out == Unhooked(counted, n, "list")
           freed == [out EXCEPT !.node[n].prev = Nil, !.node[n].next = s.head,
                                !.head = n, !.end = IF @ = Nil THEN n ELSE @]
<1>1. SameRecords(s, counted)
  BY DEF SameRecords, Fields
<1>2. SameRecords(counted, out)
  <2> HIDE DEF counted
  <2> QED
    BY <1>1, ListsKeep DEF SameRecords
<1>3. SameRecords(out, freed)
  BY <1>2 DEF SameRecords, Fields
<1>4. FreeFontset(s, n) = IF n \notin Chain(s, s.list) THEN s
                          ELSE IF counted.node[n].ref_cnt > 0 THEN counted ELSE freed
  BY Zenon DEF FreeFontset
<1> HIDE DEF counted, out, freed
<1> QED
  BY <1>1, <1>2, <1>3, <1>4 DEF SameRecords

\* So a record gets another font without any other change.
LEMMA UpdateKeeps ==
  ASSUME NEW s, DOMAIN s = Fields, NEW name
  PROVE  \A t \in UpdateFontset(s, name) : SameRecords(s, t)
<1> SUFFICES ASSUME NEW t \in UpdateFontset(s, name) PROVE SameRecords(s, t)
  OBVIOUS
<1>1. CASE name = Nil
  BY <1>1, CreateKeeps DEF UpdateFontset
<1>2. CASE name # Nil
  <2>1. PICK u \in CreateFontset(s, name) :
            t \in IF u.got = Nil THEN CreateFontset(u, overspot_font) ELSE {u}
    BY <1>2 DEF UpdateFontset
  <2>2. SameRecords(s, u)
    BY CreateKeeps
  <2>3. t = u \/ SameRecords(u, t)
    BY <2>1, <2>2, CreateKeeps DEF SameRecords
  <2> QED
    BY <2>2, <2>3 DEF SameRecords
<1> QED
  BY <1>1, <1>2

-----------------------------------------------------------------------------
(* The records.                                                            *)

\* Only the records that stay matter: another font or another node is no
\* other record.
LEMMA SameRecordsSound ==
  ASSUME NEW s, NEW t, Sound(s), SameRecords(s, t)
  PROVE  Sound(t)
  BY DEF Sound, SameRecords

\* A set of slots that is not empty has a first one.
LEMMA FirstSlot ==
  ASSUME NEW T \in SUBSET Nat, T # {}
  PROVE  \E k \in T : \A h \in T : k <= h
<1> DEFINE R == OpToRel(<, Nat)
<1>1. PICK k \in T : \A h \in T : <<h, k>> \notin R
  <2> HIDE DEF R
  <2>1. IsWellFoundedOn(R, Nat)
    BY NatLessThanWellFounded DEF R
  <2> QED
    BY <2>1, WFMin
<1>2. \A h \in T : ~(h < k)
  BY <1>1 DEF OpToRel
<1> QED
  BY <1>2

\* search_struct_oc() finds the record of an IC wherever it is, and none if
\* there is none.
LEMMA SearchFinds ==
  ASSUME NEW s, Sound(s), NEW i \in Nat \ {0}
  PROVE  \/ Search(s, i) = None /\ \A k \in Slots : s.oc[k].icid # i
         \/ /\ Search(s, i) \in Slots
            /\ Search(s, i) < s.edx
            /\ s.oc[Search(s, i)].icid = i
            /\ i \in Id
<1> DEFINE hits == {k \in Slots : k < s.edx /\ s.oc[k].icid = i}
<1>0. \A k \in Slots : s.oc[k].icid = i => i \in Id /\ k \in hits
  BY DEF Sound
<1>1. CASE s.hint < MaxSlots /\ s.oc[s.hint].icid = i
  <2>1. s.hint \in Slots
    BY <1>1, OverspotConstants DEF Sound, Slots
  <2>2. Search(s, i) = s.hint
    BY <1>1 DEF Search
  <2> QED
    BY <1>0, <1>1, <2>1, <2>2
<1>2. CASE ~(s.hint < MaxSlots /\ s.oc[s.hint].icid = i)
  <2>1. CASE hits = {}
    <3>1. Search(s, i) = None
      BY <1>2, <2>1 DEF Search
    <3> QED
      BY <1>0, <2>1, <3>1
  <2>2. CASE hits # {}
    <3>1. Search(s, i) = CHOOSE k \in hits : \A h \in hits : k <= h
      BY <1>2, <2>2 DEF Search
    <3>2. hits \in SUBSET Nat
      BY OverspotConstants DEF Slots
    <3>3. Search(s, i) \in hits
      <4> HIDE DEF hits
      <4>1. \E k \in hits : \A h \in hits : k <= h
        BY <2>2, <3>2, FirstSlot
      <4> QED
        BY <3>1, <4>1
    <3> QED
      BY <1>0, <3>3
  <2> QED
    BY <2>1, <2>2
<1> QED
  BY <1>1, <1>2

\* The place it remembers is a place,
LEMMA SearchedSound ==
  ASSUME NEW s, Sound(s), NEW i \in Nat \ {0}
  PROVE  /\ Sound(Searched(s, i))
         /\ Searched(s, i).oc = s.oc
         /\ Searched(s, i).edx = s.edx
<1>1. Search(s, i) = None \/ Search(s, i) \in Slots
  BY SearchFinds
<1>2. (IF Search(s, i) = None THEN 0 ELSE Search(s, i)) \in 0 .. MaxSlots
  BY <1>1, OverspotConstants DEF Slots
<1> QED
  BY <1>2 DEF Searched, Sound, Fields

\* and the record that goes is the IC's: the others stay below oc_edx, which
\* shrinks by the last record only.
LEMMA DeleteSound ==
  ASSUME NEW s, Sound(s), NEW i \in Nat \ {0}
  PROVE  /\ Sound(DeleteClient(s, i))
         /\ DOMAIN DeleteClient(s, i) = Fields
         /\ \A k \in Slots : /\ DeleteClient(s, i).oc[k].icid # i
                             /\ DeleteClient(s, i).oc[k].icid \in {0, s.oc[k].icid}
         /\ DeleteClient(s, i).edx \in {s.edx, s.edx - 1}
         /\ DeleteClient(s, i).edx = s.edx - 1 => s.oc[s.edx - 1].icid = i /\ s.edx > 1
<1> DEFINE k == Search(s, i)
           r == Searched(s, i)
           f == FreeFontset(r, r.oc[k].font)
           d == [f EXCEPT !.edx = IF k = @ - 1 /\ @ > 1 THEN @ - 1 ELSE @, !.oc[k].icid = 0]
<1>1. Sound(r) /\ r.oc = s.oc /\ r.edx = s.edx
  BY SearchedSound
<1>2. CASE k = None
  <2>1. DeleteClient(s, i) = r
    BY <1>2 DEF DeleteClient
  <2>2. \A h \in Slots : s.oc[h].icid # i
    BY <1>2, SearchFinds DEF None, Slots, Sound
  <2> QED
    BY <1>1, <2>1, <2>2 DEF Sound
<1>3. CASE k # None
  <2>1. k \in Slots /\ k < s.edx /\ s.oc[k].icid = i /\ i \in Id
    BY <1>3, SearchFinds
  <2>2. Sound(f) /\ f.oc = s.oc /\ f.edx = s.edx
    <3>1. SameRecords(r, f)
      BY <1>1, FreeKeeps DEF Sound
    <3> QED
      BY <1>1, <3>1, SameRecordsSound DEF SameRecords
  <2>3. DeleteClient(s, i) = d
    BY <1>3 DEF DeleteClient
  <2> HIDE DEF k, f
  <2>4. /\ DOMAIN d = Fields /\ d.hint = f.hint
        /\ d.edx = IF k = f.edx - 1 /\ f.edx > 1 THEN f.edx - 1 ELSE f.edx
        /\ d.oc = [f.oc EXCEPT ![k].icid = 0]
    BY <2>2 DEF Sound, Fields
  <2> HIDE DEF d
  <2>5. /\ DOMAIN d.oc = Slots
        /\ \A h \in Slots : /\ DOMAIN d.oc[h] = {"icid", "font"}
                            /\ d.oc[h].icid = IF h = k THEN 0 ELSE f.oc[h].icid
    BY <2>1, <2>2, <2>4 DEF Sound
  <2>6. /\ d.edx \in {s.edx, s.edx - 1}
        /\ d.edx = s.edx - 1 => k = s.edx - 1 /\ s.edx > 1
    BY <2>2, <2>4 DEF Sound
  <2>7. \A h \in Slots : d.oc[h].icid # i
    BY <2>1, <2>2, <2>5 DEF Sound
  <2>8. Sound(d)
    <3>1. d.edx \in 0 .. MaxSlots /\ d.hint \in 0 .. MaxSlots
      BY <2>2, <2>4, OverspotConstants DEF Sound
    <3>2. ASSUME NEW h \in Slots, d.oc[h].icid \in Id
          PROVE  h < d.edx /\ \A j \in Slots : d.oc[j].icid = d.oc[h].icid => j = h
      <4>1. h # k /\ f.oc[h].icid \in Id
        BY <2>5, <3>2, OverspotConstants
      <4>2. h < f.edx /\ \A j \in Slots : f.oc[j].icid = f.oc[h].icid => j = h
        BY <2>2, <4>1 DEF Sound
      <4>3. h < d.edx
        BY <2>1, <2>2, <2>6, <4>1, <4>2, OverspotConstants DEF Sound, Slots
      <4> QED
        BY <2>5, <4>1, <4>2, <4>3, <3>2, OverspotConstants
    <3> QED
      BY <2>2, <2>4, <2>5, <3>1, <3>2 DEF Sound
  <2> QED
    BY <2>1, <2>2, <2>3, <2>4, <2>5, <2>6, <2>7, <2>8
<1> QED
  BY <1>2, <1>3

\* The record that overspot_register_ic() takes is free.
LEMMA FreeSlotFree ==
  ASSUME NEW s, Sound(s), FreeSlot(s) # MaxSlots
  PROVE  /\ FreeSlot(s) \in Slots /\ s.oc[FreeSlot(s)].icid = 0
         /\ FreeSlot(s) = s.edx \/ FreeSlot(s) < s.edx
<1> DEFINE free == {h \in Slots : h < s.edx /\ s.oc[h].icid = 0}
           k == FreeSlot(s)
<1>1. CASE free = {}
  <2>1. k = s.edx
    BY <1>1 DEF FreeSlot
  <2> QED
    BY <2>1, OverspotConstants DEF Sound, Slots
<1>2. CASE free # {}
  <2>1. k = CHOOSE h \in free : \A j \in free : h <= j
    BY <1>2 DEF FreeSlot
  <2>2. free \in SUBSET Nat
    BY OverspotConstants DEF Slots
  <2>3. k \in free
    <3> HIDE DEF free, k
    <3>1. \E h \in free : \A j \in free : h <= j
      BY <1>2, <2>2, FirstSlot
    <3> QED
      BY <2>1, <3>1
  <2> QED
    BY <2>3
<1> QED
  BY <1>1, <1>2

\* overspot_register_ic() adds the record that was missing, and takes no other.
LEMMA RegisterSound ==
  ASSUME NEW s, Sound(s), NEW i \in Id, \A k \in Slots : s.oc[k].icid # i
  PROVE  \A t \in Register(s, i) : Sound(t)
<1> DEFINE k == FreeSlot(s)
           grown == [s EXCEPT !.edx = IF k = @ THEN @ + 1 ELSE @]
           clear == IF s.oc[k] = NULL THEN grown ELSE DeleteClient(grown, k + 1)
<1> SUFFICES ASSUME NEW t \in Register(s, i) PROVE Sound(t)
  OBVIOUS
<1>1. k # MaxSlots /\ \E u \in UpdateFontset(clear, s.ic[i].font) :
                          t = [u EXCEPT !.oc[k] = [icid |-> i, font |-> u.got]]
  BY DEF Register
<1>2. k = s.edx \/ k < s.edx
  BY <1>1, FreeSlotFree
<1>3. k \in Slots /\ s.oc[k].icid = 0
  BY <1>1, FreeSlotFree
<1> HIDE DEF k
<1>4. /\ Sound(grown) /\ grown.oc = s.oc /\ k < grown.edx
      /\ k = grown.edx - 1 \/ k < grown.edx - 1
  <2>1. grown.oc = s.oc /\ grown.hint = s.hint /\ DOMAIN grown = Fields
    BY DEF Sound, Fields
  <2>2. grown.edx = IF k = s.edx THEN s.edx + 1 ELSE s.edx
    BY DEF Sound, Fields
  <2> HIDE DEF grown
  <2>3. grown.edx \in 0 .. MaxSlots /\ grown.edx >= s.edx /\ k < grown.edx
    BY <1>2, <1>3, <2>2, OverspotConstants DEF Sound, Slots
  <2> QED
    BY <1>3, <2>1, <2>3, OverspotConstants DEF Sound, Slots
<1> HIDE DEF grown
<1>5. /\ Sound(clear) /\ k < clear.edx
      /\ \A h \in Slots : clear.oc[h].icid # i
  <2>1. CASE s.oc[k] = NULL
    BY <1>4, <2>1
  <2>2. CASE s.oc[k] # NULL
    <3> DEFINE d == DeleteClient(grown, k + 1)
    <3>1. k + 1 \in Nat \ {0}
      BY <1>3, OverspotConstants DEF Slots
    <3>2. /\ Sound(d)
          /\ \A h \in Slots : d.oc[h].icid \in {0, grown.oc[h].icid}
          /\ d.edx \in {grown.edx, grown.edx - 1}
          /\ d.edx = grown.edx - 1 => grown.oc[grown.edx - 1].icid = k + 1
      BY <1>4, <3>1, DeleteSound
    <3> HIDE DEF d
    <3>3. clear = d
      BY <2>2 DEF d
    <3>4. k < d.edx
      BY <1>3, <1>4, <3>1, <3>2, OverspotConstants DEF Sound, Slots
    <3>5. \A h \in Slots : d.oc[h].icid # i
      BY <1>4, <3>2, OverspotConstants
    <3> QED
      BY <3>2, <3>3, <3>4, <3>5
  <2> QED
    BY <2>1, <2>2
<1> HIDE DEF clear
<1>6. PICK u : /\ SameRecords(clear, u)
               /\ t = [u EXCEPT !.oc[k] = [icid |-> i, font |-> u.got]]
  BY <1>1, <1>5, UpdateKeeps DEF Sound
<1>7. Sound(u) /\ k < u.edx /\ \A h \in Slots : u.oc[h].icid # i
  BY <1>5, <1>6, SameRecordsSound DEF SameRecords
<1>8. /\ DOMAIN t = Fields /\ t.edx = u.edx /\ t.hint = u.hint
      /\ t.oc = [u.oc EXCEPT ![k] = [icid |-> i, font |-> u.got]]
  BY <1>6, <1>7 DEF Sound, Fields
<1>9. /\ DOMAIN t.oc = Slots
      /\ \A h \in Slots : /\ DOMAIN t.oc[h] = {"icid", "font"}
                          /\ t.oc[h].icid = IF h = k THEN i ELSE u.oc[h].icid
  BY <1>3, <1>7, <1>8 DEF Sound
<1> QED
  BY <1>7, <1>8, <1>9 DEF Sound

\* overspot_check_ic() gives a record another font.
LEMMA CheckSound ==
  ASSUME NEW s, Sound(s), NEW i \in Id
  PROVE  \A t \in CheckIC(s, i) : Sound(t)
<1> DEFINE k == Search(s, i)
           seen == [s EXCEPT !.ic[i].update = FALSE]
           f == FreeFontset(seen, s.oc[k].font)
<1> SUFFICES ASSUME NEW t \in CheckIC(s, i), t # s PROVE Sound(t)
  OBVIOUS
<1>1. \E u \in UpdateFontset(f, s.ic[i].font) : t = [u EXCEPT !.oc[k].font = u.got]
  BY DEF CheckIC
<1>2. Sound(seen)
  BY DEF Sound, Fields
<1> HIDE DEF seen, k
<1>3. Sound(f)
  <2>1. SameRecords(seen, f)
    BY <1>2, FreeKeeps DEF Sound
  <2> QED
    BY <1>2, <2>1, SameRecordsSound
<1> HIDE DEF f
<1>4. PICK u : Sound(u) /\ t = [u EXCEPT !.oc[k].font = u.got]
  <2>1. \A u \in UpdateFontset(f, s.ic[i].font) : SameRecords(f, u)
    BY <1>3, UpdateKeeps DEF Sound
  <2> QED
    BY <1>1, <1>3, <2>1, SameRecordsSound
<1>5. /\ DOMAIN t = Fields /\ t.edx = u.edx /\ t.hint = u.hint
      /\ t.oc = [u.oc EXCEPT ![k].font = u.got]
  BY <1>4 DEF Sound, Fields
<1>6. /\ DOMAIN t.oc = Slots
      /\ \A h \in Slots : /\ DOMAIN t.oc[h] = {"icid", "font"}
                          /\ t.oc[h].icid = u.oc[h].icid
  BY <1>4, <1>5 DEF Sound
<1> QED
  BY <1>4, <1>5, <1>6 DEF Sound

-----------------------------------------------------------------------------
(* The fonts of the records.  The main window, in the place None, holds the *)
(* font of the rcfile.                                                     *)
MainFont == CHOOSE n \in Node : TRUE
Holders(o) ==
    [h \in {k \in Slots : o[k].icid \in Id} \cup {None} |->
        IF h = None THEN MainFont ELSE o[h].font]
Accounted(s) == Cached(s, Holders(s.oc), None, overspot_font)

Good(s) == Sound(s) /\ Accounted(s)

\* None is not the place of a record.
LEMMA NoneIsNoSlot == None \notin Slots
  BY OverspotConstants DEF None, Slots

\* update_IC_fontset() always comes back with a font.
LEMMA UpdateFonts ==
  ASSUME NEW s, NEW H, Cached(s, H, None, overspot_font), NEW x, x \notin DOMAIN H,
         NEW name, NEW t \in UpdateFontset(s, name)
  PROVE  Cached(t, With(H, x, t.got), None, overspot_font)
<1>1. overspot_font \in Valid
  BY OverspotConstants
<1>2. CASE name = Nil
  <2>1. t \in CreateFontset(s, overspot_font)
    BY <1>2 DEF UpdateFontset
  <2> QED
    BY <1>1, <2>1, CreateCached
<1>3. CASE name # Nil
  <2>1. PICK u \in CreateFontset(s, name) :
            t \in IF u.got = Nil THEN CreateFontset(u, overspot_font) ELSE {u}
    BY <1>3 DEF UpdateFontset
  <2>2. \/ u.got = Nil /\ Cached(u, H, None, overspot_font)
        \/ u.got \in Node /\ Cached(u, With(H, x, u.got), None, overspot_font)
    BY CreateCached
  <2>3. CASE u.got = Nil
    <3>1. t \in CreateFontset(u, overspot_font) /\ Cached(u, H, None, overspot_font)
      BY <2>1, <2>2, <2>3, FontConstants
    <3> QED
      BY <1>1, <3>1, CreateCached
  <2>4. CASE u.got # Nil
    BY <2>1, <2>2, <2>4
  <2> QED
    BY <2>3, <2>4
<1> QED
  BY <1>2, <1>3

\* The place of the last search is not the fonts' business.
LEMMA SearchedGood ==
  ASSUME NEW s, Good(s), NEW i \in Nat \ {0}
  PROVE  Good(Searched(s, i)) /\ Searched(s, i).oc = s.oc
<1> DEFINE r == Searched(s, i)
<1>1. Sound(r) /\ r.oc = s.oc
  BY SearchedSound DEF Good
<1>2. /\ DOMAIN r = DOMAIN s /\ r.node = s.node
      /\ r.list = s.list /\ r.head = s.head /\ r.end = s.end
  BY DEF Good, Sound, Searched, Fields
<1> HIDE DEF r
<1>3. Cached(r, Holders(s.oc), None, overspot_font)
  BY <1>2, SameFonts DEF Good, Accounted
<1>4. Good(r)
  BY <1>1, <1>3 DEF Good, Accounted
<1> QED
  BY <1>1, <1>4 DEF r

\* gui_overspot_delete_client() gives the font of the record back.
LEMMA DeleteGood ==
  ASSUME NEW s, Good(s), NEW i \in Nat \ {0}
  PROVE  Good(DeleteClient(s, i))
<1> DEFINE k == Search(s, i)
           r == Searched(s, i)
           f == FreeFontset(r, r.oc[k].font)
           d == [f EXCEPT !.edx = IF k = @ - 1 /\ @ > 1 THEN @ - 1 ELSE @, !.oc[k].icid = 0]
           H == Holders(s.oc)
<1>1. Sound(DeleteClient(s, i)) /\ Good(r) /\ r.oc = s.oc
  BY SearchedGood, DeleteSound DEF Good
<1>2. CASE k = None
  BY <1>1, <1>2 DEF DeleteClient
<1>3. CASE k # None
  <2>1. k \in Slots /\ s.oc[k].icid = i /\ i \in Id
    BY <1>3, SearchFinds DEF Good
  <2>2. /\ k \in DOMAIN H /\ k # None /\ H[k] = r.oc[k].font
        /\ Cached(r, H, None, overspot_font)
    BY <1>1, <2>1, NoneIsNoSlot DEF Holders, Good, Accounted
  <2>3. SameRecords(r, f)
    BY <1>1, FreeKeeps DEF Good, Sound
  <2>4. DeleteClient(s, i) = d
    BY <1>3 DEF DeleteClient
  <2>5. Cached(f, Without(H, k), None, overspot_font)
    <3> HIDE DEF H, r, k
    <3> QED
      BY <2>2, FreeCached DEF f
  <2> HIDE DEF f, k, r
  <2>6. /\ DOMAIN d = DOMAIN f /\ d.node = f.node /\ d.oc = [s.oc EXCEPT ![k].icid = 0]
        /\ d.list = f.list /\ d.head = f.head /\ d.end = f.end
    BY <1>1, <2>3 DEF SameRecords, Fields
  <2> HIDE DEF d
  <2>7. Cached(d, Without(H, k), None, overspot_font)
    <3> HIDE DEF H
    <3> QED
      BY <2>5, <2>6, SameFonts
  <2>8. Without(H, k) = Holders(d.oc)
    <3>1. /\ DOMAIN d.oc = Slots
          /\ \A h \in Slots : /\ d.oc[h].font = s.oc[h].font
                              /\ d.oc[h].icid = IF h = k THEN 0 ELSE s.oc[h].icid
      BY <2>1, <2>6 DEF Good, Sound
    <3>2. 0 \notin Id
      BY OverspotConstants
    <3> QED
      BY <2>1, <3>1, <3>2, NoneIsNoSlot DEF Without, Holders
  <2>9. Good(d)
    BY <1>1, <2>4, <2>7, <2>8 DEF Good, Accounted
  <2> QED
    BY <2>4, <2>9
<1> QED
  BY <1>2, <1>3

\* overspot_register_ic() takes a font for the record.
LEMMA RegisterGood ==
  ASSUME NEW s, Good(s), NEW i \in Id, \A k \in Slots : s.oc[k].icid # i
  PROVE  \A t \in Register(s, i) : Good(t) /\ \E k \in Slots : t.oc[k].icid = i
<1> DEFINE k == FreeSlot(s)
           grown == [s EXCEPT !.edx = IF k = @ THEN @ + 1 ELSE @]
           clear == IF s.oc[k] = NULL THEN grown ELSE DeleteClient(grown, k + 1)
<1> SUFFICES ASSUME NEW t \in Register(s, i)
             PROVE  Good(t) /\ \E h \in Slots : t.oc[h].icid = i
  OBVIOUS
<1>1. Sound(t)
  BY RegisterSound DEF Good
<1>2. k # MaxSlots /\ \E u \in UpdateFontset(clear, s.ic[i].font) :
                          t = [u EXCEPT !.oc[k] = [icid |-> i, font |-> u.got]]
  BY DEF Register
<1>3. k \in Slots /\ s.oc[k].icid = 0 /\ (k = s.edx \/ k < s.edx)
  BY <1>2, FreeSlotFree DEF Good
<1> HIDE DEF k
<1>4. Good(grown) /\ grown.oc = s.oc
  <2>1. /\ DOMAIN grown = DOMAIN s /\ grown.node = s.node /\ grown.oc = s.oc
        /\ grown.list = s.list /\ grown.head = s.head /\ grown.end = s.end
        /\ grown.hint = s.hint /\ grown.edx = IF k = s.edx THEN s.edx + 1 ELSE s.edx
    BY DEF Good, Sound, Fields
  <2> HIDE DEF grown
  <2>2. grown.edx \in 0 .. MaxSlots /\ grown.edx >= s.edx
    BY <1>3, <2>1, OverspotConstants DEF Good, Sound, Slots
  <2>3. Sound(grown)
    BY <2>1, <2>2, OverspotConstants DEF Good, Sound, Slots
  <2>4. Cached(grown, Holders(s.oc), None, overspot_font)
    BY <2>1, SameFonts DEF Good, Accounted
  <2> QED
    BY <2>1, <2>3, <2>4 DEF Good, Accounted
<1> HIDE DEF grown
<1>5. Good(clear) /\ clear.oc[k].icid = 0
  <2>1. k + 1 \in Nat \ {0}
    BY <1>3, OverspotConstants DEF Slots
  <2>2. CASE s.oc[k] = NULL
    BY <1>3, <1>4, <2>2
  <2>3. CASE s.oc[k] # NULL
    <3>1. Good(DeleteClient(grown, k + 1))
      BY <1>4, <2>1, DeleteGood
    <3>2. DeleteClient(grown, k + 1).oc[k].icid \in {0, grown.oc[k].icid}
      BY <1>3, <1>4, <2>1, DeleteSound DEF Good
    <3> QED
      BY <1>3, <1>4, <2>3, <3>1, <3>2
  <2> QED
    BY <2>2, <2>3
<1> HIDE DEF clear
<1> DEFINE H == Holders(clear.oc)
<1>6. k \notin DOMAIN H
  BY <1>3, <1>5, NoneIsNoSlot, OverspotConstants DEF Holders
<1>7. PICK u \in UpdateFontset(clear, s.ic[i].font) :
            t = [u EXCEPT !.oc[k] = [icid |-> i, font |-> u.got]]
  BY <1>2
<1>8. SameRecords(clear, u)
  BY <1>5, UpdateKeeps DEF Good, Sound
<1>9. Cached(u, With(H, k, u.got), None, overspot_font)
  <2> HIDE DEF H
  <2> QED
    BY <1>5, <1>6, <1>7, UpdateFonts DEF Good, Accounted, H
<1>10. /\ DOMAIN t = DOMAIN u /\ t.node = u.node
       /\ t.list = u.list /\ t.head = u.head /\ t.end = u.end
       /\ t.oc = [clear.oc EXCEPT ![k] = [icid |-> i, font |-> u.got]]
  BY <1>7, <1>8 DEF SameRecords, Fields
<1>11. Cached(t, With(H, k, u.got), None, overspot_font)
  <2> HIDE DEF H
  <2> QED
    BY <1>9, <1>10, SameFonts
<1>12. /\ DOMAIN clear.oc = Slots
       /\ \A h \in Slots : t.oc[h] = IF h = k THEN [icid |-> i, font |-> u.got]
                                     ELSE clear.oc[h]
  BY <1>3, <1>5, <1>10 DEF Good, Sound
<1>13. With(H, k, u.got) = Holders(t.oc)
  BY <1>3, <1>12, NoneIsNoSlot DEF With, Holders
<1>14. t.oc[k].icid = i
  BY <1>3, <1>12
<1> QED
  BY <1>1, <1>3, <1>11, <1>13, <1>14 DEF Good, Accounted

\* overspot_check_ic() changes the font of the record.
LEMMA CheckGood ==
  ASSUME NEW s, Good(s), NEW i \in Id, \E k \in Slots : s.oc[k].icid = i
  PROVE  \A t \in CheckIC(s, i) : Good(t)
<1> DEFINE k == Search(s, i)
           seen == [s EXCEPT !.ic[i].update = FALSE]
           f == FreeFontset(seen, s.oc[k].font)
           H == Holders(s.oc)
           G == Without(H, k)
<1> SUFFICES ASSUME NEW t \in CheckIC(s, i), t # s PROVE Good(t)
  OBVIOUS
<1>1. Sound(t)
  BY CheckSound DEF Good
<1>2. k \in Slots /\ s.oc[k].icid = i
  BY SearchFinds, OverspotConstants DEF Good
<1>3. PICK u \in UpdateFontset(f, s.ic[i].font) : t = [u EXCEPT !.oc[k].font = u.got]
  BY DEF CheckIC
<1> HIDE DEF k
<1>4. /\ DOMAIN seen = DOMAIN s /\ seen.node = s.node /\ seen.oc = s.oc
      /\ seen.list = s.list /\ seen.head = s.head /\ seen.end = s.end
  BY DEF Good, Sound, Fields
<1> HIDE DEF seen
<1>5. k \in DOMAIN H /\ k # None /\ H[k] = s.oc[k].font
  BY <1>2, NoneIsNoSlot DEF Holders
<1> HIDE DEF H
<1>6. Cached(seen, H, None, overspot_font)
  BY <1>4, SameFonts DEF Good, Accounted, H
<1>7. Cached(f, G, None, overspot_font)
  BY <1>5, <1>6, FreeCached
<1>8. SameRecords(seen, f)
  BY <1>4, FreeKeeps DEF Good, Sound
<1> HIDE DEF f
<1>9. SameRecords(f, u)
  BY <1>3, <1>8, UpdateKeeps DEF SameRecords
<1>10. k \notin DOMAIN G
  BY DEF Without
<1> HIDE DEF G
<1>11. Cached(u, With(G, k, u.got), None, overspot_font)
  BY <1>3, <1>7, <1>10, UpdateFonts
<1>12. /\ DOMAIN t = DOMAIN u /\ t.node = u.node
       /\ t.list = u.list /\ t.head = u.head /\ t.end = u.end
       /\ t.oc = [s.oc EXCEPT ![k].font = u.got]
  BY <1>3, <1>4, <1>8, <1>9 DEF SameRecords, Fields
<1>13. Cached(t, With(G, k, u.got), None, overspot_font)
  BY <1>11, <1>12, SameFonts
<1>14. \A h \in Slots : /\ t.oc[h].icid = s.oc[h].icid
                        /\ t.oc[h].font = IF h = k THEN u.got ELSE s.oc[h].font
  BY <1>2, <1>12 DEF Good, Sound
<1>15. With(G, k, u.got) = Holders(t.oc)
  BY <1>2, <1>14, NoneIsNoSlot DEF With, Without, Holders, G, H
<1> QED
  BY <1>1, <1>13, <1>15 DEF Good, Accounted

-----------------------------------------------------------------------------
(* The actions.                                                            *)
Inv == Good(World)

\* What a handler leaves is what the next state holds.
LEMMA SameWorld ==
  ASSUME NEW s, Good(s), NEW t, DOMAIN t = Fields,
         t.list = s.list, t.head = s.head, t.end = s.end, t.node = s.node,
         t.oc = s.oc, t.edx = s.edx, t.hint = s.hint
  PROVE  Good(t)
<1>1. Sound(t) /\ DOMAIN s = Fields
  BY DEF Good, Sound
<1>2. Cached(t, Holders(s.oc), None, overspot_font)
  BY <1>1, SameFonts DEF Good, Accounted
<1> QED
  BY <1>1, <1>2 DEF Good, Accounted

\* A sound record that becomes the state keeps the invariant.
LEMMA BecomesGood ==
  ASSUME NEW s, Good(s), Becomes(s)
  PROVE  Inv'
<1>1. /\ DOMAIN World' = Fields
      /\ World'.list = s.list /\ World'.head = s.head /\ World'.end = s.end
      /\ World'.node = s.node /\ World'.oc = s.oc /\ World'.edx = s.edx
      /\ World'.hint = s.hint
  BY DEF Becomes, FontsAre, World, Fields
<1>2. Good(World')
  BY <1>1, SameWorld
<1> QED
  BY <1>2 DEF Inv

\* The handlers that change the ICs only.
LEMMA RecordsUntouched ==
  ASSUME Inv, UNCHANGED <<fontVars, oc, oc_edx, hint>>
  PROVE  Inv'
<1>1. /\ DOMAIN World' = Fields
      /\ World'.list = World.list /\ World'.head = World.head /\ World'.end = World.end
      /\ World'.node = World.node /\ World'.oc = World.oc /\ World'.edx = World.edx
      /\ World'.hint = World.hint
  BY DEF World, Fields, fontVars
<1>2. Good(World')
  BY <1>1, SameWorld DEF Inv
<1> QED
  BY <1>2 DEF Inv

\* gui_overspot_draw()
LEMMA DrawInv ==
  ASSUME Inv, NEW i \in Id, NEW focus \in BOOLEAN, Draw(i, focus)
  PROVE  Inv'
<1> DEFINE known == Searched(World, i)
           there == IF Search(World, i) = None THEN Register(known, i) ELSE {known}
<1>1. Good(World) /\ i \in Nat \ {0}
  BY OverspotConstants DEF Inv
<1>2. Good(known) /\ known.oc = World.oc
  BY <1>1, SearchedGood
<1>3. \A t \in there : Good(t) /\ \E k \in Slots : t.oc[k].icid = i
  <2>1. CASE Search(World, i) = None
    <3>1. \A k \in Slots : known.oc[k].icid # i
      BY <1>1, <1>2, <2>1, SearchFinds, NoneIsNoSlot DEF Good
    <3> HIDE DEF known
    <3> QED
      BY <1>2, <2>1, <3>1, RegisterGood
  <2>2. CASE Search(World, i) # None
    <3>1. \E k \in Slots : World.oc[k].icid = i
      BY <1>1, <2>2, SearchFinds DEF Good
    <3> QED
      BY <1>2, <2>2, <3>1
  <2> QED
    BY <2>1, <2>2
<1> HIDE DEF there
<1>4. PICK s \in IF focus THEN UNION {CheckIC(t, i) : t \in there} ELSE there : Becomes(s)
  BY DEF Draw, there
<1>5. Good(s)
  BY <1>3, <1>4, CheckGood
<1> QED
  BY <1>4, <1>5, BecomesGood

\* delete_IC()
LEMMA DeleteInv ==
  ASSUME Inv, NEW i \in Id, DeleteIC(i)
  PROVE  Inv'
<1> DEFINE s == IF ic[i].style = "OverSpot" THEN DeleteClient(World, i) ELSE World
           t == [s EXCEPT !.ic[i] = NoIC]
<1>1. Good(s)
  BY DeleteGood, OverspotConstants DEF Inv
<1> HIDE DEF s
<1>2. /\ DOMAIN t = Fields
      /\ t.list = s.list /\ t.head = s.head /\ t.end = s.end /\ t.node = s.node
      /\ t.oc = s.oc /\ t.edx = s.edx /\ t.hint = s.hint
  BY <1>1 DEF Good, Sound, Fields
<1>3. Becomes(t)
  BY DEF DeleteIC, s
<1> HIDE DEF t
<1>4. Good(t)
  BY <1>1, <1>2, SameWorld
<1> QED
  BY <1>3, <1>4, BecomesGood

\* No record is in use at first, and the main window has its font.
LEMMA InitInv == Init => Inv
<1> SUFFICES ASSUME Init PROVE Inv
  OBVIOUS
<1> DEFINE w == World
           H == Holders(oc)
<1>1. 0 \in 0 .. MaxSlots /\ 0 \notin Id
  BY OverspotConstants
<1>2. MainFont \in Node /\ MainFont # Nil
  BY OverspotConstants, FontConstants DEF MainFont
<1>3. Sound(w)
  <2>1. oc = [k \in Slots |-> NULL] /\ oc_edx = 0 /\ hint = 0
    BY DEF Init
  <2> QED
    BY <1>1, <2>1 DEF Sound, World, Fields, NULL
<1>4. H = [h \in {None} |-> MainFont]
  BY <1>1, NoneIsNoSlot DEF Init, Holders, NULL
<1>5. /\ w.list = MainFont /\ w.head = Nil /\ w.end = Nil /\ DOMAIN w = Fields
      /\ w.node = [n \in Node |->
                     IF n = MainFont
                       THEN [Unused EXCEPT !.name = overspot_font, !.ref_cnt = 1, !.open = TRUE]
                       ELSE Unused]
  BY DEF Init, World, MainFont, Fields
<1> HIDE DEF w, H
<1>6. Shape(w)
  <2>1. Unused \in FontNode
    BY DEF Unused, FontNode
  <2>2. [Unused EXCEPT !.name = overspot_font, !.ref_cnt = 1, !.open = TRUE] \in FontNode
    BY OverspotConstants, FontConstants DEF Unused, FontNode
  <2> QED
    BY <1>2, <1>5, <2>1, <2>2 DEF Shape, Fields
<1>7. /\ w.node[MainFont].next = Nil /\ w.node[MainFont].ref_cnt = 1
      /\ w.node[MainFont].open /\ w.node[MainFont].name = overspot_font
  BY <1>2, <1>5 DEF Unused
<1>8. Chain(w, Nil) = {} /\ Chain(w, MainFont) = {MainFont}
  BY <1>2, <1>6, <1>7, ChainNil, ChainStep, ShapeLinked
<1>9. Held(H, MainFont) = {None} /\ DOMAIN H = {None}
  BY <1>4 DEF Held
<1>10. IsFiniteSet({None}) /\ Cardinality({None}) = 1
  BY FS_Singleton
<1>11. UsersHold(w, H, None, overspot_font) /\ ListCounts(w, H, None)
  BY <1>2, <1>4, <1>5, <1>7, <1>8, <1>9, <1>10 DEF UsersHold, ListCounts
<1>12. FreeRests(w, H) /\ NamesApart(w)
  BY <1>5, <1>8 DEF FreeRests, NamesApart
<1>13. w.oc = oc
  BY DEF w, World
<1> QED
  BY <1>3, <1>6, <1>11, <1>12, <1>13 DEF Inv, Good, Accounted, Cached, w, H

\* Every step keeps the records sound and the fonts accounted for.
LEMMA NextInv == Inv /\ [Next]_vars => Inv'
<1> SUFFICES ASSUME Inv, [Next]_vars PROVE Inv'
  OBVIOUS
<1>1. ASSUME NEW i \in Id, NEW f, NEW style, CreateIC(i, f, style) PROVE Inv'
  BY <1>1, RecordsUntouched DEF CreateIC
<1>2. ASSUME NEW i \in Id, NEW f, SetFont(i, f) PROVE Inv'
  BY <1>2, RecordsUntouched DEF SetFont
<1>3. ASSUME NEW i \in Id, SetStyle(i) PROVE Inv'
  BY <1>3, RecordsUntouched DEF SetStyle
<1>4. CASE UNCHANGED vars
  BY <1>4, RecordsUntouched DEF vars
<1> QED
  BY <1>1, <1>2, <1>3, <1>4, DrawInv, DeleteInv DEF Next

-----------------------------------------------------------------------------
(* What the runs check.                                                    *)

\* An IC has one over-the-spot record at most, below oc_edx, however clients
\* come, change their font and go: search_struct_oc() may stop at the first
\* record it sees, and the one it remembers is the one it would find.
THEOREM OneRecordAlways == Spec => []OneRecord
<1>1. Inv => OneRecord
  BY DEF Inv, Good, Sound, World, OneRecord
<1> QED
  BY <1>1, InitInv, NextInv, PTL DEF Spec

\* The counts of gui_create_fontset() and gui_free_fontset() are right for the
\* records: the font of a record is open, a font in use counts its records,
\* a free one has none, and no font is in both lists, although fonts in front
\* of one that is freed are lost.
THEOREM FontsAccountedAlways == Spec => []FontsAccounted
<1>1. ASSUME Inv PROVE FontsAccounted
  <2> DEFINE w == World
             H == Holders(oc)
  <2>1. /\ Cached(w, H, None, overspot_font)
        /\ w.list = fontlist /\ w.head = freef_head /\ w.end = freef_end /\ w.node = font
    BY <1>1 DEF Inv, Good, Accounted, World
  <2>2. Shape(w) /\ Shape(Fonts)
    BY <2>1 DEF Cached, Shape, Fonts
  <2>3. /\ Chain(Fonts, fontlist) = Chain(w, w.list) /\ Chain(w, w.list) \subseteq Node
        /\ Chain(Fonts, freef_head) = Chain(w, w.head)
    <3>1. Fonts.node = w.node /\ {w.list, w.head} \subseteq Node \cup {Nil}
      BY <2>1, <2>2 DEF Fonts, Shape
    <3> HIDE DEF w
    <3>2. \A m \in Node \cup {Nil} : Chain(Fonts, m) = Chain(w, m) /\ Chain(w, m) \subseteq Node
      BY <2>2, <3>1, SameLists, ChainType, ShapeLinked
    <3> QED
      BY <2>1, <3>1, <3>2
  <2> HIDE DEF w
  <2>4. UsedFontIsOpen
    <3> SUFFICES ASSUME NEW k \in Slots, oc[k].icid \in Id
                 PROVE  oc[k].font \in Node /\ font[oc[k].font].open
      BY DEF UsedFontIsOpen
    <3>1. k \in DOMAIN H /\ H[k] = oc[k].font
      BY NoneIsNoSlot DEF Holders
    <3> QED
      BY <2>1, <3>1 DEF Cached, UsersHold
  <2>5. \A n : Held(H, n) = IF n = MainFont THEN Users(n) \cup {None} ELSE Users(n)
    BY NoneIsNoSlot DEF Held, Holders, Users
  <2>6. \A n : None \notin Users(n) /\ Users(n) \in SUBSET Slots
    BY NoneIsNoSlot DEF Users
  <2>7. IsFiniteSet(Slots)
    BY FS_Interval, OverspotConstants DEF Slots
  <2>8. H[None] = MainFont
    BY DEF Holders
  <2> HIDE DEF H
  <2>9. CountIsUsers
    <3> SUFFICES ASSUME NEW n \in Chain(w, w.list)
                 PROVE  font[n].ref_cnt = Cardinality(Users(n))
                                          + (IF font[n].name = overspot_font THEN 1 ELSE 0)
      BY <2>3 DEF CountIsUsers
    <3>1. font[n].ref_cnt = Cardinality(Held(H, n))
      BY <2>1 DEF Cached, ListCounts
    <3>2. font[n].name = overspot_font <=> n = MainFont
      BY <2>1, <2>8 DEF Cached, UsersHold, NamesApart
    <3>3. IsFiniteSet(Users(n)) /\ Cardinality(Users(n)) \in Nat
      BY <2>6, <2>7, FS_Subset, FS_CardinalityType
    <3>4. CASE n = MainFont
      <4>1. Held(H, n) = Users(n) \cup {None}
        BY <2>5, <3>4
      <4>2. Cardinality(Users(n) \cup {None}) = Cardinality(Users(n)) + 1
        BY <2>6, <3>3, FS_AddElement
      <4> QED
        BY <3>1, <3>2, <3>4, <4>1, <4>2
    <3>5. CASE n # MainFont
      BY <2>5, <3>1, <3>2, <3>3, <3>5
    <3> QED
      BY <3>4, <3>5
  <2>10. ListsApart
    <3>1. \A n \in Chain(w, w.head) : font[n].ref_cnt = 0 /\ Users(n) = {}
      BY <2>1, <2>5 DEF Cached, FreeRests
    <3>2. /\ (freef_head = Nil) <=> (freef_end = Nil)
          /\ freef_end # Nil => freef_end \in Chain(w, w.head) /\ font[freef_end].next = Nil
      BY <2>1 DEF Cached, FreeRests
    <3>3. Chain(w, w.list) \cap Chain(w, w.head) = {}
      BY <2>1 DEF Cached, NamesApart
    <3> QED
      BY <2>3, <3>1, <3>2, <3>3 DEF ListsApart
  <2> QED
    BY <2>4, <2>9, <2>10 DEF FontsAccounted
<1> QED
  BY <1>1, InitInv, NextInv, PTL DEF Spec
=============================================================================
