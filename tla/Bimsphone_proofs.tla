-------------------------- MODULE Bimsphone_proofs --------------------------
(***************************************************************************)
(* Proofs about Bimsphone for any contexts, methods, keys, lists and       *)
(* window sizes.                                                           *)
(*                                                                         *)
(* A handler is a set of outcomes, each a record of the context and of the *)
(* context of bims (a world).  The lemmas follow a world through the       *)
(* handlers; Finish stores it.                                             *)
(***************************************************************************)
EXTENDS Bimsphone, SequenceTheorems, FiniteSetTheorems, TLAPS

Cand == UNION {Range(l) : l \in ZhiLists \cup TsiLists}
PageState == {"ONEPG", "BEGIN", "MIDDLE", "END"}
Flag == {"COMMIT", "IGNORE", "BELL", "SHIFTESC", "SHIFTPHR", "CTRLPHR", "ALTPHR",
         "FALLBACKPHR"}
Bims == [state : {"EDITING", "ZHI", "TSI"}, zhuyin : 0 .. MaxZhuyin, text : Nat,
         maxlen : Nat, cands : Seq(Cand), base : Nat]
Inp == [cf : Methods \cup {NoMethod}, z : 0 .. (MaxZhuyin + N_MAX_KEYCODE_PINYIN),
        n_lcch : Nat, mcch : Seq(Cand), pgstate : PageState, listchar : BOOLEAN,
        selspot : BOOLEAN, composed : BOOLEAN, size : Nat, maxlen : Nat,
        gsize : Nat, galloc : Nat]
Worlds == [cf : Methods \cup {NoMethod}, z : 0 .. (MaxZhuyin + N_MAX_KEYCODE_PINYIN),
           n_lcch : Nat, mcch : Seq(Cand), pgstate : PageState, listchar : BOOLEAN,
           selspot : BOOLEAN, composed : BOOLEAN, size : Nat, maxlen : Nat,
           gsize : Nat, galloc : Nat, bc : Bims, ret : SUBSET Flag, got : Nat,
           used : BOOLEAN]

\* What the pages rest on: a page has room for a phrase (N_SELECTION_PHR is 1 at
\* least), and no key opens the selection together with Ctrl or Alt.
PagesAssumed ==
    /\ \A m \in Methods : "PHRASESEL" \in Mode(m) => Rc[m].n_selphr > 0
    /\ \A t \in Typed : t[2] \cap {"ctrl", "alt"} # {} => t[1] \notin {"Up", "Down", "space"}

\* The copy is that of what bims has.
Mirrors(s) ==
    IF Autosel(s.cf)
    THEN /\ s.listchar <=> s.bc.state = "EDITING"
         /\ s.n_lcch = s.bc.text
         /\ s.bc.state = "EDITING" =>
               /\ s.composed => s.z = 0 /\ s.n_lcch > 0
               /\ s.z = 0 /\ s.n_lcch > 0 /\ ~Rc[s.cf].pinyin => s.composed
    ELSE /\ s.selspot <=> s.bc.state # "EDITING"
         /\ s.n_lcch = 0
         /\ s.bc.state # "TSI"
         /\ s.bc.state = "EDITING" => s.bc.text = 0

Roomy(s) == Autosel(s.cf) => s.n_lcch < s.size /\ s.gsize <= s.galloc

\* The list is one of the lists of its kind, and a page begins at a candidate.
Listed(b, m) ==
    /\ b.state = "ZHI" => b.cands \in ZhiLists
    /\ b.state = "TSI" => b.cands \in TsiLists /\ "PHRASESEL" \in Mode(m)
    /\ b.state # "EDITING" => b.base < Len(b.cands)

\* There are only full pages before a page, where pages are even.
Placed(s) ==
    s.bc.state = "TSI" /\ EvenPages(s) =>
        \E k \in Nat : s.bc.base = k * NSelphr(s.cf)

\* What PageIsSlice says of a world.
Shown(s) ==
    /\ s.mcch # <<>>
    /\ s.bc.base + Len(s.mcch) <= Len(s.bc.cands)
    /\ s.mcch = SubSeq(s.bc.cands, s.bc.base + 1, s.bc.base + Len(s.mcch))
    /\ (s.pgstate \in {"ONEPG", "BEGIN"}) <=> s.bc.base = 0
    /\ EvenPages(s) => EndTold(s)

Paged(s) == PagesAssumed /\ s.bc.state # "EDITING" => Placed(s) /\ Shown(s)

\* A world before a handler and after it.
Known(s) == s \in Worlds /\ s.cf \in Methods
Sound(s) == Known(s) /\ Mirrors(s) /\ Roomy(s) /\ Listed(s.bc, s.cf) /\ Paged(s)

\* The answer says whether text was fetched.
Answers(s) == "COMMIT" \in s.ret <=> s.got > 0

Good(s) == Sound(s) /\ Answers(s)

\* The answer is still to be given.
Open(s) == Sound(s) /\ s.ret = {} /\ s.got = 0

-----------------------------------------------------------------------------
(* Pages.                                                                  *)

\* The lists that bims offers are sequences of candidates, and not empty.
LEMMA ListType ==
  ASSUME NEW l \in ZhiLists \cup TsiLists
  PROVE  l \in Seq(Cand) /\ l # <<>> /\ Len(l) \in Nat \ {0}
<1>1. l # <<>> /\ l \in Seq(Range(l))
  BY BimsphoneConstants
<1>2. Range(l) \subseteq Cand
  BY DEF Cand
<1>3. l \in Seq(Cand)
  BY <1>1, <1>2, SeqMonotonic
<1> QED
  BY <1>1, <1>3, EmptySeq

\* The rest of the candidates, and those before, the nearest first.
LEMMA RestType ==
  ASSUME NEW s \in Worlds, NEW b \in Nat
  PROVE  /\ From(s, b) \in Seq(Cand)
         /\ Len(From(s, b)) = IF b < Len(s.bc.cands) THEN Len(s.bc.cands) - b ELSE 0
         /\ b <= Len(s.bc.cands) =>
                Before(s, b) \in Seq(Cand) /\ Len(Before(s, b)) = b
<1> DEFINE c == s.bc.cands
<1>1. c \in Seq(Cand) /\ Len(c) \in Nat
  BY DEF Worlds, Bims
<1> HIDE DEF c
<1>2. \A i \in b + 1 .. Len(c) : c[i] \in Cand
  BY <1>1, ElementOfSeq
<1>3. /\ SubSeq(c, b + 1, Len(c)) \in Seq(Cand)
      /\ Len(SubSeq(c, b + 1, Len(c))) = IF b + 1 <= Len(c) THEN Len(c) - (b + 1) + 1 ELSE 0
  BY <1>1, <1>2, SubSeqProperties
<1>4. ASSUME b <= Len(c)
      PROVE  Reverse(SubSeq(c, 1, b)) \in Seq(Cand) /\ Len(Reverse(SubSeq(c, 1, b))) = b
  <2> DEFINE t == SubSeq(c, 1, b)
  <2>1. \A i \in 1 .. b : c[i] \in Cand
    BY <1>1, <1>4, ElementOfSeq
  <2>2. t \in Seq(Cand) /\ Len(t) = b
    BY <1>1, <2>1, SubSeqProperties
  <2> HIDE DEF t
  <2>3. Reverse(t) = [i \in 1 .. Len(t) |-> t[Len(t) - i + 1]]
    BY DEF Reverse
  <2>4. \A i \in 1 .. Len(t) : t[Len(t) - i + 1] \in Cand
    BY <2>2, ElementOfSeq
  <2>5. Reverse(t) \in Seq(Cand) /\ Len(Reverse(t)) = b
    BY <2>2, <2>3, <2>4
  <2> QED
    BY <2>5 DEF t
<1> QED
  BY <1>1, <1>3, <1>4 DEF From, Before, c

\* As many phrases as fit are no more than there are, nor than n_selphr.
LEMMA FitsBound ==
  ASSUME NEW s \in Worlds, s.cf \in Methods, NEW l \in Seq(Cand)
  PROVE  /\ Fits(s, l) \in Nat
         /\ s.bc.state = "ZHI" => Fits(s, l) = Len(Selkey)
         /\ s.bc.state # "ZHI" => Fits(s, l) <= Least(NSelphr(s.cf), Len(l))
<1>1. Len(Selkey) \in Nat
  BY BimsphoneConstants
<1>2. NSelphr(s.cf) \in Nat
  BY BimsphoneConstants DEF NSelphr
<1> DEFINE n == Least(NSelphr(s.cf), Len(l))
           F == {j \in 1 .. n : Len(Flat(SubSeq(l, 1, j))) < MCCH_BUFSIZE}
<1>3. n \in Nat
  BY <1>2 DEF Least
<1>4. IsFiniteSet(1 .. n) /\ Cardinality(1 .. n) = n
  <2> HIDE DEF n
  <2>1. IsFiniteSet(1 .. n) /\ Cardinality(1 .. n) = IF 1 > n THEN 0 ELSE n - 1 + 1
    BY <1>3, FS_Interval
  <2> QED
    BY <1>3, <2>1
<1>5. F \in SUBSET (1 .. n)
  OBVIOUS
<1>6. IsFiniteSet(F) /\ Cardinality(F) <= n /\ Cardinality(F) \in Nat
  <2> HIDE DEF F, n
  <2> QED
    BY <1>4, <1>5, FS_Subset, FS_CardinalityType
<1>7. Fits(s, l) = IF s.bc.state = "ZHI" THEN Len(Selkey) ELSE Cardinality(F)
  BY DEF Fits
<1> QED
  BY <1>1, <1>6, <1>7

\* One candidate fits at least.
LEMMA FitsOne ==
  ASSUME NEW s \in Worlds, s.cf \in Methods, PagesAssumed, Listed(s.bc, s.cf),
         s.bc.state # "EDITING", NEW b \in Nat, b < Len(s.bc.cands)
  PROVE  Fits(s, From(s, b)) > 0
<1> DEFINE c == s.bc.cands
           l == From(s, b)
<1>1. c \in Seq(Cand) /\ Len(c) \in Nat /\ s.bc.state \in {"ZHI", "TSI"}
  BY DEF Worlds, Bims
<1>2. l \in Seq(Cand) /\ Len(l) = Len(c) - b
  BY RestType
<1>3. CASE s.bc.state = "ZHI"
  <2>1. Len(Selkey) > 0
    BY BimsphoneConstants, EmptySeq
  <2> QED
    BY <1>2, <1>3, <2>1, FitsBound
<1>4. CASE s.bc.state = "TSI"
  <2>1. c \in TsiLists /\ NSelphr(s.cf) > 0 /\ NSelphr(s.cf) \in Nat
    BY <1>4, BimsphoneConstants DEF Listed, PagesAssumed, NSelphr
  <2> DEFINE n == Least(NSelphr(s.cf), Len(l))
             F == {j \in 1 .. n : Len(Flat(SubSeq(l, 1, j))) < MCCH_BUFSIZE}
  <2>2. n \in Nat /\ n > 0
    BY <1>1, <1>2, <2>1 DEF Least
  <2>3. SubSeq(l, 1, 1) = <<c[b + 1]>>
    <3>1. \A i \in 1 .. 1 : l[i] \in Cand
      BY <1>1, <1>2, ElementOfSeq
    <3>2. SubSeq(l, 1, 1) \in Seq(Cand) /\ Len(SubSeq(l, 1, 1)) = 1
          /\ SubSeq(l, 1, 1)[1] = l[1]
      BY <3>1, SubSeqProperties
    <3>3. \A i \in b + 1 .. Len(c) : c[i] \in Cand
      BY <1>1, ElementOfSeq
    <3>4. l[1] = c[b + 1]
      BY <1>1, <3>3, SubSeqProperties DEF From
    <3>5. c[b + 1] \in Cand
      BY <1>1, <3>3
    <3> HIDE DEF l, c
    <3>6. /\ <<c[b + 1]>> \in Seq(Cand) /\ Len(<<c[b + 1]>>) = 1
          /\ <<c[b + 1]>>[1] = c[b + 1]
      BY <3>5
    <3>7. \A i \in 1 .. Len(SubSeq(l, 1, 1)) : SubSeq(l, 1, 1)[i] = <<c[b + 1]>>[i]
      BY <3>2, <3>4, <3>6
    <3> QED
      BY <3>2, <3>6, <3>7, SeqEqual
  <2>4. b + 1 \in DOMAIN c
    BY <1>1
  <2>5. Len(FlattenSeq(<<c[b + 1]>>)) < MCCH_BUFSIZE
    <3>1. \A l2 \in TsiLists : \A k \in DOMAIN l2 :
             Len(FlattenSeq(<<l2[k]>>)) < MCCH_BUFSIZE
      BY Zenon, BimsphoneConstants
    <3> HIDE DEF c
    <3> QED
      BY Zenon, <2>1, <2>4, <3>1
  <2>6. 1 \in F
    <3>1. Len(Flat(SubSeq(l, 1, 1))) < MCCH_BUFSIZE
      BY Zenon, <2>3, <2>5 DEF Flat
    <3>2. 1 \in 1 .. n
      BY <2>2
    <3> HIDE DEF n, l
    <3> QED
      BY Zenon, <3>1, <3>2
  <2>7. IsFiniteSet(F)
    <3>1. IsFiniteSet(1 .. n)
      BY <2>2, FS_Interval
    <3> HIDE DEF n
    <3> QED
      BY <3>1, FS_Subset
  <2>8. Cardinality(F) \in Nat /\ Cardinality(F) # 0
    <3> HIDE DEF F
    <3> QED
      BY <2>6, <2>7, FS_EmptySet, FS_CardinalityType
  <2>9. Fits(s, l) = Cardinality(F)
    BY <1>4 DEF Fits
  <2> QED
    BY <2>8, <2>9
<1> QED
  BY <1>1, <1>3, <1>4

\* Where a remainder lies.
LEMMA Remainder ==
  ASSUME NEW n \in Nat, NEW d \in Nat, d > 0
  PROVE  n % d \in 0 .. d - 1 /\ (n < d => n % d = n)
OBVIOUS

\* A page turned to begins at a candidate again.
LEMMA TurnType ==
  ASSUME NEW s, Known(s), Listed(s.bc, s.cf), s.bc.state # "EDITING",
         NEW dir \in {-1, 0, 1}
  PROVE  TurnTo(s, dir) \in Nat /\ TurnTo(s, dir) < Len(s.bc.cands)
<1> DEFINE num == Len(s.bc.cands)
           base == s.bc.base
           cp == Fits(s, From(s, base))
           lp == Fits(s, Before(s, base))
           rest == num % cp
<1>1. /\ s \in Worlds /\ s.cf \in Methods /\ num \in Nat /\ base \in Nat /\ base < num
  BY DEF Known, Worlds, Bims, Listed
<1>2. cp \in Nat /\ lp \in Nat /\ (s.bc.state = "ZHI" => cp = Len(Selkey))
  <2>1. base <= Len(s.bc.cands)
    BY <1>1
  <2> HIDE DEF num
  <2>2. From(s, base) \in Seq(Cand) /\ Before(s, base) \in Seq(Cand)
    BY <1>1, <2>1, RestType
  <2> QED
    BY <1>1, <2>2, FitsBound
<1>3. ASSUME s.bc.state = "ZHI"
      PROVE  /\ num - (IF rest = 0 THEN cp ELSE rest) \in Nat
             /\ num - (IF rest = 0 THEN cp ELSE rest) < num
  <2>1. cp > 0
    <3>1. Len(Selkey) \in Nat \ {0}
      BY BimsphoneConstants, EmptySeq
    <3> QED
      BY <1>2, <1>3, <3>1
  <2> HIDE DEF cp, num
  <2>2. rest \in 0 .. cp - 1 /\ (num < cp => rest = num)
    BY <1>1, <1>2, <2>1, Remainder
  <2>3. rest <= num
    <3>1. CASE num < cp
      BY <3>1, <2>2, <1>1
    <3>2. CASE ~(num < cp)
      BY <3>2, <2>2, <1>1, <1>2
    <3> QED
      BY <3>1, <3>2
  <2> HIDE DEF rest
  <2> QED
    BY <1>1, <1>2, <2>1, <2>2, <2>3
<1>4. TurnTo(s, dir) =
        IF dir = -1
          THEN IF base - lp >= 0 THEN base - lp
               ELSE IF s.pgstate = "BEGIN" /\ s.bc.state = "ZHI"
                      THEN num - (IF rest = 0 THEN cp ELSE rest)
                      ELSE base
        ELSE IF dir = 1
          THEN IF base + cp < num THEN base + cp
               ELSE IF s.pgstate = "END" THEN 0 ELSE base
        ELSE base
  BY DEF TurnTo
<1> HIDE DEF num, base, cp, lp, rest
<1> DEFINE b == TurnTo(s, dir)
           w == num - (IF rest = 0 THEN cp ELSE rest)
<1>5. \/ b = base - lp /\ base - lp >= 0
      \/ b = w /\ s.bc.state = "ZHI"
      \/ b = base + cp /\ base + cp < num
      \/ b = 0 \/ b = base
  BY <1>4
<1> HIDE DEF b, w
<1>6. b \in Nat /\ b < num
  <2>1. s.bc.state = "ZHI" => w \in Nat /\ w < num
    BY <1>3 DEF w
  <2> QED
    BY <1>1, <1>2, <1>5, <2>1
<1> QED
  BY <1>6 DEF num, b

\* What showing a page changes.
Turned(s, t) ==
    /\ Known(t)
    /\ t = [s EXCEPT !.bc.base = t.bc.base, !.mcch = t.mcch, !.composed = FALSE,
                     !.pgstate = t.pgstate]
    /\ Listed(t.bc, t.cf)

\* Showing a page touches nothing but the page.
LEMMA ShowPageTurns ==
  ASSUME NEW s, Known(s), Listed(s.bc, s.cf), s.bc.state # "EDITING",
         NEW dir \in {-1, 0, 1}
  PROVE  Turned(s, ShowPage(s, dir))
<1> DEFINE base == TurnTo(s, dir)
           page == PageOf(s, From(s, base))
           pg == PgState(base, MoreBehind(s, base))
           t == ShowPage(s, dir)
<1>1. base \in Nat /\ base < Len(s.bc.cands)
  BY TurnType
<1>2. s \in Worlds /\ s.cf \in Methods
  BY DEF Known
<1>3. t = [s EXCEPT !.bc.base = base, !.mcch = page, !.composed = FALSE, !.pgstate = pg]
  BY DEF ShowPage
<1>4. page \in Seq(Cand)
  <2> DEFINE l == From(s, base)
             n == Least(Fits(s, l), Len(l))
  <2>1. l \in Seq(Cand) /\ Len(l) \in Nat
    BY <1>1, <1>2, RestType
  <2>2. Fits(s, l) \in Nat
    BY <1>2, <2>1, FitsBound
  <2>3. n \in 0 .. Len(l)
    BY <2>1, <2>2 DEF Least
  <2> HIDE DEF l, n
  <2>4. \A i \in 1 .. n : l[i] \in Cand
    BY <2>1, <2>3, ElementOfSeq
  <2>5. SubSeq(l, 1, n) \in Seq(Cand)
    BY <2>3, <2>4, SubSeqProperties
  <2> QED
    BY <2>5 DEF PageOf, l, n
<1>5. pg \in PageState
  BY DEF PgState, PageState
<1> HIDE DEF base, page, pg, t
<1>6. t \in Worlds /\ t.cf = s.cf /\ t.bc = [s.bc EXCEPT !.base = base]
      /\ t.mcch = page /\ t.pgstate = pg /\ t.bc.base = base
  BY <1>1, <1>2, <1>3, <1>4, <1>5 DEF Worlds, Bims
<1>7. Listed(t.bc, t.cf)
  BY <1>1, <1>2, <1>6 DEF Listed, Worlds, Bims
<1>8. t = [s EXCEPT !.bc.base = t.bc.base, !.mcch = t.mcch, !.composed = FALSE,
                    !.pgstate = t.pgstate]
  BY <1>3, <1>6
<1> QED
  BY <1>2, <1>6, <1>7, <1>8 DEF Turned, Known, t

\* One page on, one back, or to the first, where pages have N candidates.
Turns(N, num, base, next) ==
    /\ N \in Nat /\ N > 0 /\ num \in Nat /\ base \in Nat /\ base < num /\ next \in Nat
    /\ \E k \in Nat : base = k * N
    /\ \/ next \in {base, 0, base - Least(N, base)}
       \/ next = base + Least(N, num - base) /\ next < num

\* With pages of N candidates, the last page alone being shorter, every page
\* begins at a multiple of N, and whether there is more behind a new page can be
\* told from the length of the old one.
LEMMA EvenTurn ==
  ASSUME NEW N, NEW num, NEW base, NEW next, Turns(N, num, base, next)
  PROVE  /\ \E j \in Nat : next = j * N
         /\ next + Least(N, num - base) < num <=> next + Least(N, num - next) < num
<1> PICK k \in Nat : base = k * N
  BY DEF Turns
<1>0. /\ N \in Nat /\ N > 0 /\ num \in Nat /\ base \in Nat /\ base < num /\ next \in Nat
      /\ \/ next \in {base, 0, base - Least(N, base)}
         \/ next = base + Least(N, num - base) /\ next < num
  BY DEF Turns
<1> USE <1>0
<1>1. base = 0 \/ (base >= N /\ base - N = (k - 1) * N /\ k - 1 \in Nat)
  OBVIOUS
<1>2. base + N = (k + 1) * N
  OBVIOUS
<1>3. CASE next = base
  BY <1>3 DEF Least
<1>4. CASE next = 0
  <2>1. next = 0 * N
    BY <1>4
  <2> QED
    BY <1>1, <1>4, <2>1 DEF Least
<1>5. CASE next = base - Least(N, base)
  <2>1. CASE base = 0
    <3>1. next = base
      BY <1>5, <2>1 DEF Least
    <3> QED
      BY <1>3, <3>1
  <2>2. CASE base >= N /\ base - N = (k - 1) * N /\ k - 1 \in Nat
    <3>1. next = base - N
      BY <1>5, <2>2 DEF Least
    <3>2. next = (k - 1) * N
      BY <2>2, <3>1
    <3> DEFINE l == Least(N, num - base)
               m == Least(N, num - next)
    <3>3. l \in Nat /\ l <= num - base /\ m \in Nat /\ m <= N
      BY DEF Least
    <3> HIDE DEF l, m
    <3>4. next + l < num /\ next + m < num
      BY <3>1, <3>3
    <3> QED
      BY <2>2, <3>1, <3>2, <3>4 DEF l, m
  <2> QED
    BY <1>1, <2>1, <2>2
<1>6. CASE next = base + Least(N, num - base) /\ next < num
  <2>1. Least(N, num - base) = N /\ next = base + N
    BY <1>6 DEF Least
  <2>2. next = (k + 1) * N /\ k + 1 \in Nat
    BY <1>2, <2>1
  <2>3. next + N < num <=> next + Least(N, num - next) < num
    BY <1>6 DEF Least
  <2> QED
    BY <1>6, <2>1, <2>2, <2>3
<1> QED
  BY <1>3, <1>4, <1>5, <1>6

\* Whether pages are even depends on the list alone.
LEMMA EvenSame ==
  ASSUME NEW s, NEW t, t.cf = s.cf, t.bc.state = s.bc.state, t.bc.cands = s.bc.cands
  PROVE  EvenPages(t) <=> EvenPages(s)
<1>1. \A b : From(t, b) = From(s, b) /\ Before(t, b) = Before(s, b)
  BY DEF From, Before
<1>2. \A l : Fits(t, l) = Fits(s, l)
  BY DEF Fits
<1> QED
  BY <1>1, <1>2 DEF EvenPages

\* The page shown begins where bims is told, with as many as fit.
LEMMA ShowPageSlice ==
  ASSUME NEW s, Known(s), Listed(s.bc, s.cf), s.bc.state # "EDITING", PagesAssumed,
         NEW dir \in {-1, 0, 1}
  PROVE  LET t == ShowPage(s, dir)
             b == TurnTo(s, dir)
             n == Least(Fits(s, From(s, b)), Len(s.bc.cands) - b)
         IN  /\ t.bc.base = b /\ b \in Nat /\ b < Len(s.bc.cands)
             /\ n \in Nat \ {0} /\ b + n <= Len(s.bc.cands)
             /\ Len(t.mcch) = n
             /\ t.mcch = SubSeq(t.bc.cands, b + 1, b + n)
             /\ t.pgstate = PgState(b, MoreBehind(s, b))
<1> DEFINE t == ShowPage(s, dir)
           b == TurnTo(s, dir)
           c == s.bc.cands
           l == From(s, b)
           n == Least(Fits(s, l), Len(c) - b)
<1>1. /\ s \in Worlds /\ s.cf \in Methods /\ c \in Seq(Cand) /\ Len(c) \in Nat
      /\ DOMAIN s = DOMAIN t
  BY DEF Known, Worlds, Bims, ShowPage
<1>2. b \in Nat /\ b < Len(c)
  BY TurnType
<1>3. t.bc.base = b /\ t.bc.cands = c /\ t.mcch = PageOf(s, l)
      /\ t.pgstate = PgState(b, MoreBehind(s, b))
  BY <1>1 DEF ShowPage, Worlds, Bims
<1> HIDE DEF t, b
<1>4. l \in Seq(Cand) /\ Len(l) = Len(c) - b
  BY <1>1, <1>2, RestType
<1>5. Fits(s, l) \in Nat /\ Fits(s, l) > 0
  BY <1>1, <1>2, <1>4, FitsBound, FitsOne
<1>6. n \in 1 .. Len(l) /\ n = Least(Fits(s, l), Len(l))
  BY <1>1, <1>2, <1>4, <1>5 DEF Least
<1> HIDE DEF n, c
<1>7. l = SubSeq(c, b + 1, Len(c))
  BY DEF From, c
<1> HIDE DEF l
<1>8. SubSeq(l, 1, n) = SubSeq(c, b + 1, b + n)
  <2>1. b + 1 \in 1 .. Len(c) /\ Len(c) \in 1 .. Len(c) /\ 1 \in 1 .. Len(c) - (b + 1) + 1
        /\ n \in 1 .. Len(c) - (b + 1) + 1
    BY <1>1, <1>2, <1>4, <1>6
  <2>2. SubSeq(SubSeq(c, b + 1, Len(c)), 1, n) = SubSeq(c, b + 1 + 1 - 1, b + 1 + n - 1)
    BY <1>1, <2>1, SubSeqOfSubSeq
  <2>3. b + 1 + 1 - 1 = b + 1 /\ b + 1 + n - 1 = b + n
    BY <1>2, <1>6
  <2> QED
    BY <1>7, <2>2, <2>3
<1>9. Len(SubSeq(l, 1, n)) = n
  <2>1. \A i \in 1 .. n : l[i] \in Cand
    BY <1>4, <1>6, ElementOfSeq
  <2> QED
    BY <1>6, <2>1, SubSeqProperties
<1>10. t.mcch = SubSeq(l, 1, n)
  BY <1>3, <1>6 DEF PageOf
<1>11. /\ t.bc.base = b /\ b \in Nat /\ b < Len(c)
       /\ n \in Nat \ {0} /\ b + n <= Len(c)
       /\ Len(t.mcch) = n
       /\ t.mcch = SubSeq(t.bc.cands, b + 1, b + n)
       /\ t.pgstate = PgState(b, MoreBehind(s, b))
  BY <1>1, <1>2, <1>3, <1>4, <1>6, <1>8, <1>9, <1>10
<1> QED
  BY <1>11 DEF t, b, n, l, c

\* It is a page as it should be, if the last page was one or the list is new.
LEMMA ShowPageShows ==
  ASSUME NEW s, Known(s), Listed(s.bc, s.cf), s.bc.state # "EDITING",
         NEW dir \in {-1, 0, 1},
         PagesAssumed => Placed(s) /\ (dir = 0 \/ Shown(s))
  PROVE  Paged(ShowPage(s, dir))
<1> SUFFICES ASSUME PagesAssumed PROVE Placed(ShowPage(s, dir)) /\ Shown(ShowPage(s, dir))
  BY DEF Paged
<1> DEFINE t == ShowPage(s, dir)
           b == TurnTo(s, dir)
           num == Len(s.bc.cands)
           base == s.bc.base
           n == Least(Fits(s, From(s, b)), num - b)
           cp == Fits(s, From(s, base))
           lp == Fits(s, Before(s, base))
           more == b + cp < num
<1>1. /\ s \in Worlds /\ s.cf \in Methods /\ num \in Nat /\ base \in Nat /\ base < num
      /\ s.bc.state \in {"ZHI", "TSI"}
  BY DEF Known, Worlds, Bims, Listed
<1>2. /\ t.bc.base = b /\ b \in Nat /\ b < num /\ n \in Nat \ {0} /\ b + n <= num
      /\ Len(t.mcch) = n /\ t.mcch = SubSeq(t.bc.cands, b + 1, b + n)
      /\ t.pgstate = PgState(b, more)
  BY ShowPageSlice DEF MoreBehind
<1>3. Turned(s, t)
  BY ShowPageTurns
<1>4. t.bc.cands = s.bc.cands /\ t.cf = s.cf /\ t.bc.state = s.bc.state
      /\ t.mcch # <<>>
  <2>1. t.mcch \in Seq(Cand)
    BY <1>3 DEF Turned, Known, Worlds
  <2>2. t.mcch # <<>>
    BY <1>2, <2>1, EmptySeq
  <2> HIDE DEF t
  <2>3. t = [s EXCEPT !.bc.base = t.bc.base, !.mcch = t.mcch, !.composed = FALSE,
                      !.pgstate = t.pgstate]
    BY <1>3 DEF Turned
  <2>4. t.cf = s.cf /\ t.bc = [s.bc EXCEPT !.base = t.bc.base]
    BY <1>1, <2>3 DEF Worlds
  <2>5. t.bc.cands = s.bc.cands /\ t.bc.state = s.bc.state
    BY <1>1, <2>4 DEF Worlds, Bims
  <2> QED
    BY <2>2, <2>4, <2>5
<1>5. (t.pgstate \in {"ONEPG", "BEGIN"} <=> b = 0) /\ (t.pgstate \in {"ONEPG", "END"} <=> ~more)
  BY <1>2 DEF PgState
<1>6. EvenPages(t) <=> EvenPages(s)
  <2> HIDE DEF t
  <2> QED
    BY <1>4, EvenSame
<1>7. ASSUME s.bc.state = "ZHI" PROVE more <=> b + n < num
  <2>1. From(s, base) \in Seq(Cand) /\ From(s, b) \in Seq(Cand)
    BY <1>1, <1>2, RestType
  <2>2. cp = Len(Selkey) /\ Fits(s, From(s, b)) = Len(Selkey) /\ Len(Selkey) \in Nat
    BY <1>1, <1>7, <2>1, FitsBound
  <2> QED
    BY <1>1, <1>2, <2>2 DEF Least
<1>8. ASSUME s.bc.state = "TSI", EvenPages(s)
      PROVE  /\ \E k \in Nat : b = k * NSelphr(s.cf)
             /\ more <=> b + n < num
  <2> DEFINE N == NSelphr(s.cf)
  <2>1. N \in Nat /\ N > 0
    BY <1>1, <1>8, BimsphoneConstants DEF Listed, PagesAssumed, NSelphr
  <2>2. cp = Least(N, num - base) /\ lp = Least(N, base) /\ Fits(s, From(s, b)) = Least(N, num - b)
    <3> HIDE DEF b, base, num, n, t, more
    <3>1. base \in 0 .. num /\ b \in 0 .. num
      BY <1>1, <1>2
    <3>2. \A d \in 0 .. num : /\ Fits(s, From(s, d)) = Least(N, num - d)
                               /\ Fits(s, Before(s, d)) = Least(N, d)
      BY <1>8 DEF EvenPages, num
    <3> QED
      BY <3>1, <3>2
  <2>3. PICK k \in Nat : base = k * N
    BY <1>8 DEF Placed
  <2>4. \/ b \in {base, 0, base - lp}
        \/ b = base + cp /\ b < num
    BY <1>1, <1>8 DEF TurnTo
  <2>5. n = Least(N, num - b)
    BY <1>1, <1>2, <2>1, <2>2 DEF Least
  <2> HIDE DEF N, num, base, b, cp, lp, n
  <2>6. /\ \E j \in Nat : b = j * N
        /\ b + Least(N, num - base) < num <=> b + Least(N, num - b) < num
    <3>1. \/ b \in {base, 0, base - Least(N, base)}
          \/ b = base + Least(N, num - base) /\ b < num
      BY <2>2, <2>4
    <3>2. N \in Nat /\ N > 0 /\ num \in Nat /\ base \in Nat /\ base < num /\ b \in Nat
      BY <1>1, <1>2, <2>1
    <3>3. Turns(N, num, base, b)
      BY <2>3, <3>1, <3>2 DEF Turns
    <3> QED
      BY <3>3, EvenTurn
  <2>7. more <=> b + n < num
    BY <2>2, <2>5, <2>6
  <2> QED
    BY <2>6, <2>7 DEF N
<1>9. Placed(t)
  <2> HIDE DEF t
  <2> QED
    BY <1>2, <1>4, <1>6, <1>8 DEF Placed
<1>10. EvenPages(t) => EndTold(t)
  <2>1. s.bc.state = "ZHI" \/ EvenPages(s) => (more <=> b + n < num)
    BY <1>1, <1>7, <1>8
  <2> HIDE DEF t, more, n, b
  <2>2. EvenPages(t) => (more <=> b + n < num)
    BY <1>6, <2>1
  <2> QED
    BY <1>1, <1>2, <1>4, <1>5, <2>2 DEF EndTold
<1>11. Shown(t)
  <2> HIDE DEF t, n, b
  <2> QED
    BY <1>2, <1>4, <1>5, <1>10 DEF Shown
<1> QED
  BY <1>9, <1>11

-----------------------------------------------------------------------------
(* The text that is being edited.                                          *)

\* What a context knows of its text while it edits, the mark of the window apart.
Copied(s) ==
    /\ Known(s) /\ s.bc.state = "EDITING" /\ Roomy(s)
    /\ IF Autosel(s.cf)
       THEN /\ s.n_lcch = s.bc.text
            /\ s.composed => s.z = 0 /\ s.n_lcch > 0
            /\ s.z = 0 /\ s.n_lcch > 0 /\ ~Rc[s.cf].pinyin => s.composed
       ELSE s.n_lcch = 0 /\ s.bc.text = 0

\* The window shows text.
Editing(s) == IF Autosel(s.cf) THEN s.listchar ELSE ~s.selspot

\* bims has changed its text, and the context has not looked yet.
Stale(s) ==
    /\ Known(s) /\ s.bc.state = "EDITING"
    /\ Autosel(s.cf) => s.gsize <= s.galloc
    /\ ~Autosel(s.cf) => s.n_lcch = 0 /\ s.bc.text = 0

\* Nothing but the answer differs.
Like(s, t) ==
    /\ Known(t) /\ t.cf = s.cf /\ t.bc = s.bc /\ t.z = s.z /\ t.n_lcch = s.n_lcch
    /\ t.mcch = s.mcch /\ t.pgstate = s.pgstate /\ t.listchar = s.listchar
    /\ t.selspot = s.selspot /\ t.composed = s.composed /\ t.size = s.size
    /\ t.gsize = s.gsize /\ t.galloc = s.galloc

\* The answer is no part of what makes a world sound.
LEMMA LikeSound ==
  ASSUME NEW s, Sound(s), NEW t, Like(s, t)
  PROVE  Sound(t)
<1>1. Known(t) /\ Mirrors(t) /\ Roomy(t) /\ Listed(t.bc, t.cf)
  BY DEF Sound, Like, Mirrors, Roomy
<1>2. EvenPages(t) <=> EvenPages(s)
  BY EvenSame DEF Like
<1>3. Paged(t)
  BY <1>2 DEF Sound, Like, Paged, Placed, Shown, EndTold
<1> QED
  BY <1>1, <1>3 DEF Sound

\* Answering, and calling bims, leave everything else.
LEMMA AnswerLike ==
  ASSUME NEW s, Known(s), NEW flags \in SUBSET Flag
  PROVE  /\ Like(s, Answer(s, flags)) /\ Answer(s, flags).ret = flags
         /\ Answer(s, flags).got = s.got
         /\ Like(s, Uses(s)) /\ Uses(s).ret = s.ret /\ Uses(s).got = s.got
  BY DEF Known, Like, Answer, Uses, Worlds

\* A context that edits and knows its text is sound.
LEMMA CopiedSound ==
  ASSUME NEW s, Copied(s), Editing(s)
  PROVE  Sound(s)
  BY DEF Copied, Editing, Sound, Mirrors, Listed, Paged

\* And the other way round.
LEMMA SoundCopied ==
  ASSUME NEW s, Sound(s), s.bc.state = "EDITING"
  PROVE  Copied(s) /\ Editing(s) /\ Stale(s)
  BY DEF Copied, Editing, Sound, Mirrors, Stale, Roomy, Known, Worlds

\* editing_status() brings the copy up to date.
LEMMA StatusCopies ==
  ASSUME NEW s, Stale(s), NEW t \in EditingStatus(s)
  PROVE  /\ Copied(t) /\ t.bc = s.bc /\ t.cf = s.cf /\ t.ret = s.ret /\ t.got = s.got
         /\ t.listchar = s.listchar /\ t.selspot = s.selspot
<1> DEFINE text == s.bc.text
           z    == IF Rc[s.cf].pinyin THEN s.z ELSE s.bc.zhuyin
           size == IF text >= s.size THEN text + 1 ELSE s.size
<1>1. /\ s \in Worlds /\ s.cf \in Methods /\ text \in Nat /\ size \in Nat /\ text < size
      /\ z \in 0 .. (MaxZhuyin + N_MAX_KEYCODE_PINYIN) /\ s.bc \in Bims
  BY BimsphoneConstants DEF Stale, Known, Worlds, Bims
<1>2. CASE ~Autosel(s.cf)
  <2>1. t = [s EXCEPT !.z = z]
    BY <1>2 DEF EditingStatus, On, Autosel
  <2>2. t \in Worlds /\ t.bc = s.bc /\ t.cf = s.cf /\ t.ret = s.ret /\ t.got = s.got
        /\ t.listchar = s.listchar /\ t.selspot = s.selspot /\ t.n_lcch = s.n_lcch
    BY <1>1, <2>1 DEF Worlds
  <2> QED
    BY <1>2, <2>2 DEF Stale, Copied, Known, Roomy
<1>3. CASE Autosel(s.cf)
  <2>1. PICK n \in IF text = 0 THEN {0} ELSE 1 .. text :
            t = [s EXCEPT !.z = z, !.n_lcch = text, !.size = size,
                      !.composed = (z = 0 /\ text > 0),
                      !.gsize = IF @ <= n THEN n + 1 ELSE @,
                      !.galloc = IF s.gsize <= n THEN size ELSE @]
    BY <1>3 DEF EditingStatus, On, Autosel
  <2>2. n \in Nat /\ n <= text
    BY <1>1, <2>1
  <2> HIDE DEF text, z, size
  <2> DEFINE mark == z = 0 /\ text > 0
             gs == IF s.gsize <= n THEN n + 1 ELSE s.gsize
             ga == IF s.gsize <= n THEN size ELSE s.galloc
  <2>3. mark \in BOOLEAN /\ gs \in Nat /\ ga \in Nat
    BY <1>1, <2>2 DEF Worlds
  <2>4. t = [s EXCEPT !.z = z, !.n_lcch = text, !.size = size, !.composed = mark,
                      !.gsize = gs, !.galloc = ga]
    BY <1>1, <2>1 DEF Worlds
  <2> HIDE DEF mark, gs, ga
  <2>5. /\ t \in Worlds /\ t.bc = s.bc /\ t.cf = s.cf /\ t.ret = s.ret /\ t.got = s.got
        /\ t.listchar = s.listchar /\ t.selspot = s.selspot /\ t.n_lcch = text
        /\ t.size = size /\ t.composed = mark /\ t.z = z /\ t.gsize = gs /\ t.galloc = ga
    BY <1>1, <2>3, <2>4 DEF Worlds
  <2>6. /\ t \in Worlds /\ t.bc = s.bc /\ t.cf = s.cf /\ t.ret = s.ret /\ t.got = s.got
        /\ t.listchar = s.listchar /\ t.selspot = s.selspot /\ t.n_lcch = text
        /\ t.size = size /\ t.composed = (z = 0 /\ text > 0) /\ t.z = z
        /\ t.gsize = IF s.gsize <= n THEN n + 1 ELSE s.gsize
        /\ t.galloc = IF s.gsize <= n THEN size ELSE s.galloc
    BY <2>5 DEF mark, gs, ga
  <2>7. s.gsize \in Nat /\ s.galloc \in Nat /\ s.gsize <= s.galloc
    BY <1>1, <1>3 DEF Stale, Worlds
  <2>8. t.gsize <= t.galloc /\ t.n_lcch < t.size
    BY <1>1, <2>2, <2>6, <2>7
  <2>9. t.n_lcch = t.bc.text
    BY <2>6 DEF text
  <2> QED
    BY <1>1, <1>3, <2>6, <2>8, <2>9 DEF Stale, Copied, Known, Roomy
<1> QED
  BY <1>2, <1>3

\* commit_string() hands over text, if there is text.
LEMMA CommitTakes ==
  ASSUME NEW s, Known(s), NEW n \in Nat, NEW t \in CommitString(s, n)
  PROVE  /\ Known(t) /\ t.cf = s.cf /\ t.bc.state = s.bc.state /\ t.gsize = s.gsize
         /\ t.galloc = s.galloc /\ t.listchar = s.listchar /\ t.selspot = s.selspot
         /\ s.bc.text > 0 => t.got > 0
<1> DEFINE text == s.bc.text
<1>1. s \in Worlds /\ s.cf \in Methods /\ text \in Nat /\ s.bc \in Bims
  BY DEF Known, Worlds, Bims
<1>2. PICK k \in IF n >= text THEN {text} ELSE 1 .. n :
         t = [Uses(s) EXCEPT !.bc.text = @ - k, !.got = k]
  BY DEF CommitString
<1>3. k \in Nat /\ k <= text /\ (text > 0 => k > 0)
  BY <1>1, <1>2
<1>4. t = [s EXCEPT !.used = TRUE, !.bc = [s.bc EXCEPT !.text = text - k], !.got = k]
  BY <1>1, <1>2 DEF Uses, Worlds
<1> HIDE DEF text
<1>5. [s.bc EXCEPT !.text = text - k] \in Bims
      /\ [s.bc EXCEPT !.text = text - k].state = s.bc.state
  BY <1>1, <1>3 DEF Bims
<1>6. /\ t \in Worlds /\ t.cf = s.cf /\ t.bc = [s.bc EXCEPT !.text = text - k]
      /\ t.gsize = s.gsize /\ t.galloc = s.galloc /\ t.listchar = s.listchar
      /\ t.selspot = s.selspot /\ t.got = k
  BY <1>1, <1>3, <1>4, <1>5 DEF Worlds
<1> QED
  BY <1>1, <1>3, <1>5, <1>6 DEF Known, text

\* Committing the text and looking at what is left.
LEMMA CommitStatus ==
  ASSUME NEW s, Known(s), s.bc.state = "EDITING", Autosel(s.cf), s.gsize <= s.galloc,
         s.listchar, s.bc.text > 0, NEW n \in Nat,
         NEW flags \in SUBSET Flag, "COMMIT" \in flags,
         NEW t \in Then(CommitString(s, n), EditingStatus)
  PROVE  Good(Answer(t, flags)) /\ Answer(t, flags).cf = s.cf
<1>1. PICK u \in CommitString(s, n) : t \in EditingStatus(u)
  BY DEF Then
<1>2. Stale(u) /\ u.cf = s.cf /\ u.listchar /\ u.got > 0
  BY CommitTakes DEF Stale
<1>3. Copied(t) /\ t.cf = s.cf /\ t.listchar /\ t.got = u.got
  BY <1>1, <1>2, StatusCopies
<1>4. Sound(t) /\ Known(t)
  BY <1>3, CopiedSound DEF Editing, Copied
<1> DEFINE a == Answer(t, flags)
<1>5. Like(t, a) /\ a.ret = flags /\ a.got = t.got
  BY <1>4, AnswerLike
<1> HIDE DEF a
<1>6. Good(a) /\ a.cf = s.cf
  BY <1>2, <1>3, <1>4, <1>5, LikeSound DEF Good, Answers, Like
<1> QED
  BY <1>6 DEF a

\* An answer with no text.
LEMMA PlainAnswer ==
  ASSUME NEW s, Open(s), NEW flags \in SUBSET Flag, "COMMIT" \notin flags
  PROVE  Good(Answer(s, flags))
<1> DEFINE a == Answer(s, flags)
<1>1. Like(s, a) /\ a.ret = flags /\ a.got = 0
  BY AnswerLike DEF Open, Sound
<1> HIDE DEF a
<1>2. Good(a)
  BY <1>1, LikeSound DEF Open, Good, Answers
<1> QED
  BY <1>2 DEF a

\* The text is committed before the key goes elsewhere, and the answer says so.
LEMMA CommitBeforeGood ==
  ASSUME NEW s, Open(s), s.bc.state = "EDITING",
         NEW flags \in SUBSET (Flag \ {"COMMIT"}), NEW t \in CommitBefore(s, flags)
  PROVE  Good(t)
<1>1. CASE flags \in {{}, {"IGNORE"}} \/ s.n_lcch = 0
  <2>1. t = Answer(s, flags)
    BY <1>1 DEF CommitBefore
  <2> QED
    BY <2>1, PlainAnswer
<1>2. CASE ~(flags \in {{}, {"IGNORE"}} \/ s.n_lcch = 0)
  <2>1. t \in CommitAll(s, flags \cup {"COMMIT"})
    BY <1>2 DEF CommitBefore
  <2>2. PICK u \in Then(CommitString(s, s.n_lcch), EditingStatus) :
            t = Answer(u, flags \cup {"COMMIT"})
    BY <2>1 DEF CommitAll
  <2>3. Sound(s) /\ Known(s) /\ s.n_lcch \in Nat /\ s.n_lcch # 0
    BY <1>2 DEF Open, Sound, Known, Worlds
  <2>4. Autosel(s.cf) /\ s.gsize <= s.galloc /\ s.listchar /\ s.bc.text > 0
    BY <2>3 DEF Sound, Mirrors, Roomy
  <2>5. flags \cup {"COMMIT"} \in SUBSET Flag
    BY DEF Flag
  <2> QED
    BY <2>2, <2>3, <2>4, <2>5, CommitStatus
<1> QED
  BY <1>1, <1>2

\* modifier_escape() and check_qphr_fallback() end so.
LEMMA EscapeGood ==
  ASSUME NEW s, Open(s), s.bc.state = "EDITING", NEW key, NEW mods
  PROVE  \A t \in ModifierEscape(s, key, mods) \cup QphrFallback(s, key) : Good(t)
<1> DEFINE Plain == Flag \ {"COMMIT"}
<1>1. /\ {} \subseteq Plain /\ {"IGNORE"} \subseteq Plain /\ {"CTRLPHR"} \subseteq Plain
      /\ {"ALTPHR"} \subseteq Plain /\ {"SHIFTESC"} \subseteq Plain
      /\ {"SHIFTPHR", "SHIFTESC"} \subseteq Plain /\ {"FALLBACKPHR"} \subseteq Plain
  BY DEF Flag
<1> HIDE DEF Plain
<1>2. ASSUME NEW t \in QphrFallback(s, key) PROVE Good(t)
  <2> DEFINE flags == IF "fallback" \in Rc[s.cf].esc /\ key \in OneChar /\ s.listchar
                        THEN {"FALLBACKPHR"}
                      ELSE IF s.n_lcch > 0 THEN {} ELSE {"IGNORE"}
  <2>1. t \in CommitBefore(s, flags)
    BY DEF QphrFallback
  <2>2. flags \in SUBSET Plain
    BY <1>1
  <2> HIDE DEF flags
  <2> QED
    BY <2>1, <2>2, CommitBeforeGood DEF Plain
<1>3. ASSUME NEW t \in ModifierEscape(s, key, mods) PROVE Good(t)
  <2> DEFINE esc == Rc[s.cf].esc
             busy == s.n_lcch > 0
             one == key \in OneChar
             first == IF "ctrl" \in mods
                   THEN IF "ctrl" \in esc THEN {"CTRLPHR"}
                        ELSE IF busy THEN {} ELSE {"IGNORE"}
                 ELSE IF "alt" \in mods
                   THEN IF "alt" \in esc THEN {"ALTPHR"}
                        ELSE IF busy THEN {} ELSE {"IGNORE"}
                 ELSE IF "shift" \in mods
                   THEN IF "shift" \in esc THEN {"SHIFTPHR", "SHIFTESC"}
                        ELSE IF busy THEN {}
                        ELSE IF one THEN {"SHIFTESC"} ELSE {"IGNORE"}
                 ELSE {}
             lock == IF "lock" \notin mods THEN {}
                ELSE IF mods \cap {"ctrl", "alt"} = {} /\ one /\ s.listchar
                  THEN {"SHIFTESC"} ELSE {"IGNORE"}
  <2>1. t \in CommitBefore(s, first \cup lock)
    BY DEF ModifierEscape
  <2> HIDE DEF esc, busy, one
  <2>2. first \subseteq Plain
    BY <1>1
  <2>3. lock \subseteq Plain
    BY <1>1
  <2> HIDE DEF first, lock
  <2>4. first \cup lock \in SUBSET Plain
    BY <2>2, <2>3
  <2> QED
    BY <2>1, <2>4, CommitBeforeGood DEF Plain
<1> QED
  BY <1>2, <1>3

\* What an answer of bims has changed.
MovedTo(b, f, z, n) ==
    /\ f.bc = [b EXCEPT !.zhuyin = z, !.text = n]
    /\ f.val \in {"IGNORE", "ABSORB", "COMMIT"}
    /\ f.val = "IGNORE" => f.bc = b
    /\ f.val = "COMMIT" => n > 0
    /\ b.text = 0 /\ n > 0 => z = 0 /\ b.zhuyin > 0
Moved(b, f) == \E z \in 0 .. MaxZhuyin : \E n \in Nat : MovedTo(b, f, z, n)

\* bims changes the syllable or the text, never where it stands; text that is new
\* has used up the syllable, and a key refused has changed nothing.
LEMMA FeedType ==
  ASSUME NEW b \in Bims, NEW key, NEW f \in Feed(b, key)
  PROVE  /\ f.bc \in Bims /\ f.bc.state = b.state /\ f.bc.cands = b.cands
         /\ f.bc.base = b.base
         /\ f.val \in {"IGNORE", "ABSORB", "COMMIT"}
         /\ f.val = "IGNORE" => f.bc = b
         /\ f.val = "COMMIT" => f.bc.text > 0
         /\ b.text = 0 /\ f.bc.text > 0 => f.bc.zhuyin = 0 /\ b.zhuyin > 0
<1> DEFINE Symbol(z) == [bc |-> [b EXCEPT !.zhuyin = z], val |-> "ABSORB"]
           Same(val) == [bc |-> b, val |-> val]
           Erased == [bc |-> [b EXCEPT !.text = b.text - 1], val |-> "ABSORB"]
<1>1. /\ b.text \in Nat /\ b.zhuyin \in 0 .. MaxZhuyin /\ MaxZhuyin \in Nat
  BY BimsphoneConstants DEF Bims
<1>2. /\ f = Same("IGNORE") => Moved(b, f)
      /\ f = Same("ABSORB") /\ b.text > 0 => Moved(b, f)
  <2>1. b = [b EXCEPT !.zhuyin = b.zhuyin, !.text = b.text]
    BY DEF Bims
  <2>2. ASSUME f = Same("IGNORE") PROVE Moved(b, f)
    <3>1. f.bc = b /\ f.val = "IGNORE"
      BY <2>2
    <3>2. MovedTo(b, f, b.zhuyin, b.text)
      BY <1>1, <2>1, <3>1 DEF MovedTo
    <3> QED
      BY Zenon, <1>1, <3>2 DEF Moved
  <2>3. ASSUME f = Same("ABSORB"), b.text > 0 PROVE Moved(b, f)
    <3>1. f.bc = b /\ f.val = "ABSORB"
      BY <2>3
    <3>2. MovedTo(b, f, b.zhuyin, b.text)
      BY <1>1, <2>1, <2>3, <3>1 DEF MovedTo
    <3> QED
      BY Zenon, <1>1, <3>2 DEF Moved
  <2> QED
    BY <2>2, <2>3
<1>3. ASSUME NEW z \in 0 .. MaxZhuyin, f = Symbol(z) PROVE Moved(b, f)
  <2>1. f.bc = [b EXCEPT !.zhuyin = z, !.text = b.text] /\ f.val = "ABSORB"
    BY <1>3 DEF Bims
  <2>2. MovedTo(b, f, z, b.text)
    BY <1>1, <2>1 DEF MovedTo
  <2> QED
    BY Zenon, <1>1, <2>2 DEF Moved
<1>4. ASSUME b.zhuyin > 0, f \in Compose(b) PROVE Moved(b, f)
  <2> DEFINE val == IF b.text + 1 > b.maxlen THEN "COMMIT" ELSE "ABSORB"
             c == [b EXCEPT !.text = b.text + 1, !.zhuyin = 0]
  <2>0. f = [bc |-> c, val |-> val]
    BY <1>4 DEF Compose
  <2>4. c = [b EXCEPT !.zhuyin = 0, !.text = b.text + 1] /\ val \in {"ABSORB", "COMMIT"}
    BY DEF Bims
  <2> HIDE DEF val, c
  <2>1. /\ f.bc = [b EXCEPT !.zhuyin = 0, !.text = b.text + 1]
        /\ f.val \in {"ABSORB", "COMMIT"}
    BY <2>0, <2>4
  <2>2. 0 \in 0 .. MaxZhuyin /\ b.text + 1 \in Nat /\ b.text + 1 > 0
    BY <1>1
  <2>3. MovedTo(b, f, 0, b.text + 1)
    BY <1>4, <2>1, <2>2 DEF MovedTo
  <2> QED
    BY Zenon, <2>2, <2>3 DEF Moved
<1>5. ASSUME b.text > 0, f = Erased PROVE Moved(b, f)
  <2>1. f.bc = [b EXCEPT !.zhuyin = b.zhuyin, !.text = b.text - 1] /\ f.val = "ABSORB"
    BY <1>5 DEF Bims
  <2>2. b.text - 1 \in Nat /\ b.text # 0
    BY <1>1, <1>5
  <2>3. MovedTo(b, f, b.zhuyin, b.text - 1)
    BY <1>1, <2>1, <2>2 DEF MovedTo
  <2> QED
    BY Zenon, <1>1, <2>2, <2>3 DEF Moved
<1>6. Moved(b, f)
  <2>1. CASE key \in {"char", "space"} \cup Range(Selkey)
    <3>1. b.zhuyin < MaxZhuyin => b.zhuyin + 1 \in 0 .. MaxZhuyin
      BY <1>1
    <3>2. f \in {Same("IGNORE")}
                 \cup (IF b.zhuyin < MaxZhuyin THEN {Symbol(b.zhuyin + 1)} ELSE {})
                 \cup (IF b.zhuyin > 0 THEN Compose(b) ELSE {})
      BY <1>1, <2>1, BimsphoneConstants DEF Feed
    <3> HIDE DEF Same, Symbol
    <3>3. \/ f = Same("IGNORE")
          \/ b.zhuyin < MaxZhuyin /\ f = Symbol(b.zhuyin + 1)
          \/ b.zhuyin > 0 /\ f \in Compose(b)
      BY <3>2
    <3> QED
      BY <1>2, <1>3, <1>4, <3>1, <3>3
  <2>2. CASE key \notin {"char", "space"} \cup Range(Selkey)
    <3>1. 0 \in 0 .. MaxZhuyin /\ (b.zhuyin > 0 => b.zhuyin - 1 \in 0 .. MaxZhuyin)
      BY <1>1
    <3>2. \/ f = Same("IGNORE")
          \/ f = Same("ABSORB") /\ b.text > 0
          \/ b.zhuyin > 0 /\ f = Symbol(b.zhuyin - 1)
          \/ f = Symbol(0)
          \/ b.text > 0 /\ f = Erased
      BY <2>2 DEF Feed
    <3> HIDE DEF Same, Symbol, Erased
    <3> QED
      BY <1>2, <1>3, <1>5, <3>1, <3>2
  <2> QED
    BY <2>1, <2>2
<1>7. PICK z \in 0 .. MaxZhuyin : \E n \in Nat : MovedTo(b, f, z, n)
  BY <1>6 DEF Moved
<1> PICK n \in Nat : MovedTo(b, f, z, n)
  BY <1>7
<1>8. /\ f.bc \in Bims /\ f.bc.state = b.state /\ f.bc.cands = b.cands
      /\ f.bc.base = b.base /\ f.bc.text = n /\ f.bc.zhuyin = z
  BY DEF MovedTo, Bims
<1> QED
  BY <1>8 DEF MovedTo

\* A world in which bims has been fed.
Fed(s, f) == [Uses(s) EXCEPT !.bc = f.bc]

\* Feeding bims touches nothing but bims.
LEMMA FedType ==
  ASSUME NEW s, Known(s), NEW key, NEW f \in Feed(s.bc, key)
  PROVE  /\ Known(Fed(s, f)) /\ Fed(s, f).bc = f.bc /\ Fed(s, f).cf = s.cf
         /\ Fed(s, f).ret = s.ret /\ Fed(s, f).got = s.got
         /\ Fed(s, f).n_lcch = s.n_lcch /\ Fed(s, f).gsize = s.gsize
         /\ Fed(s, f).galloc = s.galloc /\ Fed(s, f).listchar = s.listchar
         /\ Fed(s, f).selspot = s.selspot
         /\ f.bc = s.bc => Like(s, Fed(s, f))
<1>1. s.bc \in Bims /\ s \in Worlds /\ s.cf \in Methods
  BY DEF Known, Worlds
<1>2. f.bc \in Bims
  BY <1>1, FeedType
<1>3. Fed(s, f) = [s EXCEPT !.used = TRUE, !.bc = f.bc]
  BY <1>1 DEF Fed, Uses, Worlds
<1> DEFINE t == Fed(s, f)
<1> HIDE DEF t
<1>4. t = [s EXCEPT !.used = TRUE, !.bc = f.bc]
  BY <1>3 DEF t
<1>5. /\ t \in Worlds /\ t.bc = f.bc /\ t.cf = s.cf /\ t.ret = s.ret /\ t.got = s.got
      /\ t.n_lcch = s.n_lcch /\ t.gsize = s.gsize /\ t.galloc = s.galloc
      /\ t.listchar = s.listchar /\ t.selspot = s.selspot /\ t.z = s.z
      /\ t.mcch = s.mcch /\ t.pgstate = s.pgstate /\ t.composed = s.composed
      /\ t.size = s.size
  BY <1>1, <1>2, <1>4 DEF Worlds
<1>6. Known(t) /\ (f.bc = s.bc => Like(s, t))
  BY <1>1, <1>5 DEF Known, Like
<1> QED
  BY <1>5, <1>6 DEF t

\* What bims answers to a keystroke that an auto-selecting method passes on:
\* nothing has changed, text is to be committed, or is to be looked at.
Answered(a) ==
    /\ a.final \in BOOLEAN
    /\ a.final => Good(a.s)
    /\ ~a.final =>
          /\ a.rval \in {"IGNORE", "ABSORB", "COMMIT"}
          /\ Stale(a.s) /\ Autosel(a.s.cf) /\ a.s.listchar /\ a.s.ret = {} /\ a.s.got = 0
          /\ a.rval = "COMMIT" => a.s.bc.text > 0
          /\ a.rval = "IGNORE" => Open(a.s)

\* So it is when the key goes to bims.
LEMMA FedAnswered ==
  ASSUME NEW s, Open(s), Autosel(s.cf), s.bc.state = "EDITING",
         NEW key, NEW f \in Feed(s.bc, key)
  PROVE  Answered([final |-> FALSE, rval |-> f.val, s |-> Fed(s, f)])
<1> DEFINE t == Fed(s, f)
<1>1. Known(s) /\ Sound(s) /\ Stale(s) /\ s.listchar /\ s.bc \in Bims
  BY SoundCopied DEF Open, Sound, Editing, Known, Worlds
<1>2. /\ f.bc.state = "EDITING" /\ f.val \in {"IGNORE", "ABSORB", "COMMIT"}
      /\ f.val = "IGNORE" => f.bc = s.bc
      /\ f.val = "COMMIT" => f.bc.text > 0
  BY <1>1, FeedType
<1>3. /\ Known(t) /\ t.bc = f.bc /\ t.cf = s.cf /\ t.ret = {} /\ t.got = 0
      /\ t.gsize = s.gsize /\ t.galloc = s.galloc /\ t.listchar
      /\ f.bc = s.bc => Like(s, t)
  BY <1>1, FedType DEF Open
<1> HIDE DEF t
<1>4. Stale(t)
  BY <1>1, <1>2, <1>3 DEF Stale
<1>5. f.val = "IGNORE" => Open(t)
  BY <1>1, <1>2, <1>3, LikeSound DEF Open
<1>6. Answered([final |-> FALSE, rval |-> f.val, s |-> t])
  BY <1>2, <1>3, <1>4, <1>5 DEF Answered
<1> QED
  BY <1>6 DEF t

\* An answer that is final and hands over nothing.
LEMMA FinalAnswered ==
  ASSUME NEW s, Open(s), NEW flags \in SUBSET Flag, "COMMIT" \notin flags
  PROVE  Answered([final |-> TRUE, rval |-> "IGNORE", s |-> Answer(s, flags)])
<1>1. Good(Answer(s, flags))
  BY PlainAnswer
<1> QED
  BY <1>1 DEF Answered

\* The syllable of a context, as typed with pinyin.
Spelt(s, z, mark) == [s EXCEPT !.z = z, !.composed = mark]

\* A syllable that changes leaves the rest, and the mark stays honest.
LEMMA SpeltOpen ==
  ASSUME NEW s, Open(s), s.bc.state = "EDITING", Autosel(s.cf), Rc[s.cf].pinyin,
         NEW z \in 0 .. (MaxZhuyin + N_MAX_KEYCODE_PINYIN), NEW mark \in BOOLEAN,
         mark => z = 0 /\ s.n_lcch > 0
  PROVE  Open(Spelt(s, z, mark))
<1> DEFINE t == Spelt(s, z, mark)
<1>1. Copied(s) /\ Editing(s) /\ s \in Worlds /\ s.cf \in Methods
  BY SoundCopied DEF Open, Sound, Known
<1>2. /\ t \in Worlds /\ t.cf = s.cf /\ t.bc = s.bc /\ t.n_lcch = s.n_lcch
      /\ t.size = s.size /\ t.gsize = s.gsize /\ t.galloc = s.galloc
      /\ t.listchar = s.listchar /\ t.z = z /\ t.composed = mark
      /\ t.ret = s.ret /\ t.got = s.got
  BY <1>1 DEF Spelt, Worlds
<1> HIDE DEF t
<1>3. Copied(t) /\ Editing(t)
  BY <1>1, <1>2 DEF Copied, Editing, Known, Roomy
<1>4. Open(t)
  BY <1>2, <1>3, CopiedSound DEF Open
<1> QED
  BY <1>4 DEF t

\* The window is cleared and the mark of the selection keys taken away.
LEMMA ClearOpen ==
  ASSUME NEW s, Open(s), s.bc.state = "EDITING"
  PROVE  /\ Open([s EXCEPT !.mcch = <<>>]) /\ [s EXCEPT !.mcch = <<>>].bc = s.bc
         /\ [s EXCEPT !.mcch = <<>>].cf = s.cf
         /\ Autosel(s.cf) => /\ Open([s EXCEPT !.selspot = FALSE])
                          /\ [s EXCEPT !.selspot = FALSE].bc = s.bc
                          /\ [s EXCEPT !.selspot = FALSE].cf = s.cf
<1>1. Copied(s) /\ Editing(s) /\ s \in Worlds /\ s.cf \in Methods
  BY SoundCopied DEF Open, Sound, Known
<1>0. <<>> \in Seq(Cand)
  OBVIOUS
<1> DEFINE t == [s EXCEPT !.mcch = <<>>]
           u == [s EXCEPT !.selspot = FALSE]
<1>2. /\ t \in Worlds /\ t.cf = s.cf /\ t.bc = s.bc /\ t.n_lcch = s.n_lcch
      /\ t.size = s.size /\ t.gsize = s.gsize /\ t.galloc = s.galloc
      /\ t.listchar = s.listchar /\ t.selspot = s.selspot /\ t.z = s.z
      /\ t.composed = s.composed /\ t.ret = s.ret /\ t.got = s.got
  BY <1>0, <1>1 DEF Worlds
<1>3. /\ u \in Worlds /\ u.cf = s.cf /\ u.bc = s.bc /\ u.n_lcch = s.n_lcch
      /\ u.size = s.size /\ u.gsize = s.gsize /\ u.galloc = s.galloc
      /\ u.listchar = s.listchar /\ u.z = s.z
      /\ u.composed = s.composed /\ u.ret = s.ret /\ u.got = s.got
  BY <1>1 DEF Worlds
<1> HIDE DEF t, u
<1>4. Copied(t) /\ Editing(t)
  BY <1>1, <1>2 DEF Copied, Editing, Known, Roomy
<1>5. Autosel(s.cf) => Copied(u) /\ Editing(u)
  BY <1>1, <1>3 DEF Copied, Editing, Known, Roomy
<1>6. Open(t) /\ t.bc = s.bc /\ t.cf = s.cf
  BY <1>2, <1>4, CopiedSound DEF Open
<1>7. Autosel(s.cf) => Open(u) /\ u.bc = s.bc /\ u.cf = s.cf
  BY <1>3, <1>5, CopiedSound DEF Open
<1> QED
  BY <1>6, <1>7 DEF t, u

\* A whole syllable given to bims: it stays there, or becomes a character.
LEMMA SyllableAnswered ==
  ASSUME NEW s, Open(s), s.bc.state = "EDITING", Autosel(s.cf), Rc[s.cf].pinyin,
         NEW f \in {[bc |-> [s.bc EXCEPT !.zhuyin = MaxZhuyin], val |-> "ABSORB"]}
                      \cup Compose(s.bc)
  PROVE  IF f.bc.zhuyin > 0
         THEN Answered([final |-> TRUE, rval |-> "IGNORE",
                        s |-> Answer([Uses(s) EXCEPT !.bc = f.bc], {"BELL"})])
         ELSE Answered([final |-> FALSE, rval |-> f.val,
                        s |-> Spelt([Uses(s) EXCEPT !.bc = f.bc], 0, TRUE)])
<1> DEFINE t == [Uses(s) EXCEPT !.bc = f.bc]
<1>1. /\ Copied(s) /\ Editing(s) /\ Stale(s) /\ s \in Worlds /\ s.cf \in Methods
      /\ s.bc \in Bims /\ s.bc.text \in Nat /\ MaxZhuyin \in Nat \ {0}
      /\ s.ret = {} /\ s.got = 0
  BY SoundCopied, BimsphoneConstants DEF Open, Sound, Known, Worlds, Bims
<1>2. CASE f = [bc |-> [s.bc EXCEPT !.zhuyin = MaxZhuyin], val |-> "ABSORB"]
  <2> DEFINE b == [s.bc EXCEPT !.zhuyin = MaxZhuyin]
  <2>1. b \in Bims /\ b.zhuyin = MaxZhuyin /\ b.text = s.bc.text /\ b.state = s.bc.state
    BY <1>1 DEF Bims
  <2> HIDE DEF b
  <2>2. f.bc = b
    BY <1>2 DEF b
  <2>3. t = [s EXCEPT !.used = TRUE, !.bc = b]
    BY <1>1, <2>2 DEF Uses, Worlds
  <2>4. /\ t \in Worlds /\ t.cf = s.cf /\ t.bc = b /\ t.n_lcch = s.n_lcch
        /\ t.size = s.size /\ t.gsize = s.gsize /\ t.galloc = s.galloc
        /\ t.listchar = s.listchar /\ t.z = s.z /\ t.composed = s.composed
        /\ t.ret = s.ret /\ t.got = s.got
    BY <1>1, <2>1, <2>3 DEF Worlds
  <2> HIDE DEF t
  <2>5. Copied(t) /\ Editing(t)
    BY <1>1, <2>1, <2>4 DEF Copied, Editing, Known, Roomy
  <2>6. Open(t)
    BY <1>1, <2>4, <2>5, CopiedSound DEF Open
  <2>7. Answered([final |-> TRUE, rval |-> "IGNORE", s |-> Answer(t, {"BELL"})])
    <3>1. {"BELL"} \in SUBSET Flag /\ "COMMIT" \notin {"BELL"}
      BY DEF Flag
    <3> QED
      BY <2>6, <3>1, FinalAnswered
  <2>8. f.bc.zhuyin > 0
    BY <1>1, <2>1, <2>2
  <2> QED
    BY <2>7, <2>8 DEF t
<1>3. CASE f \in Compose(s.bc)
  <2> DEFINE b == [s.bc EXCEPT !.text = s.bc.text + 1, !.zhuyin = 0]
             val == IF s.bc.text + 1 > s.bc.maxlen THEN "COMMIT" ELSE "ABSORB"
             u == Spelt(t, 0, TRUE)
  <2>1. b \in Bims /\ b.zhuyin = 0 /\ b.text > 0 /\ b.state = "EDITING"
    <3> DEFINE n == s.bc.text + 1
    <3>1. n \in Nat /\ n > 0 /\ 0 \in 0 .. MaxZhuyin
      BY <1>1
    <3> HIDE DEF n
    <3>2. [s.bc EXCEPT !.text = n, !.zhuyin = 0] \in Bims
      BY <1>1, <3>1 DEF Bims
    <3>3. /\ [s.bc EXCEPT !.text = n, !.zhuyin = 0].zhuyin = 0
          /\ [s.bc EXCEPT !.text = n, !.zhuyin = 0].text = n
          /\ [s.bc EXCEPT !.text = n, !.zhuyin = 0].state = s.bc.state
      BY <1>1 DEF Bims
    <3> QED
      BY <3>1, <3>2, <3>3 DEF n
  <2>2. f = [bc |-> b, val |-> val]
    BY <1>3 DEF Compose
  <2>3. val \in {"ABSORB", "COMMIT"}
    OBVIOUS
  <2> HIDE DEF b, val
  <2>4. f.bc = b /\ f.val = val
    BY <2>2
  <2>5. u = [s EXCEPT !.used = TRUE, !.bc = b, !.z = 0, !.composed = TRUE]
    BY <1>1, <2>4 DEF Uses, Worlds, Spelt
  <2> HIDE DEF u
  <2>6. /\ u \in Worlds /\ u.cf = s.cf /\ u.bc = b /\ u.n_lcch = s.n_lcch
        /\ u.gsize = s.gsize /\ u.galloc = s.galloc
        /\ u.listchar = s.listchar /\ u.ret = s.ret /\ u.got = s.got
    <3>1. 0 \in 0 .. (MaxZhuyin + N_MAX_KEYCODE_PINYIN)
      BY <1>1, BimsphoneConstants
    <3> QED
      BY <1>1, <2>1, <2>5, <3>1 DEF Worlds
  <2>7. Stale(u) /\ u.listchar
    BY <1>1, <2>1, <2>6 DEF Stale, Known, Editing
  <2>8. Answered([final |-> FALSE, rval |-> f.val, s |-> u])
    BY <1>1, <2>1, <2>3, <2>4, <2>6, <2>7 DEF Answered
  <2>9. ~(f.bc.zhuyin > 0)
    BY <2>1, <2>4
  <2> QED
    BY <2>8, <2>9 DEF u
<1> QED
  BY <1>2, <1>3

\* Whatever pinyin_keystroke() does with a key.
LEMMA PinyinAnswered ==
  ASSUME NEW s, Open(s), s.bc.state = "EDITING", Autosel(s.cf), Rc[s.cf].pinyin,
         NEW key, NEW a \in PinyinKeystroke(s, key)
  PROVE  Answered(a)
<1> DEFINE Final(t, flags) == [final |-> TRUE, rval |-> "IGNORE", s |-> Answer(t, flags)]
           Plain(t, val) == [final |-> FALSE, rval |-> val, s |-> t]
           Syllables == {[bc |-> [s.bc EXCEPT !.zhuyin = MaxZhuyin], val |-> "ABSORB"]}
                          \cup Compose(s.bc)
           Taken(f) == IF f.bc.zhuyin > 0 THEN Final([Uses(s) EXCEPT !.bc = f.bc], {"BELL"})
                       ELSE Plain(Spelt([Uses(s) EXCEPT !.bc = f.bc], 0, TRUE), f.val)
           Selects == {"space"} \cup Range(Selkey)
<1>1. /\ Copied(s) /\ Stale(s) /\ Editing(s) /\ s \in Worlds
      /\ s.z \in 0 .. (MaxZhuyin + N_MAX_KEYCODE_PINYIN) /\ s.ret = {} /\ s.got = 0
      /\ s.n_lcch \in Nat /\ s.composed \in BOOLEAN
      /\ MaxZhuyin \in Nat \ {0} /\ N_MAX_KEYCODE_PINYIN \in Nat
      /\ s.composed => s.z = 0 /\ s.n_lcch > 0
  BY SoundCopied, BimsphoneConstants DEF Open, Sound, Known, Worlds, Copied
<1>2. {} \in SUBSET Flag /\ {"BELL"} \in SUBSET Flag /\ "COMMIT" \notin {"BELL"}
  BY DEF Flag
<1>3. /\ s.z > 0 => s.z - 1 \in 0 .. (MaxZhuyin + N_MAX_KEYCODE_PINYIN)
      /\ s.z < N_MAX_KEYCODE_PINYIN => s.z + 1 \in 0 .. (MaxZhuyin + N_MAX_KEYCODE_PINYIN)
      /\ 0 \in 0 .. (MaxZhuyin + N_MAX_KEYCODE_PINYIN)
      /\ {TRUE, FALSE} \subseteq BOOLEAN
  BY <1>1
<1>4. ASSUME NEW z \in 0 .. (MaxZhuyin + N_MAX_KEYCODE_PINYIN), NEW mark \in BOOLEAN,
             mark => z = 0 /\ s.n_lcch > 0, NEW flags \in {{}, {"BELL"}},
             a = Final(Spelt(s, z, mark), flags)
      PROVE  Answered(a)
  <2>1. Open(Spelt(s, z, mark))
    BY <1>4, SpeltOpen
  <2> QED
    BY <1>2, <1>4, <2>1, FinalAnswered
<1>5. ASSUME NEW f \in Feed(s.bc, key), a = Plain([Uses(s) EXCEPT !.bc = f.bc], f.val)
      PROVE  Answered(a)
  <2>1. a = [final |-> FALSE, rval |-> f.val, s |-> Fed(s, f)]
    BY <1>5 DEF Fed
  <2> QED
    BY <2>1, FedAnswered
<1>6. ASSUME NEW f \in Syllables, a = Taken(f) PROVE Answered(a)
  BY <1>6, SyllableAnswered
<1>7. ASSUME a = Final(s, {"BELL"}) PROVE Answered(a)
  BY <1>2, <1>7, FinalAnswered
<1>8. ASSUME a = Plain(s, "IGNORE") PROVE Answered(a)
  BY <1>1, <1>8 DEF Answered, Editing
<1>9. /\ [s EXCEPT !.z = s.z - 1] = Spelt(s, s.z - 1, s.composed)
      /\ [s EXCEPT !.z = 0] = Spelt(s, 0, s.composed)
      /\ [s EXCEPT !.composed = FALSE] = Spelt(s, s.z, FALSE)
      /\ [s EXCEPT !.composed = FALSE, !.z = s.z + 1] = Spelt(s, s.z + 1, FALSE)
  BY <1>1 DEF Worlds, Spelt
<1>10. CASE key = "BackSpace"
  <2>1. \/ s.z > 0 /\ a = Final([s EXCEPT !.z = s.z - 1], {})
        \/ \E f \in Feed(s.bc, key) : a = Plain([Uses(s) EXCEPT !.bc = f.bc], f.val)
    BY <1>10, BimsphoneConstants DEF PinyinKeystroke, OneChar
  <2> HIDE DEF Final, Plain
  <2>2. ASSUME s.z > 0, a = Final([s EXCEPT !.z = s.z - 1], {}) PROVE Answered(a)
    <3>1. a = Final(Spelt(s, s.z - 1, s.composed), {})
      BY <1>9, <2>2
    <3>2. s.z - 1 \in 0 .. (MaxZhuyin + N_MAX_KEYCODE_PINYIN) /\ ~s.composed
      BY <1>1, <1>3, <2>2
    <3> QED
      BY <1>1, <1>4, <3>1, <3>2
  <2> QED
    BY <1>5, <2>1, <2>2
<1>11. CASE key = "Escape"
  <2>1. a = Final([s EXCEPT !.z = 0], {})
    BY <1>11, BimsphoneConstants DEF PinyinKeystroke, OneChar
  <2> HIDE DEF Final, Plain
  <2> QED
    BY <1>1, <1>3, <1>4, <1>9, <2>1
<1>12. CASE key \notin OneChar
  <2>1. \E f \in Feed(s.bc, key) : a = Plain([Uses(s) EXCEPT !.bc = f.bc], f.val)
    BY <1>12, BimsphoneConstants DEF PinyinKeystroke, OneChar
  <2> HIDE DEF Final, Plain
  <2> QED
    BY <1>5, <2>1
<1>13. CASE key \in Selects /\ s.z > 0
  <2>1. \/ a = Final(s, {"BELL"})
        \/ \E f \in Syllables : a = Taken(f)
    BY <1>13, BimsphoneConstants DEF PinyinKeystroke, OneChar, Spelt
  <2> HIDE DEF Final, Plain, Syllables, Taken
  <2> QED
    BY <1>6, <1>7, <2>1
<1>14. CASE key = "char"
  <2>1. \/ a = Final([s EXCEPT !.composed = FALSE], {"BELL"})
        \/ /\ ~(s.z >= N_MAX_KEYCODE_PINYIN)
           /\ a = Final([s EXCEPT !.composed = FALSE, !.z = s.z + 1], {})
    BY <1>14, BimsphoneConstants DEF PinyinKeystroke, OneChar
  <2> HIDE DEF Final, Plain
  <2>2. ~(s.z >= N_MAX_KEYCODE_PINYIN) => s.z < N_MAX_KEYCODE_PINYIN
    BY <1>1
  <2> QED
    BY <1>1, <1>3, <1>4, <1>9, <2>1, <2>2
<1>15. CASE /\ key \in OneChar \ {"BackSpace", "Escape", "char"}
            /\ ~(key \in Selects /\ s.z > 0)
  <2>1. a = Plain(s, "IGNORE")
    BY <1>15, BimsphoneConstants DEF PinyinKeystroke, OneChar
  <2> HIDE DEF Plain
  <2> QED
    BY <1>8, <2>1
<1> QED
  BY <1>10, <1>11, <1>12, <1>13, <1>14, <1>15

\* bims_keystroke() while text is edited.
LEMMA InEditingGood ==
  ASSUME NEW s0, Open(s0), s0.bc.state = "EDITING", Autosel(s0.cf), NEW key, NEW mods,
         NEW t \in InEditing(s0, key, mods)
  PROVE  Good(t)
<1> DEFINE s == [s0 EXCEPT !.selspot = FALSE]
           clear == [s EXCEPT !.mcch = <<>>]
           Plain(f) == [final |-> FALSE, rval |-> f.val,
                        s |-> [Uses(clear) EXCEPT !.bc = f.bc]]
           answers == IF Rc[s.cf].pinyin THEN PinyinKeystroke(clear, key)
                      ELSE {Plain(f) : f \in Feed(s.bc, key)}
           Done(a) ==
             CASE a.final -> {a.s}
               [] ~a.final /\ a.rval = "COMMIT" ->
                    {Answer(u, {"COMMIT"}) :
                       u \in Then(CommitString(a.s, a.s.maxlen), EditingStatus)}
               [] ~a.final /\ a.rval = "ABSORB" -> EditingStatus(a.s)
               [] OTHER -> QphrFallback(a.s, key)
<1>1. Open(s) /\ s.bc = s0.bc /\ s.cf = s0.cf
  BY ClearOpen
<1>2. t \in IF Escapes(mods) THEN ModifierEscape(s, key, mods)
            ELSE UNION {Done(a) : a \in answers}
  BY DEF InEditing
<1> HIDE DEF s, Done
<1>3. Open(clear) /\ clear.bc = s.bc /\ clear.cf = s.cf
  BY <1>1, ClearOpen
<1> HIDE DEF clear, answers
<1>4. CASE Escapes(mods)
  BY <1>1, <1>2, <1>4, EscapeGood
<1>5. CASE ~Escapes(mods)
  <2>1. PICK a \in answers : t \in Done(a)
    BY <1>2, <1>5
  <2>2. Answered(a)
    <3>1. CASE Rc[s.cf].pinyin
      <4>1. a \in PinyinKeystroke(clear, key)
        BY <2>1, <3>1 DEF answers
      <4> QED
        BY <1>1, <1>3, <3>1, <4>1, PinyinAnswered
    <3>2. CASE ~Rc[s.cf].pinyin
      <4>1. PICK f \in Feed(clear.bc, key) : a = Plain(f)
        BY <1>3, <2>1, <3>2 DEF answers
      <4>2. Answered([final |-> FALSE, rval |-> f.val, s |-> Fed(clear, f)])
        BY <1>1, <1>3, FedAnswered
      <4> QED
        BY <4>1, <4>2 DEF Fed
    <3> QED
      BY <3>1, <3>2
  <2>3. CASE a.final
    <3>1. t = a.s
      BY <2>1, <2>3 DEF Done
    <3> QED
      BY <2>2, <2>3, <3>1 DEF Answered
  <2>4. CASE ~a.final /\ a.rval = "COMMIT"
    <3>1. PICK u \in Then(CommitString(a.s, a.s.maxlen), EditingStatus) :
             t = Answer(u, {"COMMIT"})
      BY <2>1, <2>4 DEF Done
    <3>2. /\ Known(a.s) /\ a.s.bc.state = "EDITING" /\ Autosel(a.s.cf)
          /\ a.s.gsize <= a.s.galloc /\ a.s.listchar /\ a.s.bc.text > 0
      BY <2>2, <2>4 DEF Answered, Stale
    <3>3. a.s.maxlen \in Nat /\ {"COMMIT"} \in SUBSET Flag
      BY <3>2 DEF Known, Worlds, Flag
    <3> QED
      BY <3>1, <3>2, <3>3, CommitStatus
  <2>5. CASE ~a.final /\ a.rval = "ABSORB"
    <3>1. t \in EditingStatus(a.s)
      BY <2>1, <2>5 DEF Done
    <3>2. Stale(a.s) /\ Autosel(a.s.cf) /\ a.s.listchar /\ a.s.ret = {} /\ a.s.got = 0
      BY <2>2, <2>5 DEF Answered
    <3>3. Copied(t) /\ Editing(t) /\ t.ret = {} /\ t.got = 0
      BY <3>1, <3>2, StatusCopies DEF Editing
    <3> QED
      BY <3>3, CopiedSound DEF Good, Answers
  <2>6. CASE ~a.final /\ a.rval = "IGNORE"
    <3>1. t \in QphrFallback(a.s, key)
      BY <2>1, <2>6 DEF Done
    <3>2. Open(a.s) /\ a.s.bc.state = "EDITING"
      BY <2>2, <2>6 DEF Answered, Stale
    <3> QED
      BY <3>1, <3>2, EscapeGood
  <2> QED
    BY <2>2, <2>3, <2>4, <2>5, <2>6 DEF Answered
<1> QED
  BY <1>4, <1>5

-----------------------------------------------------------------------------
(* Selection.                                                              *)

\* A candidate is being selected; only the key that opens the selection finds a
\* window with no page.
Selects(s, key) ==
    /\ Known(s) /\ Mirrors(s) /\ Roomy(s) /\ Listed(s.bc, s.cf)
    /\ s.bc.state # "EDITING" /\ s.ret = {} /\ s.got = 0
    /\ PagesAssumed => Placed(s) /\ (key = "nokey" \/ Shown(s))

\* The mark of the selection keys is set, which a context that does not select
\* by itself has set already.
LEMMA MarkSelects ==
  ASSUME NEW s, NEW key, Selects(s, key)
  PROVE  LET t == [s EXCEPT !.selspot = TRUE]
         IN  /\ Selects(t, key) /\ t.cf = s.cf /\ t.bc = s.bc
             /\ PagesAssumed /\ Shown(s) => Shown(t)
<1> DEFINE t == [s EXCEPT !.selspot = TRUE]
<1>1. s \in Worlds /\ s.cf \in Methods
  BY DEF Selects, Known
<1>2. /\ t \in Worlds /\ t.cf = s.cf /\ t.bc = s.bc /\ t.n_lcch = s.n_lcch
      /\ t.size = s.size /\ t.gsize = s.gsize /\ t.galloc = s.galloc
      /\ t.listchar = s.listchar /\ t.selspot /\ t.z = s.z /\ t.mcch = s.mcch
      /\ t.pgstate = s.pgstate /\ t.composed = s.composed /\ t.ret = s.ret /\ t.got = s.got
  BY <1>1 DEF Worlds
<1> HIDE DEF t
<1>3. Known(t) /\ Mirrors(t) /\ Roomy(t) /\ Listed(t.bc, t.cf)
  BY <1>1, <1>2 DEF Selects, Known, Mirrors, Roomy
<1>4. EvenPages(t) <=> EvenPages(s)
  BY <1>2, EvenSame
<1>5. (Placed(s) => Placed(t)) /\ (Shown(s) => Shown(t))
  BY <1>2, <1>4 DEF Placed, Shown, EndTold
<1>6. /\ Selects(t, key) /\ t.cf = s.cf /\ t.bc = s.bc
      /\ PagesAssumed /\ Shown(s) => Shown(t)
  BY <1>2, <1>3, <1>5 DEF Selects
<1> QED
  BY <1>6 DEF t

\* determine_selection() turns a page, or leaves everything to its caller.
LEMMA Determines ==
  ASSUME NEW s, NEW key
  PROVE  LET d == DetermineSelection(s, key)
         IN  \/ d.s = s /\ key # "nokey"
             \/ d.r = -1 /\ \E dir \in {-1, 0, 1} :
                               d.s = ShowPage(s, dir) /\ (key = "nokey" => dir = 0)
<1> DEFINE dir == IF key \in {"space", "Next"} THEN 1 ELSE IF key = "Prev" THEN -1 ELSE 0
           turn == key \in {"space", "Next", "Prev", "nokey"}
           d == DetermineSelection(s, key)
<1>1. dir \in {-1, 0, 1} /\ (key = "nokey" => dir = 0 /\ turn)
  OBVIOUS
<1>2. \/ d.s = s /\ key # "nokey"
      \/ d = [r |-> -1, s |-> ShowPage(s, dir)]
  <2>1. CASE key \in {"Escape", "OffPage", "BackSpace"}
    BY <2>1 DEF DetermineSelection
  <2>2. CASE turn
    BY <2>2 DEF DetermineSelection
  <2>3. CASE key \notin {"Escape", "OffPage", "BackSpace"} /\ ~turn
    BY <2>3 DEF DetermineSelection
  <2> QED
    BY <2>1, <2>2, <2>3
<1> HIDE DEF d, dir
<1>3. \/ d.s = s /\ key # "nokey"
      \/ d.r = -1 /\ d.s = ShowPage(s, dir)
  BY <1>2
<1>4. \/ d.s = s /\ key # "nokey"
      \/ d.r = -1 /\ \E e \in {-1, 0, 1} : d.s = ShowPage(s, e) /\ (key = "nokey" => e = 0)
  BY <1>1, <1>3
<1> QED
  BY <1>4 DEF d

\* While the selection goes on, its page is shown.
LEMMA StaysGood ==
  ASSUME NEW s, NEW key, Selects(s, key), DetermineSelection(s, key).r = -1
  PROVE  Good(DetermineSelection(s, key).s)
<1> DEFINE t == DetermineSelection(s, key).s
<1>1. \/ t = s /\ key # "nokey"
      \/ \E dir \in {-1, 0, 1} : t = ShowPage(s, dir) /\ (key = "nokey" => dir = 0)
  BY Determines
<1> HIDE DEF t
<1>2. ASSUME t = s /\ key # "nokey" PROVE Good(t)
  BY <1>2 DEF Selects, Good, Sound, Answers, Paged
<1>3. ASSUME \E dir \in {-1, 0, 1} : t = ShowPage(s, dir) /\ (key = "nokey" => dir = 0)
      PROVE  Good(t)
  <2>1. PICK dir \in {-1, 0, 1} : t = ShowPage(s, dir) /\ (key = "nokey" => dir = 0)
    BY <1>3
  <2>2. Turned(s, t)
    BY <2>1, ShowPageTurns DEF Selects
  <2>3. Paged(t)
    BY <2>1, ShowPageShows DEF Selects
  <2>4. s \in Worlds /\ s.bc \in Bims /\ Known(t) /\ t \in Worlds /\ Listed(t.bc, t.cf)
    BY <2>2 DEF Selects, Known, Worlds, Turned
  <2>5. /\ t.cf = s.cf /\ t.bc = [s.bc EXCEPT !.base = t.bc.base] /\ t.n_lcch = s.n_lcch
        /\ t.size = s.size /\ t.gsize = s.gsize /\ t.galloc = s.galloc
        /\ t.listchar = s.listchar /\ t.selspot = s.selspot
        /\ t.ret = s.ret /\ t.got = s.got
    <3>1. t = [s EXCEPT !.bc.base = t.bc.base, !.mcch = t.mcch, !.composed = FALSE,
                        !.pgstate = t.pgstate]
      BY <2>2 DEF Turned
    <3> QED
      BY <2>4, <3>1 DEF Worlds
  <2>6. t.bc.state = s.bc.state /\ t.bc.text = s.bc.text
    BY <2>4, <2>5 DEF Bims
  <2>7. Mirrors(t) /\ Roomy(t)
    BY <2>5, <2>6 DEF Selects, Mirrors, Roomy
  <2> QED
    BY <2>3, <2>4, <2>5, <2>7 DEF Selects, Good, Sound, Answers
<1>4. Good(t)
  BY <1>1, <1>2, <1>3
<1> QED
  BY <1>4 DEF t

\* bims edits again.
LEMMA BackType ==
  ASSUME NEW s, Known(s), NEW flag \in BOOLEAN
  PROVE  LET t == [BackToEditing(IF flag THEN Pindown(s) ELSE s) EXCEPT !.mcch = <<>>]
         IN  /\ Known(t) /\ t.cf = s.cf /\ t.bc.state = "EDITING"
             /\ t.bc.text = s.bc.text /\ t.gsize = s.gsize /\ t.galloc = s.galloc
             /\ t.ret = s.ret /\ t.got = s.got
<1> DEFINE u == IF flag THEN Pindown(s) ELSE s
           b == [s.bc EXCEPT !.state = "EDITING", !.cands = <<>>, !.base = 0]
           t == [BackToEditing(u) EXCEPT !.mcch = <<>>]
<1>1. s \in Worlds /\ s.cf \in Methods /\ s.bc \in Bims
  BY DEF Known, Worlds
<1>2. <<>> \in Seq(Cand) /\ 0 \in Nat
  OBVIOUS
<1>3. b \in Bims /\ b.state = "EDITING" /\ b.text = s.bc.text
  BY <1>1, <1>2 DEF Bims
<1>4. /\ u \in Worlds /\ u.cf = s.cf /\ u.bc = s.bc /\ u.gsize = s.gsize
      /\ u.galloc = s.galloc /\ u.ret = s.ret /\ u.got = s.got
  <2>1. CASE flag
    BY <1>1, <2>1 DEF Pindown, Uses, Worlds
  <2>2. CASE ~flag
    BY <1>1, <2>2
  <2> QED
    BY <2>1, <2>2
<1> HIDE DEF u
<1>5. t = [u EXCEPT !.bc = b, !.mcch = <<>>]
  BY <1>1, <1>4 DEF BackToEditing, Worlds
<1> HIDE DEF b, t
<1>6. /\ t \in Worlds /\ t.cf = u.cf /\ t.bc = b /\ t.gsize = u.gsize
      /\ t.galloc = u.galloc /\ t.ret = u.ret /\ t.got = u.got
  BY <1>2, <1>3, <1>4, <1>5 DEF Worlds
<1>7. /\ Known(t) /\ t.cf = s.cf /\ t.bc.state = "EDITING"
      /\ t.bc.text = s.bc.text /\ t.gsize = s.gsize /\ t.galloc = s.galloc
      /\ t.ret = s.ret /\ t.got = s.got
  BY <1>1, <1>3, <1>4, <1>6 DEF Known
<1> QED
  BY <1>7 DEF t, u

\* bims_keystroke() while a candidate is being selected.  A key with Ctrl or Alt
\* shows no page.
LEMMA InSelectionGood ==
  ASSUME NEW s, NEW key, Selects(s, key), Autosel(s.cf), NEW mods,
         PagesAssumed /\ mods \cap {"ctrl", "alt"} # {} => Shown(s),
         NEW t \in InSelection(s, key, mods)
  PROVE  Good(t)
<1> DEFINE s1 == [s EXCEPT !.selspot = TRUE]
           d == DetermineSelection(s1, key)
<1>1. /\ Selects(s1, key) /\ s1.cf = s.cf /\ s1.bc = s.bc
      /\ PagesAssumed /\ Shown(s) => Shown(s1)
  BY MarkSelects
<1>2. t \in IF mods \cap {"ctrl", "alt"} # {} THEN {s1}
            ELSE IF d.r = -1 THEN {d.s}
                 ELSE {[u EXCEPT !.listchar = TRUE, !.selspot = FALSE]
                         : u \in LeaveSelection(d)}
  BY DEF InSelection
<1> HIDE DEF s1
<1>3. CASE mods \cap {"ctrl", "alt"} # {}
  <2>1. t = s1
    BY <1>2, <1>3
  <2>2. PagesAssumed => Placed(s1) /\ Shown(s1)
    BY <1>1, <1>3 DEF Selects
  <2> QED
    BY <1>1, <2>1, <2>2 DEF Selects, Good, Sound, Answers, Paged
<1>4. CASE mods \cap {"ctrl", "alt"} = {} /\ d.r = -1
  <2>1. t = d.s
    BY <1>2, <1>4
  <2> QED
    BY <1>1, <1>4, <2>1, StaysGood
<1>5. CASE mods \cap {"ctrl", "alt"} = {} /\ d.r # -1
  <2>1. d.s = s1
    BY <1>5, Determines
  <2>2. PICK u \in LeaveSelection(d) : t = [u EXCEPT !.listchar = TRUE, !.selspot = FALSE]
    BY <1>2, <1>5
  <2> DEFINE picks == d.r > 0
             w == [BackToEditing(IF picks THEN Pindown(s1) ELSE s1) EXCEPT !.mcch = <<>>]
  <2>3. u \in EditingStatus(w)
    BY <2>1, <2>2 DEF LeaveSelection
  <2>4. picks \in BOOLEAN
    OBVIOUS
  <2> HIDE DEF picks
  <2>5. /\ Known(w) /\ w.cf = s1.cf /\ w.bc.state = "EDITING"
        /\ w.gsize = s1.gsize /\ w.galloc = s1.galloc
        /\ w.ret = s1.ret /\ w.got = s1.got
    BY <1>1, <2>4, BackType DEF Selects
  <2> HIDE DEF w
  <2>6. Stale(w)
    BY <1>1, <2>5 DEF Stale, Selects, Roomy
  <2>7. Copied(u) /\ u.cf = s.cf /\ u.ret = {} /\ u.got = 0
    BY <1>1, <2>3, <2>5, <2>6, StatusCopies DEF Selects
  <2>8. u \in Worlds
    BY <2>7 DEF Copied, Known
  <2>9. /\ t \in Worlds /\ t.cf = u.cf /\ t.bc = u.bc /\ t.n_lcch = u.n_lcch
        /\ t.size = u.size /\ t.gsize = u.gsize /\ t.galloc = u.galloc
        /\ t.listchar /\ t.z = u.z /\ t.composed = u.composed
        /\ t.ret = {} /\ t.got = 0
    BY <2>2, <2>7, <2>8 DEF Worlds
  <2>10. Copied(t) /\ Editing(t)
    BY <2>7, <2>9 DEF Copied, Editing, Known, Roomy
  <2> QED
    BY <2>9, <2>10, CopiedSound DEF Good, Answers
<1> QED
  BY <1>3, <1>4, <1>5

\* Nothing but bims differs.
Beside(s, t) ==
    /\ Known(t) /\ t.cf = s.cf /\ t.z = s.z /\ t.n_lcch = s.n_lcch
    /\ t.mcch = s.mcch /\ t.pgstate = s.pgstate /\ t.listchar = s.listchar
    /\ t.selspot = s.selspot /\ t.composed = s.composed /\ t.size = s.size
    /\ t.gsize = s.gsize /\ t.galloc = s.galloc /\ t.ret = s.ret /\ t.got = s.got

\* bims offers a list, or nothing has changed.
Toggled(s, r) ==
    /\ r.ok \in BOOLEAN
    /\ Beside(s, r.s)
    /\ IF r.ok
       THEN /\ r.s.bc.text = s.bc.text /\ r.s.bc.state # "EDITING"
            /\ Listed(r.s.bc, r.s.cf) /\ Placed(r.s)
       ELSE r.s.bc = s.bc

\* A list of its kind is offered from its first candidate on.
LEMMA ToSelectionToggled ==
  ASSUME NEW s, Known(s), NEW state, NEW lists,
         \/ state = "ZHI" /\ lists = ZhiLists
         \/ state = "TSI" /\ lists = TsiLists /\ On(s, "PHRASESEL"),
         NEW r \in ToSelection(s, state, lists)
  PROVE  Toggled(s, r) /\ r.ok /\ r.s.bc.state = state
<1>1. s \in Worlds /\ s.cf \in Methods /\ s.bc \in Bims
  BY DEF Known, Worlds
<1>2. PICK l \in lists :
        r = [ok |-> TRUE, s |-> [s EXCEPT !.bc.state = state, !.bc.cands = l,
                                          !.bc.base = 0]]
  BY DEF ToSelection
<1>3. l \in Seq(Cand) /\ Len(l) \in Nat \ {0}
  BY ListType
<1> DEFINE b == [s.bc EXCEPT !.state = state, !.cands = l, !.base = 0]
           t == r.s
<1>4. /\ b \in Bims /\ b.state = state /\ b.cands = l /\ b.base = 0 /\ b.text = s.bc.text
  <2>1. 0 \in Nat /\ state \in {"EDITING", "ZHI", "TSI"}
    OBVIOUS
  <2> QED
    BY <1>1, <1>3, <2>1 DEF Bims
<1>5. r.ok = TRUE /\ t = [s EXCEPT !.bc = b]
  BY <1>1, <1>2 DEF Worlds
<1> HIDE DEF b, t
<1>6. Beside(s, t) /\ t.bc = b
  BY <1>1, <1>4, <1>5 DEF Beside, Known, Worlds
<1>7. Listed(t.bc, t.cf)
  BY <1>3, <1>4, <1>6 DEF Listed, Beside, On
<1>8. Placed(t)
  <2>1. NSelphr(t.cf) \in Nat
    BY <1>6, BimsphoneConstants DEF NSelphr, Beside, Known
  <2>2. t.bc.base = 0 * NSelphr(t.cf) /\ 0 \in Nat
    BY <1>4, <1>6, <2>1
  <2> QED
    BY <2>2 DEF Placed
<1>9. Toggled(s, [ok |-> TRUE, s |-> t]) /\ t.bc.state = state
  BY <1>4, <1>6, <1>7, <1>8 DEF Toggled
<1> QED
  BY <1>2, <1>9 DEF t

\* bimsToggleZhiSelection() asks for text; it fails on text only while a syllable
\* is under way.
LEMMA ZhiToggled ==
  ASSUME NEW s, Known(s), NEW r \in ToggleZhi(s)
  PROVE  /\ Toggled(s, r)
         /\ r.ok => s.bc.text > 0 /\ r.s.bc.state = "ZHI"
         /\ ~r.ok => s.bc.text = 0 \/ s.bc.zhuyin > 0
<1>1. s \in Worlds /\ s.cf \in Methods
  BY DEF Known
<1>2. \/ s.bc.text > 0 /\ r \in ToSelection(s, "ZHI", ZhiLists)
      \/ (s.bc.text = 0 \/ s.bc.zhuyin > 0) /\ r = [ok |-> FALSE, s |-> s]
  BY DEF ToggleZhi
<1>3. ASSUME s.bc.text > 0, r \in ToSelection(s, "ZHI", ZhiLists)
      PROVE  Toggled(s, r) /\ r.ok /\ r.s.bc.state = "ZHI"
  BY <1>3, ToSelectionToggled
<1>4. ASSUME r = [ok |-> FALSE, s |-> s] PROVE Toggled(s, r) /\ ~r.ok
  <2>1. Beside(s, s)
    BY DEF Beside
  <2> QED
    BY <1>4, <2>1 DEF Toggled
<1> QED
  BY <1>2, <1>3, <1>4

\* enter_selection(), after a key that opens it.
LEMMA EnterToggled ==
  ASSUME NEW s, Known(s), NEW r \in EnterSelection(s)
  PROVE  Toggled(s, r)
<1>1. CASE ~On(s, "PHRASESEL")
  <2>1. r \in ToggleZhi(s)
    BY <1>1 DEF EnterSelection
  <2> QED
    BY <2>1, ZhiToggled
<1>2. CASE On(s, "PHRASESEL")
  <2> DEFINE tsi == IF s.bc.state = "TSI" THEN {[ok |-> FALSE, s |-> s]} ELSE ToggleTsi(s)
  <2>1. PICK p \in tsi : r \in IF p.ok THEN {p} ELSE ToggleZhi(p.s)
    BY <1>2 DEF EnterSelection
  <2>2. Beside(s, s) /\ Beside(s, Uses(s)) /\ Uses(s).bc = s.bc /\ Known(Uses(s))
        /\ Uses(s).cf = s.cf
    BY AnswerLike DEF Beside, Like
  <2>3. \/ p = [ok |-> FALSE, s |-> s] \/ p = [ok |-> FALSE, s |-> Uses(s)]
        \/ p \in ToSelection(Uses(s), "TSI", TsiLists)
    BY <2>1 DEF ToggleTsi
  <2>4. Toggled(s, p)
    <3>1. ASSUME p \in ToSelection(Uses(s), "TSI", TsiLists) PROVE Toggled(s, p)
      <4>1. On(Uses(s), "PHRASESEL")
        BY <1>2, <2>2 DEF On
      <4>2. Toggled(Uses(s), p) /\ p.ok
        BY <2>2, <3>1, <4>1, ToSelectionToggled
      <4> DEFINE u == Uses(s)
      <4> HIDE DEF u
      <4>3. Toggled(u, p) /\ p.ok /\ u.bc = s.bc /\ Beside(s, u)
        BY <2>2, <4>2 DEF u
      <4> QED
        BY <4>3 DEF Toggled, Beside
    <3>2. ASSUME p = [ok |-> FALSE, s |-> s] \/ p = [ok |-> FALSE, s |-> Uses(s)]
          PROVE  Toggled(s, p)
      <4>1. p.ok = FALSE /\ Beside(s, p.s) /\ p.s.bc = s.bc
        BY <2>2, <3>2
      <4> QED
        BY <4>1 DEF Toggled
    <3> QED
      BY <2>3, <3>1, <3>2
  <2>5. CASE p.ok
    <3>1. r = p
      BY <2>1, <2>5
    <3> QED
      BY <2>4, <3>1
  <2>6. CASE ~p.ok
    <3>1. r \in ToggleZhi(p.s) /\ Beside(s, p.s) /\ p.s.bc = s.bc
      BY <2>1, <2>4, <2>6 DEF Toggled
    <3>2. Toggled(p.s, r)
      BY <3>1, ZhiToggled DEF Beside
    <3> DEFINE u == p.s
    <3> HIDE DEF u
    <3>3. Toggled(u, r) /\ Beside(s, u) /\ u.bc = s.bc
      BY <3>1, <3>2 DEF u
    <3> QED
      BY <3>3 DEF Toggled, Beside
  <2> QED
    BY <2>5, <2>6
<1> QED
  BY <1>1, <1>2

\* A key that opens the selection.
LEMMA OpensGood ==
  ASSUME NEW s, Open(s), Autosel(s.cf), NEW toggles, \A r \in toggles : Toggled(s, r),
         NEW mods, PagesAssumed => mods \cap {"ctrl", "alt"} = {},
         NEW t \in Opens(s, toggles, mods)
  PROVE  Good(t)
<1>1. PICK r \in toggles :
        t \in IF r.ok THEN ByState([r.s EXCEPT !.listchar = FALSE], "nokey", mods)
              ELSE {AbsorbIfText(r.s)}
  BY DEF Opens
<1>2. Toggled(s, r) /\ Sound(s) /\ s.ret = {} /\ s.got = 0
  BY DEF Open
<1>3. CASE ~r.ok
  <2>1. t = AbsorbIfText(r.s)
    BY <1>1, <1>3
  <2>2. Like(s, r.s) /\ r.s.ret = {} /\ r.s.got = 0
    BY <1>2, <1>3 DEF Toggled, Beside, Like
  <2>3. Open(r.s)
    BY <1>2, <2>2, LikeSound DEF Open
  <2> DEFINE flags == IF r.s.n_lcch > 0 THEN {} ELSE {"IGNORE"}
  <2>4. flags \in SUBSET Flag /\ "COMMIT" \notin flags
    BY DEF Flag
  <2>5. t = Answer(r.s, flags)
    BY <2>1 DEF AbsorbIfText
  <2> HIDE DEF flags
  <2> QED
    BY <2>3, <2>4, <2>5, PlainAnswer
<1>4. CASE r.ok
  <2> DEFINE u == [r.s EXCEPT !.listchar = FALSE]
  <2>1. /\ Beside(s, r.s) /\ r.s.bc.text = s.bc.text /\ r.s.bc.state # "EDITING"
        /\ Listed(r.s.bc, r.s.cf) /\ Placed(r.s) /\ r.s \in Worlds /\ r.s.cf = s.cf
        /\ s.cf \in Methods
    BY <1>2, <1>4 DEF Toggled, Beside, Known
  <2>2. /\ u \in Worlds /\ u.cf = s.cf /\ u.bc = r.s.bc /\ u.n_lcch = r.s.n_lcch
        /\ u.size = r.s.size /\ u.gsize = r.s.gsize /\ u.galloc = r.s.galloc
        /\ u.listchar = FALSE /\ u.ret = r.s.ret /\ u.got = r.s.got
    BY <2>1 DEF Worlds
  <2>3. t \in InSelection(u, "nokey", mods)
    BY <1>1, <1>4, <2>1, <2>2 DEF ByState
  <2> HIDE DEF u
  <2>4. Known(u) /\ Mirrors(u) /\ Roomy(u) /\ Listed(u.bc, u.cf)
    BY <1>2, <2>1, <2>2 DEF Known, Mirrors, Roomy, Beside, Sound
  <2>5. Placed(u)
    <3>1. EvenPages(u) <=> EvenPages(r.s)
      BY <2>1, <2>2, EvenSame
    <3> QED
      BY <2>1, <2>2, <3>1 DEF Placed
  <2>6. Selects(u, "nokey")
    BY <1>2, <2>1, <2>2, <2>4, <2>5 DEF Selects, Beside
  <2> QED
    BY <2>2, <2>3, <2>6, InSelectionGood
<1> QED
  BY <1>2, <1>3, <1>4 DEF Toggled

\* The keys that open the selection come without Ctrl or Alt, if pages are to be
\* right.
Opener(key, mods) ==
    PagesAssumed /\ mods \cap {"ctrl", "alt"} # {} => key \notin {"Up", "Down", "space"}

\* bims_keystroke(), once check_winsize() is done.
LEMMA BimsKeyGood ==
  ASSUME NEW s, Open(s), Autosel(s.cf), NEW key, NEW mods, Opener(key, mods),
         NEW t \in BimsKey(s, key, mods)
  PROVE  Good(t)
<1> DEFINE own   == key \in {"Up", "Down", "Return", "space"}
           ready == key = "space" /\ s.composed
           opens == key \in {"Up", "Down"} \/ (ready /\ On(s, "SPACESEL"))
           all   == \/ key = "Return" /\ s.listchar /\ s.n_lcch > 0
                    \/ ready /\ ~On(s, "SPACESEL") /\ s.listchar
           quiet == \/ key = "Return"
                    \/ key = "space" /\ ~s.composed /\ s.n_lcch = 0 /\ s.z = 0
           toggles == IF key = "Down" THEN ToggleZhi(s) ELSE EnterSelection(s)
<1>1. Sound(s) /\ Known(s) /\ s.ret = {} /\ s.got = 0 /\ Mirrors(s) /\ s.n_lcch \in Nat
      /\ s.gsize <= s.galloc
  BY DEF Open, Sound, Known, Worlds, Roomy
<1>2. Good(Answer(s, {"IGNORE"}))
  <2>1. {"IGNORE"} \in SUBSET Flag /\ "COMMIT" \notin {"IGNORE"}
    BY DEF Flag
  <2> QED
    BY <2>1, PlainAnswer
<1>3. t \in IF own /\ "lock" \in mods THEN {Answer(s, {"IGNORE"})}
            ELSE IF opens THEN Opens(s, toggles, mods)
            ELSE IF all THEN CommitAll(s, {"COMMIT"})
            ELSE IF key = "Return" /\ ~s.listchar THEN {s}
            ELSE IF quiet THEN {Answer(s, {"IGNORE"})}
            ELSE ByState(s, key, mods)
  BY DEF BimsKey
<1>4. ASSUME opens, t \in Opens(s, toggles, mods) PROVE Good(t)
  <2>1. PagesAssumed => mods \cap {"ctrl", "alt"} = {}
    BY <1>4 DEF Opener
  <2>2. \A r \in toggles : Toggled(s, r)
    BY <1>1, ZhiToggled, EnterToggled
  <2> HIDE DEF toggles
  <2> QED
    BY <1>4, <2>1, <2>2, OpensGood
<1>5. ASSUME all, t \in CommitAll(s, {"COMMIT"}) PROVE Good(t)
  <2>1. s.bc.state = "EDITING" /\ s.listchar /\ s.n_lcch > 0 /\ s.bc.text > 0
    BY <1>1, <1>5 DEF Mirrors
  <2>2. PICK u \in Then(CommitString(s, s.n_lcch), EditingStatus) :
            t = Answer(u, {"COMMIT"})
    BY <1>5 DEF CommitAll
  <2>3. {"COMMIT"} \in SUBSET Flag
    BY DEF Flag
  <2> QED
    BY <1>1, <2>1, <2>2, <2>3, CommitStatus
<1>6. ASSUME t = s PROVE Good(t)
  BY <1>1, <1>6 DEF Good, Answers
<1>7. ASSUME t \in ByState(s, key, mods) PROVE Good(t)
  <2>1. CASE s.bc.state = "EDITING"
    <3>1. t \in InEditing(s, key, mods)
      BY <1>7, <2>1 DEF ByState
    <3> QED
      BY <2>1, <3>1, InEditingGood
  <2>2. CASE s.bc.state # "EDITING"
    <3>1. t \in InSelection(s, key, mods)
      BY <1>7, <2>2 DEF ByState
    <3>2. Selects(s, key) /\ (PagesAssumed => Shown(s))
      BY <1>1, <2>2 DEF Selects, Sound, Paged
    <3> QED
      BY <3>1, <3>2, InSelectionGood
  <2> QED
    BY <2>1, <2>2
<1> HIDE DEF own, opens, all, quiet, toggles
<1> QED
  BY <1>2, <1>3, <1>4, <1>5, <1>6, <1>7

\* check_winsize() makes the buffer larger, and changes nothing that is shown.
LEMMA WinsizeType ==
  ASSUME NEW s, Known(s), winsize \in WinSizes
  PROVE  LET t == CheckWinsize(s)
         IN  /\ Known(t) /\ t.cf = s.cf /\ t.z = s.z /\ t.n_lcch = s.n_lcch
             /\ t.mcch = s.mcch /\ t.pgstate = s.pgstate /\ t.listchar = s.listchar
             /\ t.selspot = s.selspot /\ t.composed = s.composed
             /\ t.gsize = s.gsize /\ t.galloc = s.galloc
             /\ t.ret = s.ret /\ t.got = s.got
             /\ t.size >= s.size /\ t.size >= winsize
             /\ t.bc = [s.bc EXCEPT !.maxlen = t.bc.maxlen]
<1> DEFINE t == CheckWinsize(s)
           m == IF s.size # winsize THEN winsize - 1 ELSE s.maxlen
           bm == IF s.size # winsize THEN winsize - 1 ELSE s.bc.maxlen
           z == IF s.size <= winsize THEN winsize + 1 ELSE s.size
           b == [s.bc EXCEPT !.maxlen = bm]
<1>1. s \in Worlds /\ s.cf \in Methods /\ s.bc \in Bims /\ s.size \in Nat
      /\ s.maxlen \in Nat /\ s.bc.maxlen \in Nat /\ winsize \in Nat /\ winsize > 1
  BY BimsphoneConstants DEF Known, Worlds, Bims
<1>2. m \in Nat /\ bm \in Nat /\ z \in Nat /\ z >= s.size /\ z >= winsize
  BY <1>1
<1>3. t = [s EXCEPT !.maxlen = m, !.bc = b, !.size = z]
  BY <1>1 DEF CheckWinsize, Worlds
<1> HIDE DEF m, bm, z, t
<1>4. b \in Bims /\ b.maxlen = bm
  BY <1>1, <1>2 DEF Bims
<1> HIDE DEF b
<1>5. /\ t \in Worlds /\ t.cf = s.cf /\ t.z = s.z /\ t.n_lcch = s.n_lcch
      /\ t.mcch = s.mcch /\ t.pgstate = s.pgstate /\ t.listchar = s.listchar
      /\ t.selspot = s.selspot /\ t.composed = s.composed
      /\ t.gsize = s.gsize /\ t.galloc = s.galloc
      /\ t.ret = s.ret /\ t.got = s.got /\ t.size = z /\ t.bc = b
  BY <1>1, <1>2, <1>3, <1>4 DEF Worlds
<1>6. t.bc = [s.bc EXCEPT !.maxlen = t.bc.maxlen]
  BY <1>4, <1>5 DEF b
<1> QED
  BY <1>1, <1>2, <1>5, <1>6 DEF Known, t

\* So what was open stays open.
LEMMA WinsizeOpen ==
  ASSUME NEW s, Open(s), winsize \in WinSizes
  PROVE  Open(CheckWinsize(s)) /\ CheckWinsize(s).cf = s.cf
<1> DEFINE t == CheckWinsize(s)
<1>1. s \in Worlds /\ s.bc \in Bims /\ s.size \in Nat /\ Known(s)
  BY DEF Open, Sound, Known, Worlds
<1>2. /\ Known(t) /\ t.cf = s.cf /\ t.z = s.z /\ t.n_lcch = s.n_lcch
      /\ t.mcch = s.mcch /\ t.pgstate = s.pgstate /\ t.listchar = s.listchar
      /\ t.selspot = s.selspot /\ t.composed = s.composed
      /\ t.gsize = s.gsize /\ t.galloc = s.galloc
      /\ t.ret = s.ret /\ t.got = s.got
      /\ t.size >= s.size
      /\ t.bc = [s.bc EXCEPT !.maxlen = t.bc.maxlen]
  BY <1>1, WinsizeType
<1> HIDE DEF t
<1>3. /\ t.bc.state = s.bc.state /\ t.bc.text = s.bc.text /\ t.bc.cands = s.bc.cands
      /\ t.bc.base = s.bc.base
  BY <1>1, <1>2 DEF Bims
<1>4. t.size \in Nat /\ s.n_lcch \in Nat
  BY <1>1, <1>2 DEF Known, Worlds
<1>5. EvenPages(t) <=> EvenPages(s)
  BY <1>2, <1>3, EvenSame
<1>6. Mirrors(t) /\ Roomy(t) /\ Listed(t.bc, t.cf)
  BY <1>1, <1>2, <1>3, <1>4 DEF Open, Sound, Mirrors, Roomy, Listed
<1>7. Paged(t)
  BY <1>2, <1>3, <1>5 DEF Open, Sound, Paged, Placed, Shown, EndTold
<1>8. Open(t) /\ t.cf = s.cf
  BY <1>2, <1>6, <1>7 DEF Open, Sound
<1> QED
  BY <1>8 DEF t

-----------------------------------------------------------------------------
(* Zhuyin without automatic selection.                                     *)

\* editing_status() looks at the syllable only.
LEMMA SyllableStatus ==
  ASSUME NEW s, Known(s), ~Autosel(s.cf), NEW t \in EditingStatus(s)
  PROVE  /\ Known(t) /\ t.cf = s.cf /\ t.bc = s.bc /\ t.n_lcch = s.n_lcch
         /\ t.selspot = s.selspot /\ t.ret = s.ret /\ t.got = s.got
<1> DEFINE z == IF Rc[s.cf].pinyin THEN s.z ELSE s.bc.zhuyin
<1>1. s \in Worlds /\ s.cf \in Methods /\ z \in 0 .. (MaxZhuyin + N_MAX_KEYCODE_PINYIN)
  BY BimsphoneConstants DEF Known, Worlds, Bims
<1>2. t = [s EXCEPT !.z = z]
  BY DEF EditingStatus, On, Autosel
<1> HIDE DEF z
<1> QED
  BY <1>1, <1>2 DEF Known, Worlds

\* A new context of bims.
LEMMA NewBCType ==
  /\ NewBC \in Bims /\ NewBC.state = "EDITING" /\ NewBC.text = 0 /\ NewBC.zhuyin = 0
  /\ NewBC.cands = <<>> /\ NewBC.base = 0
<1>1. <<>> \in Seq(Cand) /\ 0 \in 0 .. MaxZhuyin /\ 0 \in Nat /\ 99 \in Nat
  BY BimsphoneConstants
<1> QED
  BY <1>1 DEF NewBC, Bims

\* Zhuyin of which nothing is left.
Bare(t) == Known(t) /\ ~Autosel(t.cf) /\ t.n_lcch = 0 /\ t.bc = NewBC /\ ~t.selspot

\* It is sound.
LEMMA BareSound ==
  ASSUME NEW t, Bare(t)
  PROVE  Sound(t)
<1>1. Copied(t) /\ Editing(t)
  BY NewBCType DEF Bare, Copied, Editing, Roomy
<1> QED
  BY <1>1, CopiedSound

\* The context of bims is thrown away with the selection, and a character that
\* was chosen is handed over.
LEMMA FreedBare ==
  ASSUME NEW s, Known(s), ~Autosel(s.cf), s.n_lcch = 0, s.ret = {}, s.got = 0,
         NEW e \in EditingStatus([s EXCEPT !.mcch = <<>>])
  PROVE  LET left == [FreeBC(e) EXCEPT !.selspot = FALSE]
             one(t) == Answer([t EXCEPT !.got = 1], {"COMMIT"})
         IN  /\ Bare(left) /\ left.ret = {} /\ left.got = 0
             /\ Bare(one(left)) /\ one(left).ret = {"COMMIT"} /\ one(left).got = 1
             /\ ~s.selspot => Good(one(FreeBC(e)))
<1> DEFINE t == [s EXCEPT !.mcch = <<>>]
           One(w) == Answer([w EXCEPT !.got = 1], {"COMMIT"})
           free == FreeBC(e)
           left == [free EXCEPT !.selspot = FALSE]
<1>1. <<>> \in Seq(Cand) /\ s \in Worlds /\ s.cf \in Methods
  BY DEF Known
<1>2. /\ Known(t) /\ t.cf = s.cf /\ t.n_lcch = s.n_lcch /\ t.selspot = s.selspot
      /\ t.ret = s.ret /\ t.got = s.got
  BY <1>1 DEF Known, Worlds
<1> HIDE DEF t
<1>3. /\ e \in Worlds /\ e.cf \in Methods /\ e.cf = s.cf /\ e.n_lcch = 0
      /\ e.selspot = s.selspot /\ e.ret = {} /\ e.got = 0
  <2>1. e \in EditingStatus(t)
    BY DEF t
  <2> QED
    BY <1>2, <2>1, SyllableStatus DEF Known
<1>4. /\ free \in Worlds /\ free.cf = s.cf /\ free.n_lcch = 0 /\ free.bc = NewBC
      /\ free.selspot = s.selspot /\ free.ret = {} /\ free.got = 0
  BY <1>3, NewBCType DEF FreeBC, Worlds
<1> HIDE DEF free
<1>5. /\ left \in Worlds /\ left.cf = s.cf /\ left.n_lcch = 0 /\ left.bc = NewBC
      /\ ~left.selspot /\ left.ret = {} /\ left.got = 0
  BY <1>4 DEF Worlds
<1> HIDE DEF left
<1>6. ASSUME NEW w \in Worlds
      PROVE  /\ One(w) \in Worlds /\ One(w).cf = w.cf /\ One(w).n_lcch = w.n_lcch
             /\ One(w).bc = w.bc /\ One(w).selspot = w.selspot
             /\ One(w).ret = {"COMMIT"} /\ One(w).got = 1
  <2>1. {"COMMIT"} \in SUBSET Flag
    BY DEF Flag
  <2> QED
    BY <2>1 DEF Answer, Worlds
<1> HIDE DEF One
<1>7. Bare(left) /\ Bare(One(left))
  BY <1>1, <1>5, <1>6 DEF Bare, Known
<1>8. ASSUME ~s.selspot PROVE Good(One(free))
  <2>1. Bare(One(free))
    BY <1>1, <1>4, <1>6, <1>8 DEF Bare, Known
  <2> QED
    BY <1>4, <1>6, <2>1, BareSound DEF Good, Answers
<1>9. /\ Bare(left) /\ left.ret = {} /\ left.got = 0
      /\ Bare(One(left)) /\ One(left).ret = {"COMMIT"} /\ One(left).got = 1
      /\ ~s.selspot => Good(One(free))
  BY <1>5, <1>6, <1>7, <1>8
<1> QED
  BY <1>9 DEF left, free, One

\* simple_keystroke() while a character is being selected.
LEMMA SimpleSelectionGood ==
  ASSUME NEW s, Open(s), ~Autosel(s.cf), s.bc.state # "EDITING", NEW key, NEW mods,
         NEW t \in SimpleSelection(s, key, mods)
  PROVE  Good(t)
<1> DEFINE s1 == [s EXCEPT !.selspot = TRUE]
           d == DetermineSelection(s1, key)
           Left == {[FreeBC(e) EXCEPT !.selspot = FALSE]
                      : e \in EditingStatus([d.s EXCEPT !.mcch = <<>>])}
           Taken(w) == Answer([w EXCEPT !.got = 1], {"COMMIT"})
           Again(w, pick) ==
             IF key = Selkey[((pick - 1) % Len(Selkey)) + 1] THEN {w}
             ELSE UNION {EditingStatus([Uses(w) EXCEPT !.bc = f.bc])
                           : f \in Feed(w.bc, key)}
<1>1. Selects(s, key) /\ (PagesAssumed => Shown(s)) /\ s.cf \in Methods
  BY DEF Open, Sound, Paged, Selects, Known
<1>2. /\ Selects(s1, key) /\ s1.cf = s.cf /\ s1.bc = s.bc
      /\ PagesAssumed /\ Shown(s) => Shown(s1)
  BY <1>1, MarkSelects
<1>3. t \in IF mods \cap {"ctrl", "alt"} # {} THEN {s1}
            ELSE IF d.r = -1 THEN {d.s}
            ELSE IF d.r = 0 THEN Left
            ELSE UNION {Again(Taken(w), d.r) : w \in Left}
  BY DEF SimpleSelection
<1> HIDE DEF s1
<1>4. ASSUME t = s1 PROVE Good(t)
  BY <1>1, <1>2, <1>4 DEF Selects, Good, Sound, Answers, Paged
<1>5. ASSUME d.r = -1, t = d.s PROVE Good(t)
  BY <1>2, <1>5, StaysGood
<1>6. ASSUME d.r # -1, NEW w \in Left
      PROVE  /\ Bare(w) /\ w.ret = {} /\ w.got = 0
             /\ Bare(Taken(w)) /\ Taken(w).ret = {"COMMIT"} /\ Taken(w).got = 1
  <2>1. d.s = s1
    BY <1>6, Determines
  <2>2. PICK e \in EditingStatus([s1 EXCEPT !.mcch = <<>>]) :
            w = [FreeBC(e) EXCEPT !.selspot = FALSE]
    BY <2>1
  <2>3. Known(s1) /\ ~Autosel(s1.cf) /\ s1.n_lcch = 0 /\ s1.ret = {} /\ s1.got = 0
    BY <1>2 DEF Selects, Mirrors
  <2> QED
    BY <2>2, <2>3, FreedBare
<1> HIDE DEF d, Left, Taken
<1>7. ASSUME d.r # -1, t \in Left PROVE Good(t)
  BY <1>6, <1>7, BareSound DEF Good, Answers
<1>8. ASSUME d.r # -1, NEW w \in Left, t \in Again(Taken(w), d.r) PROVE Good(t)
  <2> DEFINE v == Taken(w)
  <2>1. Bare(v) /\ v.ret = {"COMMIT"} /\ v.got = 1
    BY <1>6, <1>8
  <2> HIDE DEF v
  <2>2. t = v \/ \E f \in Feed(v.bc, key) : t \in EditingStatus(Fed(v, f))
    BY <1>8 DEF v, Fed
  <2>3. CASE t = v
    BY <2>1, <2>3, BareSound DEF Good, Answers
  <2>4. CASE \E f \in Feed(v.bc, key) : t \in EditingStatus(Fed(v, f))
    <3>1. PICK f \in Feed(v.bc, key) : t \in EditingStatus(Fed(v, f))
      BY <2>4
    <3>2. Known(v) /\ v.bc \in Bims /\ v.bc = NewBC
      BY <2>1, NewBCType DEF Bare
    <3>3. f.bc.state = "EDITING" /\ f.bc \in Bims /\ ~(f.bc.text > 0)
      BY <3>2, FeedType, NewBCType
    <3>4. f.bc.text = 0
      BY <3>3 DEF Bims
    <3> DEFINE u == Fed(v, f)
    <3>5. /\ Known(u) /\ u.bc = f.bc /\ u.cf = v.cf /\ u.ret = v.ret /\ u.got = v.got
          /\ u.n_lcch = v.n_lcch /\ u.selspot = v.selspot
      BY <3>2, FedType
    <3> HIDE DEF u
    <3>6. Stale(u) /\ ~Autosel(u.cf)
      BY <2>1, <3>3, <3>4, <3>5 DEF Stale, Bare
    <3>7. t \in EditingStatus(u)
      BY <3>1 DEF u
    <3>8. Copied(t) /\ Editing(t) /\ t.ret = {"COMMIT"} /\ t.got = 1
      BY <2>1, <3>5, <3>6, <3>7, StatusCopies DEF Editing, Bare
    <3> QED
      BY <3>8, CopiedSound DEF Good, Answers
  <2> QED
    BY <2>2, <2>3, <2>4
<1> HIDE DEF Again
<1> QED
  BY <1>3, <1>4, <1>5, <1>7, <1>8

\* The characters offered for a syllable; one alone is taken at once.
LEMMA OfferedGood ==
  ASSUME NEW s, Known(s), ~Autosel(s.cf), s.n_lcch = 0, ~s.selspot, s.ret = {}, s.got = 0,
         Listed(s.bc, s.cf), s.bc.state = "ZHI",
         NEW t,
         LET d == ShowPage([s EXCEPT !.z = MaxZhuyin], 0)
         IN  IF Len(d.mcch) = 1
             THEN \E e \in EditingStatus([d EXCEPT !.mcch = <<>>]) :
                     t = Answer([FreeBC(e) EXCEPT !.got = 1], {"COMMIT"})
             ELSE t = [d EXCEPT !.selspot = TRUE]
  PROVE  Good(t)
<1> DEFINE p == [s EXCEPT !.z = MaxZhuyin]
           d == ShowPage(p, 0)
<1>1. MaxZhuyin \in 0 .. (MaxZhuyin + N_MAX_KEYCODE_PINYIN) /\ s \in Worlds
  BY BimsphoneConstants DEF Known
<1>2. /\ Known(p) /\ p.cf = s.cf /\ p.bc = s.bc /\ p.n_lcch = 0 /\ ~p.selspot
      /\ p.ret = {} /\ p.got = 0
  BY <1>1 DEF Known, Worlds
<1>3. (LET w == d
       IN  IF Len(w.mcch) = 1
           THEN \E e \in EditingStatus([w EXCEPT !.mcch = <<>>]) :
                   t = Answer([FreeBC(e) EXCEPT !.got = 1], {"COMMIT"})
           ELSE t = [w EXCEPT !.selspot = TRUE])
  OBVIOUS
<1> HIDE DEF p
<1>4. Turned(p, d) /\ Paged(d)
  <2>1. Listed(p.bc, p.cf) /\ p.bc.state # "EDITING" /\ 0 \in {-1, 0, 1} /\ Placed(p)
    BY <1>2 DEF Placed
  <2> QED
    BY <1>2, <2>1, ShowPageTurns, ShowPageShows
<1> HIDE DEF d
<1>5. /\ Known(d) /\ d.cf = s.cf /\ d.n_lcch = 0 /\ ~d.selspot /\ d.ret = {} /\ d.got = 0
      /\ d.bc.state = "ZHI" /\ Listed(d.bc, d.cf)
  <2>1. d = [p EXCEPT !.bc.base = d.bc.base, !.mcch = d.mcch, !.composed = FALSE,
                      !.pgstate = d.pgstate]
    BY <1>4 DEF Turned
  <2>2. p \in Worlds /\ p.bc \in Bims
    BY <1>2 DEF Known, Worlds
  <2>3. /\ d.cf = p.cf /\ d.n_lcch = p.n_lcch /\ d.selspot = p.selspot
        /\ d.ret = p.ret /\ d.got = p.got /\ d.bc = [p.bc EXCEPT !.base = d.bc.base]
    BY <2>1, <2>2 DEF Worlds
  <2>4. d.bc.state = p.bc.state
    BY <2>2, <2>3 DEF Bims
  <2> QED
    BY <1>2, <1>4, <2>3, <2>4 DEF Turned
<1>6. CASE Len(d.mcch) = 1
  <2>1. PICK e \in EditingStatus([d EXCEPT !.mcch = <<>>]) :
            t = Answer([FreeBC(e) EXCEPT !.got = 1], {"COMMIT"})
    BY <1>3, <1>6
  <2> QED
    BY <1>5, <2>1, FreedBare
<1>7. CASE Len(d.mcch) # 1
  <2>1. t = [d EXCEPT !.selspot = TRUE]
    BY <1>3, <1>7
  <2>2. d \in Worlds
    BY <1>5 DEF Known
  <2>3. /\ t \in Worlds /\ t.cf = d.cf /\ t.bc = d.bc /\ t.n_lcch = d.n_lcch
        /\ t.selspot = TRUE /\ t.mcch = d.mcch /\ t.pgstate = d.pgstate
        /\ t.ret = {} /\ t.got = 0
    BY <1>5, <2>1, <2>2 DEF Worlds
  <2>4. EvenPages(t) <=> EvenPages(d)
    BY <2>3, EvenSame
  <2>5. Paged(t)
    BY <1>4, <2>3, <2>4 DEF Paged, Placed, Shown, EndTold
  <2>6. Known(t) /\ Mirrors(t) /\ Roomy(t) /\ Listed(t.bc, t.cf)
    BY <1>5, <2>3 DEF Known, Mirrors, Roomy
  <2> QED
    BY <2>3, <2>5, <2>6 DEF Good, Sound, Answers
<1> QED
  BY <1>6, <1>7

\* simple_keystroke() while a syllable is edited.
LEMMA SimpleEditingGood ==
  ASSUME NEW s0, Open(s0), ~Autosel(s0.cf), s0.bc.state = "EDITING", NEW key, NEW mods,
         NEW t \in SimpleEditing(s0, key, mods)
  PROVE  Good(t)
<1> DEFINE s == [s0 EXCEPT !.selspot = FALSE]
           Begun(f) == [Uses(s) EXCEPT !.mcch = <<>>, !.bc = f.bc]
           Page(w) == ShowPage([w EXCEPT !.z = MaxZhuyin], 0)
           Offered(w) ==
             IF Len(Page(w).mcch) = 1
             THEN {Answer([FreeBC(e) EXCEPT !.got = 1], {"COMMIT"})
                     : e \in EditingStatus([Page(w) EXCEPT !.mcch = <<>>])}
             ELSE {[Page(w) EXCEPT !.selspot = TRUE]}
           Done(f) ==
             UNION {IF z.ok THEN Offered(z.s)
                    ELSE IF f.val = "IGNORE" THEN QphrFallback(z.s, key)
                    ELSE EditingStatus(z.s) : z \in ToggleZhi(Begun(f))}
<1>1. /\ s0 \in Worlds /\ s0.cf \in Methods /\ s0.n_lcch = 0 /\ s0.bc.text = 0
      /\ ~s0.selspot /\ s0.ret = {} /\ s0.got = 0
  BY DEF Open, Sound, Known, Mirrors
<1>2. /\ s \in Worlds /\ s.cf = s0.cf /\ s.bc = s0.bc /\ s.n_lcch = 0 /\ ~s.selspot
      /\ s.ret = {} /\ s.got = 0
  BY <1>1 DEF Worlds
<1>3. t \in IF Escapes(mods) THEN ModifierEscape(s, key, mods)
            ELSE UNION {Done(f) : f \in Feed(s.bc, key)}
  BY DEF SimpleEditing
<1> HIDE DEF s
<1>4. CASE Escapes(mods)
  <2>1. Copied(s) /\ Editing(s)
    BY <1>1, <1>2 DEF Copied, Editing, Known, Roomy
  <2>2. Open(s)
    BY <1>2, <2>1, CopiedSound DEF Open
  <2> QED
    BY <1>2, <1>3, <1>4, <2>2, EscapeGood
<1>5. CASE ~Escapes(mods)
  <2>1. PICK f \in Feed(s.bc, key) : t \in Done(f)
    BY <1>3, <1>5
  <2> DEFINE u == Begun(f)
  <2>2. PICK z \in ToggleZhi(u) :
          t \in IF z.ok THEN Offered(z.s)
                ELSE IF f.val = "IGNORE" THEN QphrFallback(z.s, key)
                ELSE EditingStatus(z.s)
    BY <2>1
  <2>3. s.bc \in Bims /\ s.bc.state = "EDITING" /\ s.bc.text = 0
    BY <1>1, <1>2 DEF Worlds
  <2>4. /\ f.bc \in Bims /\ f.bc.state = "EDITING" /\ f.bc.text \in Nat
        /\ f.val = "IGNORE" => f.bc = s.bc
        /\ f.bc.text > 0 => f.bc.zhuyin = 0
    <3>1. f.bc \in Bims
      BY <2>3, FeedType
    <3> QED
      BY <2>3, <3>1, FeedType DEF Bims
  <2>5. /\ Known(u) /\ u.cf = s0.cf /\ u.bc = f.bc /\ u.n_lcch = 0 /\ ~u.selspot
        /\ u.ret = {} /\ u.got = 0
    <3>1. <<>> \in Seq(Cand)
      OBVIOUS
    <3>2. u = [s EXCEPT !.used = TRUE, !.mcch = <<>>, !.bc = f.bc]
      BY <1>2 DEF Uses, Worlds
    <3> HIDE DEF u
    <3>3. /\ u \in Worlds /\ u.cf = s.cf /\ u.bc = f.bc /\ u.n_lcch = s.n_lcch
          /\ u.selspot = s.selspot /\ u.ret = s.ret /\ u.got = s.got
      BY <1>2, <2>4, <3>1, <3>2 DEF Worlds
    <3> QED
      BY <1>1, <1>2, <3>3 DEF Known
  <2> HIDE DEF u
  <2>6. /\ Toggled(u, z)
        /\ z.ok => z.s.bc.state = "ZHI"
        /\ ~z.ok => u.bc.text = 0 \/ u.bc.zhuyin > 0
    BY <2>2, <2>5, ZhiToggled
  <2>7. /\ Known(z.s) /\ z.s.cf = s0.cf /\ z.s.n_lcch = 0 /\ ~z.s.selspot
        /\ z.s.ret = {} /\ z.s.got = 0
    BY <2>5, <2>6 DEF Toggled, Beside
  <2>8. CASE z.ok
    <3>1. t \in Offered(z.s)
      BY <2>2, <2>8
    <3>2. Listed(z.s.bc, z.s.cf) /\ z.s.bc.state = "ZHI"
      BY <2>6, <2>8 DEF Toggled
    <3>3. LET d == ShowPage([z.s EXCEPT !.z = MaxZhuyin], 0)
          IN  IF Len(d.mcch) = 1
              THEN \E e \in EditingStatus([d EXCEPT !.mcch = <<>>]) :
                      t = Answer([FreeBC(e) EXCEPT !.got = 1], {"COMMIT"})
              ELSE t = [d EXCEPT !.selspot = TRUE]
      <4> DEFINE d == Page(z.s)
      <4> HIDE DEF d
      <4>1. t \in IF Len(d.mcch) = 1
                  THEN {Answer([FreeBC(e) EXCEPT !.got = 1], {"COMMIT"})
                          : e \in EditingStatus([d EXCEPT !.mcch = <<>>])}
                  ELSE {[d EXCEPT !.selspot = TRUE]}
        BY Zenon, <3>1 DEF d
      <4>2. IF Len(d.mcch) = 1
            THEN \E e \in EditingStatus([d EXCEPT !.mcch = <<>>]) :
                    t = Answer([FreeBC(e) EXCEPT !.got = 1], {"COMMIT"})
            ELSE t = [d EXCEPT !.selspot = TRUE]
        BY <4>1
      <4> QED
        BY Zenon, <4>2 DEF d
    <3> HIDE DEF Offered
    <3> QED
      BY <1>1, <2>7, <3>2, <3>3, OfferedGood
  <2>9. CASE ~z.ok
    <3>1. z.s.bc = f.bc /\ f.bc.text = 0
      BY <2>4, <2>5, <2>6, <2>9 DEF Toggled
    <3>2. Stale(z.s)
      BY <1>1, <2>4, <2>7, <3>1 DEF Stale
    <3>3. CASE f.val = "IGNORE"
      <4>1. Copied(z.s) /\ Editing(z.s)
        BY <1>1, <2>4, <2>7, <3>1 DEF Copied, Editing, Roomy
      <4>2. Open(z.s)
        BY <2>7, <4>1, CopiedSound DEF Open
      <4> QED
        BY <2>2, <2>4, <2>9, <3>1, <3>3, <4>2, EscapeGood
    <3>4. CASE f.val # "IGNORE"
      <4>1. t \in EditingStatus(z.s)
        BY <2>2, <2>9, <3>4
      <4>2. Copied(t) /\ Editing(t) /\ t.ret = {} /\ t.got = 0
        BY <1>1, <2>7, <3>2, <4>1, StatusCopies DEF Editing
      <4> QED
        BY <4>2, CopiedSound DEF Good, Answers
    <3> QED
      BY <3>3, <3>4
  <2> QED
    BY <2>8, <2>9
<1> QED
  BY <1>4, <1>5

\* phone_keystroke(): every keystroke leaves a sound context and a true answer.
LEMMA KeystrokeGood ==
  ASSUME NEW s, Open(s), winsize \in WinSizes, NEW key, NEW mods, Opener(key, mods),
         NEW t \in Keystroke(s, key, mods)
  PROVE  Good(t)
<1>1. CASE Autosel(s.cf)
  <2>1. t \in BimsKey(CheckWinsize(s), key, mods)
    BY <1>1 DEF Keystroke, On, Autosel, BimsKeystroke
  <2> QED
    BY <1>1, <2>1, WinsizeOpen, BimsKeyGood
<1>2. CASE ~Autosel(s.cf)
  <2>1. t \in SimpleKeystroke(s, key, mods)
    BY <1>2 DEF Keystroke, On, Autosel
  <2>2. CASE s.z = 0 /\ key \in {"Return", "space"}
    <3>1. t = Answer(s, {"IGNORE"})
      BY <2>1, <2>2 DEF SimpleKeystroke
    <3>2. {"IGNORE"} \in SUBSET Flag /\ "COMMIT" \notin {"IGNORE"}
      BY DEF Flag
    <3> QED
      BY <3>1, <3>2, PlainAnswer
  <2>3. CASE ~(s.z = 0 /\ key \in {"Return", "space"}) /\ s.bc.state = "EDITING"
    <3>1. t \in SimpleEditing(s, key, mods)
      BY <2>1, <2>3 DEF SimpleKeystroke
    <3> QED
      BY <1>2, <2>3, <3>1, SimpleEditingGood
  <2>4. CASE ~(s.z = 0 /\ key \in {"Return", "space"}) /\ s.bc.state # "EDITING"
    <3>1. t \in SimpleSelection(s, key, mods)
      BY <2>1, <2>4 DEF SimpleKeystroke
    <3> QED
      BY <1>2, <2>4, <3>1, SimpleSelectionGood
  <2> QED
    BY <2>2, <2>3, <2>4
<1> QED
  BY <1>1, <1>2

-----------------------------------------------------------------------------
(* The contexts.                                                           *)

\* A context and a context of bims, put together.
Join(p, b) == Joined(p, [bc |-> b, ret |-> {}, got |-> 0, used |-> FALSE])

\* A context nobody uses, or a sound one.
Kept(p, b) ==
    IF p.cf = NoMethod THEN p = NoInp /\ b = NewBC ELSE Sound(Join(p, b))

Inv ==
    /\ loaded \in [Methods -> {"unread", "loaded", "refused"}]
    /\ dp \in [{"zhuyin", "pinyin"} -> Methods \cup {NoPool}]
    /\ cdp \in Methods \cup {NoPool}
    /\ noauto \in BOOLEAN
    /\ winsize \in WinSizes
    /\ inp \in [IC -> Inp]
    /\ bc \in [IC -> Bims]
    /\ \A i \in IC : Kept(inp[i], bc[i])
    /\ call.ret \subseteq Flag
    /\ CommitAnswers

\* What is put together has the fields of both.
LEMMA JoinType ==
  ASSUME NEW p \in Inp, NEW b \in Bims
  PROVE  LET w == Join(p, b)
         IN  /\ w \in Worlds /\ w.cf = p.cf /\ w.z = p.z /\ w.n_lcch = p.n_lcch
             /\ w.mcch = p.mcch /\ w.pgstate = p.pgstate /\ w.listchar = p.listchar
             /\ w.selspot = p.selspot /\ w.composed = p.composed /\ w.size = p.size
             /\ w.gsize = p.gsize /\ w.galloc = p.galloc /\ w.bc = b
             /\ w.ret = {} /\ w.got = 0
<1> DEFINE w == Join(p, b)
           q == [bc |-> b, ret |-> {}, got |-> 0, used |-> FALSE]
<1>1. /\ DOMAIN p = {"cf", "z", "n_lcch", "mcch", "pgstate", "listchar", "selspot",
                     "composed", "size", "maxlen", "gsize", "galloc"}
      /\ DOMAIN q = {"bc", "ret", "got", "used"}
  BY DEF Inp
<1>2. w = [x \in DOMAIN p \cup DOMAIN q |-> IF x \in DOMAIN p THEN p[x] ELSE q[x]]
  BY DEF Join, Joined
<1> HIDE DEF w
<1>3. /\ w.cf = p.cf /\ w.z = p.z /\ w.n_lcch = p.n_lcch
      /\ w.mcch = p.mcch /\ w.pgstate = p.pgstate /\ w.listchar = p.listchar
      /\ w.selspot = p.selspot /\ w.composed = p.composed /\ w.size = p.size
      /\ w.maxlen = p.maxlen /\ w.gsize = p.gsize /\ w.galloc = p.galloc
  BY <1>1, <1>2
<1>4. w.bc = b /\ w.ret = {} /\ w.got = 0 /\ w.used = FALSE
  BY <1>1, <1>2
<1>5. w = [cf |-> p.cf, z |-> p.z, n_lcch |-> p.n_lcch, mcch |-> p.mcch,
           pgstate |-> p.pgstate, listchar |-> p.listchar, selspot |-> p.selspot,
           composed |-> p.composed, size |-> p.size, maxlen |-> p.maxlen,
           gsize |-> p.gsize, galloc |-> p.galloc, bc |-> b, ret |-> {}, got |-> 0,
           used |-> FALSE]
  BY <1>1, <1>2, <1>3, <1>4
<1>6. {} \in SUBSET Flag /\ 0 \in Nat
  OBVIOUS
<1>7. w \in Worlds
  BY <1>5, <1>6 DEF Inp, Worlds
<1> QED
  BY <1>3, <1>4, <1>7 DEF w

\* What is stored of a world has its fields.
LEMMA StoreType ==
  ASSUME NEW s \in Worlds
  PROVE  LET p == InpOf(s)
         IN  /\ p \in Inp /\ p.cf = s.cf /\ p.z = s.z /\ p.n_lcch = s.n_lcch
             /\ p.mcch = s.mcch /\ p.pgstate = s.pgstate /\ p.listchar = s.listchar
             /\ p.selspot = s.selspot /\ p.composed = s.composed /\ p.size = s.size
             /\ p.gsize = s.gsize /\ p.galloc = s.galloc
<1> DEFINE p == InpOf(s)
<1>1. p = [f \in {"cf", "z", "n_lcch", "mcch", "pgstate", "listchar", "selspot",
                  "composed", "size", "maxlen", "gsize", "galloc"} |-> s[f]]
  BY DEF InpOf, NoInp
<1> HIDE DEF p
<1>2. /\ p.cf = s.cf /\ p.z = s.z /\ p.n_lcch = s.n_lcch
      /\ p.mcch = s.mcch /\ p.pgstate = s.pgstate /\ p.listchar = s.listchar
      /\ p.selspot = s.selspot /\ p.composed = s.composed /\ p.size = s.size
      /\ p.maxlen = s.maxlen /\ p.gsize = s.gsize /\ p.galloc = s.galloc
  BY <1>1
<1>3. p = [cf |-> s.cf, z |-> s.z, n_lcch |-> s.n_lcch, mcch |-> s.mcch,
           pgstate |-> s.pgstate, listchar |-> s.listchar, selspot |-> s.selspot,
           composed |-> s.composed, size |-> s.size, maxlen |-> s.maxlen,
           gsize |-> s.gsize, galloc |-> s.galloc]
  BY <1>1, <1>2
<1>4. p \in Inp
  BY <1>3 DEF Inp, Worlds
<1> QED
  BY <1>2, <1>4 DEF p

\* A sound world that is stored is sound when it is taken up again.
LEMMA StoreKept ==
  ASSUME NEW s, Sound(s)
  PROVE  InpOf(s) \in Inp /\ s.bc \in Bims /\ Kept(InpOf(s), s.bc)
<1> DEFINE p == InpOf(s)
           w == Join(p, s.bc)
<1>1. s \in Worlds /\ s.bc \in Bims /\ s.cf \in Methods /\ NoMethod \notin Methods
  BY BimsphoneConstants DEF Sound, Known, Worlds
<1>2. /\ p \in Inp /\ p.cf = s.cf /\ p.z = s.z /\ p.n_lcch = s.n_lcch
      /\ p.mcch = s.mcch /\ p.pgstate = s.pgstate /\ p.listchar = s.listchar
      /\ p.selspot = s.selspot /\ p.composed = s.composed /\ p.size = s.size
      /\ p.gsize = s.gsize /\ p.galloc = s.galloc
  BY <1>1, StoreType
<1> HIDE DEF p
<1>3. /\ w \in Worlds /\ w.cf = p.cf /\ w.z = p.z /\ w.n_lcch = p.n_lcch
      /\ w.mcch = p.mcch /\ w.pgstate = p.pgstate /\ w.listchar = p.listchar
      /\ w.selspot = p.selspot /\ w.composed = p.composed /\ w.size = p.size
      /\ w.gsize = p.gsize /\ w.galloc = p.galloc /\ w.bc = s.bc
  BY <1>1, <1>2, JoinType
<1> HIDE DEF w
<1>4. Like(s, w)
  BY <1>1, <1>2, <1>3 DEF Like, Known
<1>5. Sound(w)
  BY <1>4, LikeSound
<1>6. p \in Inp /\ Kept(p, s.bc)
  BY <1>1, <1>2, <1>5 DEF Kept, w
<1> QED
  BY <1>1, <1>6 DEF p

\* A context in use is open when a handler begins.
LEMMA WorldOpen ==
  ASSUME Inv, NEW i \in IC, inp[i].cf # NoMethod
  PROVE  Open(World(i))
<1>1. inp[i] \in Inp /\ bc[i] \in Bims /\ Sound(Join(inp[i], bc[i]))
  BY DEF Inv, Kept
<1>2. Join(inp[i], bc[i]).ret = {} /\ Join(inp[i], bc[i]).got = 0
  BY <1>1, JoinType
<1>3. World(i) = Join(inp[i], bc[i])
  BY DEF World, Join
<1> QED
  BY <1>1, <1>2, <1>3 DEF Open

\* Storing a context and an answer keeps the invariant.
LEMMA FinishKeeps ==
  ASSUME Inv, NEW i \in IC, NEW s, Finish(i, s),
         InpOf(s) \in Inp, s.bc \in Bims, Kept(InpOf(s), s.bc),
         s.ret \subseteq Flag, Answers(s)
  PROVE  Inv'
<1>1. /\ inp' = [inp EXCEPT ![i] = InpOf(s)] /\ bc' = [bc EXCEPT ![i] = s.bc]
      /\ call' = [who |-> i, ret |-> s.ret, got |-> s.got, used |-> s.used]
      /\ UNCHANGED <<loaded, dp, cdp, noauto, winsize>>
  BY DEF Finish
<1>2. inp' \in [IC -> Inp] /\ bc' \in [IC -> Bims]
  BY <1>1 DEF Inv
<1>3. ASSUME NEW j \in IC PROVE Kept(inp'[j], bc'[j])
  <2>1. CASE j = i
    BY <1>1, <2>1 DEF Inv
  <2>2. CASE j # i
    BY <1>1, <2>2 DEF Inv
  <2> QED
    BY <2>1, <2>2
<1>4. call'.ret \subseteq Flag /\ CommitAnswers'
  BY <1>1 DEF CommitAnswers, Answers
<1> QED
  BY <1>1, <1>2, <1>3, <1>4 DEF Inv

\* phone_xim_init() makes a context that is sound.
LEMMA XimInitKeeps ==
  ASSUME Inv, NEW i \in IC, NEW m \in Methods, XimInit(i, m)
  PROVE  Inv'
<1> DEFINE fresh == [NoInp EXCEPT !.cf = m, !.listchar = Autosel(m)]
           w == Joined(fresh, [bc |-> bc[i]])
           sized == CheckWinsize(w)
           s == IF Autosel(m) THEN [sized EXCEPT !.gsize = sized.size + 1, !.galloc = sized.size + 1]
                ELSE w
           p == InpOf(s)
           b == [NewBC EXCEPT !.maxlen = winsize - 1]
           made == [fresh EXCEPT !.size = winsize + 1, !.maxlen = winsize - 1,
                                 !.gsize = winsize + 2, !.galloc = winsize + 2]
<1>1. /\ m # NoMethod /\ winsize \in Nat /\ winsize > 1 /\ winsize - 1 \in Nat
      /\ winsize + 1 \in Nat /\ winsize + 2 \in Nat
  BY BimsphoneConstants DEF Inv
<1>2. bc[i] = NewBC
  BY DEF Inv, Kept, XimInit
<1>3. /\ cdp' = IF Autosel(m) THEN dp[Kind(m)] ELSE cdp
      /\ inp' = [inp EXCEPT ![i] = p] /\ bc' = [bc EXCEPT ![i] = s.bc]
      /\ call' = NoCall /\ UNCHANGED <<loaded, dp, noauto, winsize>>
  BY DEF XimInit
<1>4. Autosel(m) \in BOOLEAN /\ <<>> \in Seq(Cand) /\ 0 \in 0 .. (MaxZhuyin + N_MAX_KEYCODE_PINYIN)
  BY BimsphoneConstants DEF Autosel
<1>5. /\ fresh \in Inp /\ fresh.cf = m /\ fresh.z = 0 /\ fresh.n_lcch = 0
      /\ fresh.listchar = Autosel(m) /\ ~fresh.selspot /\ ~fresh.composed
      /\ fresh.size = 0 /\ fresh.maxlen = 0 /\ fresh.mcch = <<>>
      /\ fresh.pgstate = "ONEPG" /\ fresh.gsize = 0 /\ fresh.galloc = 0
  BY <1>4 DEF NoInp, Inp, PageState
<1> HIDE DEF fresh
<1>6. b \in Bims /\ b.state = "EDITING" /\ b.text = 0 /\ NewBC \in Bims
  <2>1. NewBC \in Bims /\ NewBC.state = "EDITING" /\ NewBC.text = 0
    BY NewBCType
  <2> QED
    BY <1>1, <2>1 DEF Bims
<1>7. /\ made \in Inp /\ made.cf = m /\ made.z = 0 /\ made.n_lcch = 0
      /\ made.listchar = Autosel(m) /\ ~made.selspot /\ ~made.composed
      /\ made.size = winsize + 1 /\ made.gsize = winsize + 2 /\ made.galloc = winsize + 2
  BY <1>1, <1>5 DEF Inp
<1>8. /\ w = [f \in DOMAIN fresh \cup {"bc"} |-> IF f \in DOMAIN fresh THEN fresh[f] ELSE NewBC]
      /\ DOMAIN fresh = {"cf", "z", "n_lcch", "mcch", "pgstate", "listchar", "selspot",
                         "composed", "size", "maxlen", "gsize", "galloc"}
  BY <1>2, <1>5 DEF Joined, Inp
<1> HIDE DEF w
<1>9. p \in Inp /\ s.bc \in Bims /\ Kept(p, s.bc)
  <2>1. CASE ~Autosel(m)
    <3>1. s = w
      BY <2>1
    <3> HIDE DEF s
    <3>2. w.bc = NewBC
      BY <1>8
    <3>3. p = fresh
      BY <1>5, <1>8, <3>1 DEF InpOf, NoInp, Inp
    <3> HIDE DEF p
    <3> DEFINE v == Join(fresh, NewBC)
    <3>4. /\ v \in Worlds /\ v.cf = m /\ v.n_lcch = 0 /\ ~v.selspot /\ v.bc = NewBC
      BY <1>5, <1>6, JoinType
    <3> HIDE DEF v
    <3>5. Bare(v)
      BY <2>1, <3>4 DEF Bare, Known
    <3>6. Sound(v)
      BY <3>5, BareSound
    <3> QED
      BY <1>1, <1>5, <1>6, <3>1, <3>2, <3>3, <3>6 DEF Kept, v
  <2>2. CASE Autosel(m)
    <3> DEFINE z == winsize + 1
    <3>1. /\ w.size = 0 /\ w.maxlen = 0 /\ w.bc = NewBC /\ w.bc.maxlen = 99
      BY <1>5, <1>8 DEF NewBC
    <3>2. sized = [w EXCEPT !.maxlen = winsize - 1, !.bc = b, !.size = z]
      <4>1. w.size # winsize /\ w.size <= winsize
        BY <1>1, <3>1
      <4> QED
        BY <1>8, <3>1, <4>1 DEF CheckWinsize
    <3> HIDE DEF sized, b
    <3>3. sized.size = z /\ z + 1 = winsize + 2
      BY <1>1, <1>8, <3>2
    <3> HIDE DEF z
    <3>4. s = [w EXCEPT !.maxlen = winsize - 1, !.bc = b, !.size = z,
                        !.gsize = winsize + 2, !.galloc = winsize + 2]
      BY <1>8, <2>2, <3>2, <3>3
    <3> HIDE DEF s
    <3>5. s.bc = b
      BY <1>8, <3>4
    <3>6. p = made
      <4>1. made = [fresh EXCEPT !.size = z, !.maxlen = winsize - 1,
                                 !.gsize = winsize + 2, !.galloc = winsize + 2]
        BY DEF z
      <4> HIDE DEF made
      <4> QED
        BY <1>5, <1>8, <3>4, <4>1 DEF InpOf, NoInp, Inp
    <3> HIDE DEF p, made
    <3> DEFINE v == Join(made, b)
    <3>10. /\ v \in Worlds /\ v.cf = made.cf /\ v.n_lcch = made.n_lcch
           /\ v.listchar = made.listchar /\ v.bc = b /\ v.composed = made.composed
           /\ v.size = made.size /\ v.gsize = made.gsize /\ v.galloc = made.galloc
           /\ v.z = made.z
      BY <1>6, <1>7, JoinType
    <3> HIDE DEF v
    <3>7. /\ v \in Worlds /\ v.cf = m /\ v.n_lcch = 0 /\ v.listchar /\ v.bc = b
          /\ ~v.composed /\ v.size = winsize + 1 /\ v.gsize = v.galloc /\ v.z = 0
          /\ v.gsize = winsize + 2
      BY <1>7, <2>2, <3>10
    <3>8. Copied(v) /\ Editing(v)
      BY <1>1, <1>6, <2>2, <3>7 DEF Copied, Editing, Known, Roomy
    <3>9. Sound(v)
      BY <3>8, CopiedSound
    <3> QED
      BY <1>1, <1>6, <1>7, <3>5, <3>6, <3>9 DEF Kept, v
  <2> QED
    BY <2>1, <2>2
<1> HIDE DEF p, s
<1>10. cdp' \in Methods \cup {NoPool}
  BY <1>3 DEF Inv, Kind
<1>11. inp' \in [IC -> Inp] /\ bc' \in [IC -> Bims] /\ \A j \in IC : Kept(inp'[j], bc'[j])
  BY <1>3, <1>9 DEF Inv
<1>12. call'.ret \subseteq Flag /\ CommitAnswers'
  BY <1>3 DEF NoCall, CommitAnswers
<1> QED
  BY <1>3, <1>10, <1>11, <1>12 DEF Inv

\* phone_xim_end() hands over what is left and frees the context.
LEMMA XimEndKeeps ==
  ASSUME Inv, NEW i \in IC, XimEnd(i)
  PROVE  Inv'
<1> DEFINE busy == inp[i].n_lcch > 0
           End(u) == Joined(NoInp, [bc |-> NewBC, got |-> u.got, used |-> u.used,
                                    ret |-> IF busy THEN {"COMMIT"} ELSE {}])
<1>1. PICK u \in IF busy THEN CommitString(World(i), inp[i].n_lcch) ELSE {World(i)} :
          Finish(i, End(u)) /\ inp[i].cf # NoMethod
  BY DEF XimEnd
<1>2. Open(World(i)) /\ Known(World(i)) /\ Mirrors(World(i))
      /\ World(i).n_lcch = inp[i].n_lcch /\ inp[i].n_lcch \in Nat /\ World(i).got = 0
  <2>1. Open(World(i))
    BY <1>1, WorldOpen
  <2>2. inp[i] \in Inp /\ bc[i] \in Bims /\ World(i) = Join(inp[i], bc[i])
    BY DEF Inv, World, Join
  <2>3. World(i).n_lcch = inp[i].n_lcch
    BY <2>2, JoinType
  <2> QED
    BY <2>1, <2>2, <2>3 DEF Open, Sound, Inp
<1>3. busy <=> u.got > 0
  <2>1. CASE busy
    <3>1. World(i).bc.text > 0
      BY <1>2, <2>1 DEF Mirrors
    <3> QED
      BY <1>1, <1>2, <2>1, <3>1, CommitTakes
  <2>2. CASE ~busy
    BY <1>1, <1>2, <2>2
  <2> QED
    BY <2>1, <2>2
<1> DEFINE s == End(u)
           flags == IF busy THEN {"COMMIT"} ELSE {}
<1>4. DOMAIN NoInp = {"cf", "z", "n_lcch", "mcch", "pgstate", "listchar", "selspot",
                      "composed", "size", "maxlen", "gsize", "galloc"}
  BY DEF NoInp
<1>5. s.bc = NewBC /\ s.ret = flags /\ s.got = u.got
  BY <1>4 DEF Joined
<1>6. InpOf(s) = NoInp
  <2>1. \A f \in DOMAIN NoInp : s[f] = NoInp[f]
    BY DEF Joined
  <2>2. NoInp = [f \in DOMAIN NoInp |-> NoInp[f]]
    BY DEF NoInp
  <2> HIDE DEF s
  <2> QED
    BY <2>1, <2>2 DEF InpOf
<1>7. NoInp \in Inp /\ NoInp.cf = NoMethod
  <2>1. <<>> \in Seq(Cand) /\ 0 \in 0 .. (MaxZhuyin + N_MAX_KEYCODE_PINYIN)
    BY BimsphoneConstants
  <2> QED
    BY <2>1 DEF NoInp, Inp, PageState
<1>8. flags \subseteq Flag /\ ("COMMIT" \in flags <=> busy)
  BY DEF Flag
<1>9. Finish(i, s)
  BY <1>1
<1> HIDE DEF s, flags, busy
<1>10. /\ InpOf(s) \in Inp /\ s.bc \in Bims /\ Kept(InpOf(s), s.bc)
       /\ s.ret \subseteq Flag /\ Answers(s)
  BY <1>3, <1>5, <1>6, <1>7, <1>8, NewBCType DEF Kept, Answers
<1> QED
  BY <1>9, <1>10, FinishKeeps

-----------------------------------------------------------------------------
(* The theorems.                                                           *)

\* The first state.
LEMMA InitInv == Init => Inv
<1> SUFFICES ASSUME Init PROVE Inv
  OBVIOUS
<1>1. NoInp \in Inp /\ NoInp.cf = NoMethod
  <2>1. <<>> \in Seq(Cand) /\ 0 \in 0 .. (MaxZhuyin + N_MAX_KEYCODE_PINYIN)
    BY BimsphoneConstants
  <2> QED
    BY <2>1 DEF NoInp, Inp, PageState
<1>2. inp = [i \in IC |-> NoInp] /\ bc = [i \in IC |-> NewBC]
  BY DEF Init
<1>3. inp \in [IC -> Inp] /\ bc \in [IC -> Bims] /\ \A i \in IC : Kept(inp[i], bc[i])
  BY <1>1, <1>2, NewBCType DEF Kept
<1>4. call.ret \subseteq Flag /\ CommitAnswers
  BY DEF Init, NoCall, CommitAnswers
<1> QED
  BY <1>3, <1>4 DEF Init, Inv

\* phone_init() touches no context.
LEMMA PhoneInitKeeps ==
  ASSUME Inv, NEW m \in Methods, NEW opens \in BOOLEAN, PhoneInit(m, opens)
  PROVE  Inv'
<1> DEFINE taken == IF Autosel(m) THEN dp[Kind(m)] # NoPool ELSE noauto
           good  == ~taken /\ (opens \/ ~Autosel(m))
<1>1. /\ loaded' = [loaded EXCEPT ![m] = IF good THEN "loaded" ELSE "refused"]
      /\ noauto' = (noauto \/ ~Autosel(m))
      /\ cdp' = IF taken \/ ~Autosel(m) THEN cdp ELSE IF opens THEN m ELSE NoPool
      /\ dp' = IF good /\ Autosel(m) THEN [dp EXCEPT ![Kind(m)] = m] ELSE dp
      /\ call' = NoCall /\ UNCHANGED <<winsize, inp, bc>>
  BY DEF PhoneInit
<1> HIDE DEF good, taken
<1>2. Kind(m) \in {"zhuyin", "pinyin"}
  BY DEF Kind
<1>3. /\ loaded' \in [Methods -> {"unread", "loaded", "refused"}]
      /\ noauto' \in BOOLEAN /\ cdp' \in Methods \cup {NoPool}
  BY <1>1 DEF Inv, Autosel
<1>4. dp' \in [{"zhuyin", "pinyin"} -> Methods \cup {NoPool}]
  BY <1>1, <1>2 DEF Inv
<1>5. call'.ret \subseteq Flag /\ CommitAnswers'
  BY <1>1 DEF NoCall, CommitAnswers
<1> QED
  BY <1>1, <1>3, <1>4, <1>5 DEF Inv

\* A keystroke, and the display of one, answer for a sound context.
LEMMA KeystrokeKeeps ==
  ASSUME Inv, NEW i \in IC, NEW s, Good(s), Finish(i, s)
  PROVE  Inv'
<1>1. InpOf(s) \in Inp /\ s.bc \in Bims /\ Kept(InpOf(s), s.bc)
  BY StoreKept DEF Good
<1>2. s.ret \subseteq Flag /\ Answers(s)
  BY DEF Good, Sound, Known, Worlds
<1> QED
  BY <1>1, <1>2, FinishKeeps

\* Every step keeps the invariant.
LEMMA StepInv == Inv /\ [Next]_vars => Inv'
<1> SUFFICES ASSUME Inv, [Next]_vars PROVE Inv'
  OBVIOUS
<1>1. ASSUME NEW m \in Methods, NEW opens \in BOOLEAN, PhoneInit(m, opens) PROVE Inv'
  BY <1>1, PhoneInitKeeps
<1>2. ASSUME NEW i \in IC, NEW m \in Methods, XimInit(i, m) PROVE Inv'
  BY <1>2, XimInitKeeps
<1>3. ASSUME NEW i \in IC, XimEnd(i) PROVE Inv'
  BY <1>3, XimEndKeeps
<1>4. ASSUME NEW i \in IC, NEW t \in Typed, PhoneKeystroke(i, t[1], t[2]) PROVE Inv'
  <2>1. PICK s \in Keystroke(World(i), t[1], t[2]) : Finish(i, s)
    BY <1>4 DEF PhoneKeystroke
  <2>2. Open(World(i)) /\ winsize \in WinSizes
    BY <1>4, WorldOpen DEF PhoneKeystroke, Inv
  <2>3. Opener(t[1], t[2])
    BY DEF Opener, PagesAssumed
  <2>4. Good(s)
    BY <2>1, <2>2, <2>3, KeystrokeGood
  <2> QED
    BY <2>1, <2>4, KeystrokeKeeps
<1>5. ASSUME NEW i \in IC, PhoneShowKeystroke(i) PROVE Inv'
  <2> DEFINE s == Uses(World(i))
  <2>1. Finish(i, s)
    BY <1>5 DEF PhoneShowKeystroke
  <2>2. Open(World(i)) /\ Known(World(i))
    BY <1>5, WorldOpen DEF PhoneShowKeystroke, Open, Sound
  <2>3. Like(World(i), s) /\ s.ret = {} /\ s.got = 0
    BY <2>2, AnswerLike DEF Open
  <2> HIDE DEF s
  <2>4. Good(s)
    BY <2>2, <2>3, LikeSound DEF Open, Good, Answers
  <2> QED
    BY <2>1, <2>4, KeystrokeKeeps
<1>6. ASSUME Resize PROVE Inv'
  BY <1>6 DEF Resize, Inv, NoCall, CommitAnswers
<1>7. ASSUME UNCHANGED vars PROVE Inv'
  BY <1>7 DEF vars, Inv, CommitAnswers
<1> QED
  BY <1>1, <1>2, <1>3, <1>4, <1>5, <1>6, <1>7 DEF Next

\* What is kept holds always.
LEMMA Kept_always == Spec => []Inv
<1>1. Init => Inv
  BY InitInv
<1>2. Inv /\ [Next]_vars => Inv'
  BY StepInv
<1> QED
  BY <1>1, <1>2, PTL DEF Spec

\* A context that is used has the fields of a sound world.
LEMMA ContextSound ==
  ASSUME Inv, NEW i \in IC, User(i)
  PROVE  /\ Sound(World(i)) /\ World(i).cf = inp[i].cf /\ World(i).z = inp[i].z
         /\ World(i).n_lcch = inp[i].n_lcch /\ World(i).mcch = inp[i].mcch
         /\ World(i).pgstate = inp[i].pgstate /\ World(i).listchar = inp[i].listchar
         /\ World(i).selspot = inp[i].selspot /\ World(i).composed = inp[i].composed
         /\ World(i).size = inp[i].size /\ World(i).gsize = inp[i].gsize
         /\ World(i).galloc = inp[i].galloc /\ World(i).bc = bc[i]
<1>1. Open(World(i))
  BY WorldOpen DEF User
<1>2. inp[i] \in Inp /\ bc[i] \in Bims /\ World(i) = Join(inp[i], bc[i])
  BY DEF Inv, World, Join
<1> QED
  BY <1>1, <1>2, JoinType DEF Open

\* The state always has its shape.
THEOREM TypeCorrect == Spec => []TypeOK
<1>1. Inv => TypeOK
  <2> SUFFICES ASSUME Inv PROVE TypeOK
    OBVIOUS
  <2>1. ASSUME NEW i \in IC
        PROVE  /\ inp[i].cf \in Methods \cup {NoMethod}
               /\ inp[i].z \in 0 .. (MaxZhuyin + N_MAX_KEYCODE_PINYIN)
               /\ inp[i].pgstate \in {"ONEPG", "BEGIN", "MIDDLE", "END"}
               /\ bc[i].state \in {"EDITING", "ZHI", "TSI"}
               /\ bc[i].zhuyin \in 0 .. MaxZhuyin
               /\ bc[i].base \in Nat
    <3>1. inp[i] \in Inp /\ bc[i] \in Bims
      BY DEF Inv
    <3> QED
      BY <3>1 DEF Inp, Bims, PageState
  <2> QED
    BY <2>1 DEF TypeOK, Inv, Flag
<1> QED
  BY <1>1, Kept_always, PTL

\* Over any keys, refused ones, selections and commits, what a context and its
\* window have copied of bims is what bims has.
THEOREM ContextMirrorsBimsAlways == Spec => []ContextMirrorsBims
<1>1. Inv => ContextMirrorsBims
  <2> SUFFICES ASSUME Inv PROVE ContextMirrorsBims
    OBVIOUS
  <2>1. \A i \in IC : User(i) => Mirrors(World(i)) /\ (~Autosel(inp[i].cf) => ~inp[i].n_lcch > 0)
    BY ContextSound DEF Sound, Mirrors
  <2>2. WindowFollowsBims
    BY <2>1, ContextSound DEF WindowFollowsBims, Mirrors, AutoIC, Selecting
  <2>3. CopyHasLength
    BY <2>1, ContextSound DEF CopyHasLength, Mirrors, AutoIC, Selecting
  <2>4. ComposedHonest
    BY <2>1, ContextSound DEF ComposedHonest, Mirrors, AutoIC, Selecting
  <2> QED
    BY <2>2, <2>3, <2>4 DEF ContextMirrorsBims
<1> QED
  BY <1>1, Kept_always, PTL

\* Every call that says COMMIT hands over text, and no other.
THEOREM CommitAnswersAlways == Spec => []CommitAnswers
<1>1. Inv => CommitAnswers
  BY DEF Inv
<1> QED
  BY <1>1, Kept_always, PTL

\* Both buffers hold what is written to them.
THEOREM BuffersFitAlways == Spec => []BuffersFit
<1>1. Inv => BuffersFit
  BY ContextSound DEF BuffersFit, AutoIC, Sound, Roomy
<1> QED
  BY <1>1, Kept_always, PTL

\* Where a page has room for a phrase and no key opens the selection together
\* with Ctrl or Alt, the window shows what bims is told, and its marks are true.
THEOREM PageIsSliceAlways ==
  ASSUME PagesAssumed
  PROVE  Spec => []PageIsSlice
<1>1. Inv => PageIsSlice
  <2> SUFFICES ASSUME Inv, NEW i \in IC, User(i), Selecting(i)
               PROVE  /\ inp[i].mcch # <<>>
                      /\ bc[i].base + Len(inp[i].mcch) <= Len(bc[i].cands)
                      /\ inp[i].mcch = SubSeq(bc[i].cands, bc[i].base + 1,
                                              bc[i].base + Len(inp[i].mcch))
                      /\ (inp[i].pgstate \in {"ONEPG", "BEGIN"}) <=> bc[i].base = 0
                      /\ EvenPages(World(i)) => EndTold(World(i))
    BY DEF PageIsSlice
  <2>1. World(i).bc = bc[i] /\ World(i).mcch = inp[i].mcch
        /\ World(i).pgstate = inp[i].pgstate /\ Sound(World(i))
    BY ContextSound
  <2>2. Shown(World(i))
    BY <2>1 DEF Sound, Paged, Selecting
  <2> QED
    BY <2>1, <2>2 DEF Shown
<1> QED
  BY <1>1, Kept_always, PTL

=============================================================================
