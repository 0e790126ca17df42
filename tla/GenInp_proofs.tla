----------------------------- MODULE GenInp_proofs -----------------------------
(***************************************************************************)
(* Proofs about the table driven input method, for any table, keys, rcfile *)
(* and number of input contexts.                                           *)
(*                                                                         *)
(* A handler is a function of the world it works on (World), so that the   *)
(* argument has two halves: what each handler makes of a world, and what   *)
(* the contexts have afterwards.  The world is taken through the handlers  *)
(* twice.  First for its types and the grouping of its page (Sound,        *)
(* Grouped; the invariant is GenInpInv).  Then for the page and the text:  *)
(* the page is one of the answers (Shown), while the user selects there is *)
(* a page (Selected), and a text is an answer (TextAnswers); the invariant *)
(* is GoodInv.                                                             *)
(*                                                                         *)
(* Before that come the lemmas about what the handlers are made of: the    *)
(* recursive functions of Wildcard, searches through the table (Kept,      *)
(* LowerBound) and pages cut out of what they find.                        *)
(***************************************************************************)
EXTENDS GenInp, Integers, SequenceTheorems, WellFoundedInduction, TLAPS

----------------------------------------------------------------------------
(* Numbers.                                                                *)

\* What holds of 0, and of n + 1 whenever it holds of n, holds of every number.
LEMMA SetInduction ==
  ASSUME NEW S, 0 \in S, \A n \in Nat : n \in S => n + 1 \in S
  PROVE  \A n \in Nat : n \in S
<1> DEFINE R == OpToRel(<, Nat)
           T == Nat \ S
<1> SUFFICES ASSUME T # {} PROVE FALSE
  OBVIOUS
<1>1. PICK x \in T : \A y \in T : <<y, x>> \notin R
  <2> HIDE DEF R
  <2>1. IsWellFoundedOn(R, Nat)
    BY NatLessThanWellFounded DEF R
  <2> QED
    BY <2>1, WFMin
<1>2. x # 0 /\ x - 1 \in Nat
  OBVIOUS
<1>3. <<x - 1, x>> \in R
  BY <1>2 DEF OpToRel
<1>4. x - 1 \in S
  BY <1>1, <1>2, <1>3
<1> QED
  BY <1>2, <1>4

\* A set of numbers that is not empty has a least one.
LEMMA LeastOf ==
  ASSUME NEW S \in SUBSET Nat, S # {}
  PROVE  \E x \in S : \A y \in S : x <= y
<1> DEFINE R == OpToRel(<, Nat)
<1>1. PICK x \in S : \A y \in S : <<y, x>> \notin R
  <2> HIDE DEF R
  <2>1. IsWellFoundedOn(R, Nat)
    BY NatLessThanWellFounded DEF R
  <2> QED
    BY <2>1, WFMin
<1>2. \A y \in S : ~(y < x)
  BY <1>1 DEF OpToRel
<1> QED
  BY <1>2

----------------------------------------------------------------------------
(* Patterns.                                                               *)

\* The scan for a key that is no wild card stops at one, or behind the pattern.
LEMMA NextLiteralFinds ==
  ASSUME NEW K, NEW p \in Seq(K), NEW i \in 1 .. Len(p) + 1
  PROVE  /\ NextLiteral(p, i) \in i .. Len(p) + 1
         /\ NextLiteral(p, i) <= Len(p) => ~IsWild(p[NextLiteral(p, i)])
         /\ \A h \in i .. NextLiteral(p, i) - 1 : IsWild(p[h])
<1> DEFINE S == {k \in i .. Len(p) + 1 : k <= Len(p) => ~IsWild(p[k])}
           Q(k) == /\ k <= Len(p) => ~IsWild(p[k])
                   /\ \A h \in i .. k - 1 : IsWild(p[h])
<1>1. Len(p) \in Nat
  OBVIOUS
<1>2. Len(p) + 1 \in S /\ S \in SUBSET Nat
  BY <1>1
<1>3. PICK k \in S : \A y \in S : k <= y
  BY <1>2, LeastOf, Zenon
<1>4. k \in i .. Len(p) + 1 /\ Q(k)
  <2>1. ASSUME NEW h \in i .. k - 1 PROVE IsWild(p[h])
    <3>1. h \in i .. Len(p) + 1 /\ ~(k <= h) /\ h <= Len(p)
      BY <1>1
    <3>2. h \notin S
      BY <1>3, <3>1
    <3> QED
      BY <3>1, <3>2
  <2>2. k \in i .. Len(p) + 1 /\ (k <= Len(p) => ~IsWild(p[k]))
    BY <1>3
  <2> QED
    BY <2>1, <2>2
<1>5. \E x \in i .. Len(p) + 1 : Q(x)
  BY <1>4, Zenon
<1>6. NextLiteral(p, i) = CHOOSE x \in i .. Len(p) + 1 : Q(x)
  BY Zenon DEF NextLiteral
<1> HIDE DEF Q, S
<1>7. NextLiteral(p, i) \in i .. Len(p) + 1 /\ Q(NextLiteral(p, i))
  BY <1>5, <1>6, Zenon
<1> QED
  BY <1>7 DEF Q

\* The scan for a wild card stops at one, or behind the pattern.
LEMMA NextWildFinds ==
  ASSUME NEW K, NEW p \in Seq(K), NEW i \in 1 .. Len(p) + 1
  PROVE  /\ NextWild(p, i) \in i .. Len(p) + 1
         /\ NextWild(p, i) <= Len(p) => IsWild(p[NextWild(p, i)])
         /\ \A h \in i .. NextWild(p, i) - 1 : ~IsWild(p[h])
<1> DEFINE S == {k \in i .. Len(p) + 1 : k <= Len(p) => IsWild(p[k])}
           Q(k) == /\ k <= Len(p) => IsWild(p[k])
                   /\ \A h \in i .. k - 1 : ~IsWild(p[h])
<1>1. Len(p) \in Nat
  OBVIOUS
<1>2. Len(p) + 1 \in S /\ S \in SUBSET Nat
  BY <1>1
<1>3. PICK k \in S : \A y \in S : k <= y
  BY <1>2, LeastOf, Zenon
<1>4. k \in i .. Len(p) + 1 /\ Q(k)
  <2>1. ASSUME NEW h \in i .. k - 1 PROVE ~IsWild(p[h])
    <3>1. h \in i .. Len(p) + 1 /\ ~(k <= h) /\ h <= Len(p)
      BY <1>1
    <3>2. h \notin S
      BY <1>3, <3>1
    <3> QED
      BY <3>1, <3>2
  <2>2. k \in i .. Len(p) + 1 /\ (k <= Len(p) => IsWild(p[k]))
    BY <1>3
  <2> QED
    BY <2>1, <2>2
<1>5. \E x \in i .. Len(p) + 1 : Q(x)
  BY <1>4, Zenon
<1>6. NextWild(p, i) = CHOOSE x \in i .. Len(p) + 1 : Q(x)
  BY Zenon DEF NextWild
<1> HIDE DEF Q, S
<1>7. NextWild(p, i) \in i .. Len(p) + 1 /\ Q(NextWild(p, i))
  BY <1>5, <1>6, Zenon
<1> QED
  BY <1>7 DEF Q

\* A row of the table that strcmp_wild() walks through, from the rows behind it,
MatchRow(p, s, m, i) ==
    {j \in 1 .. Len(s) + 1 :
       IF j > Len(s)
         THEN i > Len(p) \/ (p[i] = "*" /\ NextLiteral(p, i) > Len(p))
         ELSE /\ i <= Len(p)
              /\ \/ p[i] = "*" /\ Star(p, s, i, j, m)
                 \/ p[i] = "?" /\ j + 1 \in m[i + 1]
                 \/ ~IsWild(p[i]) /\ p[i] = s[j] /\ j + 1 \in m[i + 1]}

\* and a row of the reference's.
GlobRow(p, s, g, i) ==
    {j \in 1 .. Len(s) + 1 :
       IF i > Len(p) THEN j > Len(s)
       ELSE \/ p[i] = "*" /\ \E k \in j .. Len(s) + 1 : k \in g[NextLiteral(p, i)]
            \/ /\ j <= Len(s) /\ j + 1 \in g[i + 1]
               /\ p[i] = "?" \/ (~IsWild(p[i]) /\ p[i] = s[j])}

IsMatchTable(m, p, s) == m = [i \in 1 .. Len(p) + 1 |-> MatchRow(p, s, m, i)]
IsGlobTable(g, p, s)  == g = [i \in 1 .. Len(p) + 1 |-> GlobRow(p, s, g, i)]

\* A row depends on no row but those behind it.
LEMMA MatchRowLocal ==
  ASSUME NEW K, NEW p \in Seq(K), NEW s, NEW i \in 1 .. Len(p) + 1, NEW m, NEW n,
         \A h \in i + 1 .. Len(p) + 1 : m[h] = n[h]
  PROVE  MatchRow(p, s, m, i) = MatchRow(p, s, n, i)
<1>1. i <= Len(p) => m[i + 1] = n[i + 1]
  OBVIOUS
<1>2. ASSUME i <= Len(p), p[i] = "*", NEW j PROVE Star(p, s, i, j, m) <=> Star(p, s, i, j, n)
  <2> DEFINE from == NextLiteral(p, i)
             to   == NextWild(p, from)
             hits == {k \in j .. Len(s) : RunAt(p, from, to, s, k)}
             at   == CHOOSE k \in hits : \A h \in hits : k <= h
  <2>1. from \in i .. Len(p) + 1 /\ (from <= Len(p) => ~IsWild(p[from]))
    BY NextLiteralFinds
  <2>2. from # i
    <3> HIDE DEF from
    <3> QED
      BY <1>2, <2>1 DEF IsWild
  <2>3. to \in from .. Len(p) + 1
    <3> HIDE DEF from
    <3>1. from \in 1 .. Len(p) + 1
      BY <2>1
    <3> QED
      BY <3>1, NextWildFinds
  <2>4. m[to] = n[to]
    <3> HIDE DEF from, to
    <3>1. to \in i + 1 .. Len(p) + 1
      BY <2>1, <2>2, <2>3
    <3> QED
      BY <3>1
  <2>5. Star(p, s, i, j, m) <=> (from > Len(p) \/ (hits # {} /\ at + to - from \in m[to]))
    BY DEF Star
  <2>6. Star(p, s, i, j, n) <=> (from > Len(p) \/ (hits # {} /\ at + to - from \in n[to]))
    BY DEF Star
  <2> HIDE DEF from, to, hits, at
  <2> QED
    BY <2>4, <2>5, <2>6, Zenon
<1>3. ASSUME NEW j PROVE j \in MatchRow(p, s, m, i) <=> j \in MatchRow(p, s, n, i)
  <2>1. CASE i > Len(p)
    <3>1. ~(i <= Len(p))
      BY <2>1
    <3> QED
      BY <2>1, <3>1, Zenon DEF MatchRow
  <2>2. CASE i <= Len(p)
    BY <2>2, <1>1, <1>2 DEF MatchRow
  <2> QED
    BY <2>1, <2>2
<1> QED
  BY <1>3 DEF MatchRow

\* A row of the search table depends on the rows behind it only.
LEMMA GlobRowLocal ==
  ASSUME NEW K, NEW p \in Seq(K), NEW s, NEW i \in 1 .. Len(p) + 1, NEW m, NEW n,
         \A h \in i + 1 .. Len(p) + 1 : m[h] = n[h]
  PROVE  GlobRow(p, s, m, i) = GlobRow(p, s, n, i)
<1>1. i <= Len(p) => m[i + 1] = n[i + 1]
  OBVIOUS
<1>2. ASSUME i <= Len(p), p[i] = "*"
      PROVE  m[NextLiteral(p, i)] = n[NextLiteral(p, i)]
  <2> DEFINE from == NextLiteral(p, i)
  <2>1. from \in i .. Len(p) + 1 /\ (from <= Len(p) => ~IsWild(p[from]))
    BY NextLiteralFinds
  <2>2. from # i
    <3> HIDE DEF from
    <3> QED
      BY <1>2, <2>1 DEF IsWild
  <2> HIDE DEF from
  <2>3. m[from] = n[from]
    BY <2>1, <2>2
  <2> QED
    BY <2>3 DEF from
<1>3. ASSUME NEW j PROVE j \in GlobRow(p, s, m, i) <=> j \in GlobRow(p, s, n, i)
  <2>1. CASE i > Len(p)
    <3>1. ~(i <= Len(p))
      BY <2>1
    <3> QED
      BY <2>1, <3>1, Zenon DEF GlobRow
  <2>2. CASE i <= Len(p)
    BY <2>2, <1>1, <1>2 DEF GlobRow
  <2> QED
    BY <2>1, <2>2
<1> QED
  BY <1>3 DEF GlobRow

\* So both tables exist: they are filled from their last row on.
LEMMA MatchTableExists ==
  ASSUME NEW K, NEW p \in Seq(K), NEW s
  PROVE  \E m : IsMatchTable(m, p, s)
<1> DEFINE L == Len(p) + 1
           Filled(m, N) == /\ DOMAIN m = 1 .. L /\ m = [i \in 1 .. L |-> m[i]]
                           /\ \A i \in 1 .. L : i > L - N => m[i] = MatchRow(p, s, m, i)
           S == {N \in Nat : N <= L => \E m : Filled(m, N)}
<1>0. L \in Nat /\ L = Len(p) + 1
  OBVIOUS
<1>1. 0 \in S
  <2>1. Filled([i \in 1 .. L |-> {}], 0)
    BY <1>0
  <2> QED
    BY <2>1
<1>2. ASSUME NEW N \in Nat, N \in S PROVE N + 1 \in S
  <2> SUFFICES ASSUME N + 1 <= L PROVE \E m : Filled(m, N + 1)
    OBVIOUS
  <2>1. PICK m : Filled(m, N)
    BY <1>0, <1>2
  <2> DEFINE at == L - N
             n == [i \in 1 .. L |-> IF i = at THEN MatchRow(p, s, m, at) ELSE m[i]]
  <2>2. at \in 1 .. L
    BY <1>0
  <2>3. ASSUME NEW i \in 1 .. L, i >= at PROVE MatchRow(p, s, n, i) = MatchRow(p, s, m, i)
    <3>1. \A h \in i + 1 .. L : n[h] = m[h]
      BY <2>2, <2>3, <1>0
    <3> HIDE DEF n
    <3> QED
      BY <3>1, MatchRowLocal
  <2>4. ASSUME NEW i \in 1 .. L, i > L - (N + 1) PROVE n[i] = MatchRow(p, s, n, i)
    <3>0. n[i] = (IF i = at THEN MatchRow(p, s, m, at) ELSE m[i])
      OBVIOUS
    <3> HIDE DEF n
    <3>1. CASE i = at
      BY <3>0, <3>1, <2>3
    <3>2. CASE i > at
      <4>1. m[i] = MatchRow(p, s, m, i)
        BY <3>2, <2>1, <1>0
      <4> QED
        BY <3>0, <3>2, <2>2, <2>3, <4>1
    <3> QED
      BY <3>1, <3>2, <2>2, <2>4, <1>0
  <2>5. Filled(n, N + 1)
    BY <2>4
  <2> QED
    BY <2>5
<1> HIDE DEF S
<1>3. L \in S
  BY <1>0, <1>1, <1>2, SetInduction
<1>4. PICK m : Filled(m, L)
  BY <1>0, <1>3 DEF S
<1>5. \A i \in 1 .. L : m[i] = MatchRow(p, s, m, i)
  BY <1>0, <1>4
<1>6. IsMatchTable(m, p, s)
  BY <1>4, <1>5 DEF IsMatchTable
<1> QED
  BY <1>6

\* So there is such a table.
LEMMA GlobTableExists ==
  ASSUME NEW K, NEW p \in Seq(K), NEW s
  PROVE  \E g : IsGlobTable(g, p, s)
<1> DEFINE L == Len(p) + 1
           Filled(m, N) == /\ DOMAIN m = 1 .. L /\ m = [i \in 1 .. L |-> m[i]]
                           /\ \A i \in 1 .. L : i > L - N => m[i] = GlobRow(p, s, m, i)
           S == {N \in Nat : N <= L => \E m : Filled(m, N)}
<1>0. L \in Nat /\ L = Len(p) + 1
  OBVIOUS
<1>1. 0 \in S
  <2>1. Filled([i \in 1 .. L |-> {}], 0)
    BY <1>0
  <2> QED
    BY <2>1
<1>2. ASSUME NEW N \in Nat, N \in S PROVE N + 1 \in S
  <2> SUFFICES ASSUME N + 1 <= L PROVE \E m : Filled(m, N + 1)
    OBVIOUS
  <2>1. PICK m : Filled(m, N)
    BY <1>0, <1>2
  <2> DEFINE at == L - N
             n == [i \in 1 .. L |-> IF i = at THEN GlobRow(p, s, m, at) ELSE m[i]]
  <2>2. at \in 1 .. L
    BY <1>0
  <2>3. ASSUME NEW i \in 1 .. L, i >= at PROVE GlobRow(p, s, n, i) = GlobRow(p, s, m, i)
    <3>1. \A h \in i + 1 .. L : n[h] = m[h]
      BY <2>2, <2>3, <1>0
    <3> HIDE DEF n
    <3> QED
      BY <3>1, GlobRowLocal
  <2>4. ASSUME NEW i \in 1 .. L, i > L - (N + 1) PROVE n[i] = GlobRow(p, s, n, i)
    <3>0. n[i] = (IF i = at THEN GlobRow(p, s, m, at) ELSE m[i])
      OBVIOUS
    <3> HIDE DEF n
    <3>1. CASE i = at
      BY <3>0, <3>1, <2>3
    <3>2. CASE i > at
      <4>1. m[i] = GlobRow(p, s, m, i)
        BY <3>2, <2>1, <1>0
      <4> QED
        BY <3>0, <3>2, <2>2, <2>3, <4>1
    <3> QED
      BY <3>1, <3>2, <2>2, <2>4, <1>0
  <2>5. Filled(n, N + 1)
    BY <2>4
  <2> QED
    BY <2>5
<1> HIDE DEF S
<1>3. L \in S
  BY <1>0, <1>1, <1>2, SetInduction
<1>4. PICK m : Filled(m, L)
  BY <1>0, <1>3 DEF S
<1>5. \A i \in 1 .. L : m[i] = GlobRow(p, s, m, i)
  BY <1>0, <1>4
<1>6. IsGlobTable(m, p, s)
  BY <1>4, <1>5 DEF IsGlobTable
<1> QED
  BY <1>6

\* strcmp_wild() accepts what the first place of its table says,
LEMMA MatchByTable ==
  ASSUME NEW K, NEW p \in Seq(K), NEW s
  PROVE  \E m : /\ \A i \in 1 .. Len(p) + 1 : m[i] = MatchRow(p, s, m, i)
                /\ WildMatch(p, s) <=> 1 \in m[1]
<1> DEFINE m == CHOOSE f : IsMatchTable(f, p, s)
<1>1. IsMatchTable(m, p, s)
  BY MatchTableExists
<1>2. WildMatch(p, s) <=> 1 \in m[1]
  BY Zenon DEF WildMatch, IsMatchTable, MatchRow
<1> HIDE DEF m
<1>3. \A i \in 1 .. Len(p) + 1 : m[i] = MatchRow(p, s, m, i)
  BY <1>1 DEF IsMatchTable
<1> QED
  BY <1>2, <1>3

\* and so does the reference.
LEMMA GlobByTable ==
  ASSUME NEW K, NEW p \in Seq(K), NEW s
  PROVE  \E g : /\ \A i \in 1 .. Len(p) + 1 : g[i] = GlobRow(p, s, g, i)
                /\ Glob(p, s) <=> 1 \in g[1]
<1> DEFINE g == CHOOSE f : IsGlobTable(f, p, s)
<1>1. IsGlobTable(g, p, s)
  BY GlobTableExists
<1>2. Glob(p, s) <=> 1 \in g[1]
  BY Zenon DEF Glob, IsGlobTable, GlobRow
<1> HIDE DEF g
<1>3. \A i \in 1 .. Len(p) + 1 : g[i] = GlobRow(p, s, g, i)
  BY <1>1 DEF IsGlobTable
<1> QED
  BY <1>2, <1>3

\* Which places a row has: at the end of the pattern, at a "*", elsewhere.
LEMMA GlobRowHas ==
  ASSUME NEW p, NEW s, NEW g, NEW i, NEW j \in 1 .. Len(s) + 1
  PROVE  /\ i > Len(p) => (j \in GlobRow(p, s, g, i) <=> j > Len(s))
         /\ (~(i > Len(p)) /\ p[i] = "*" /\ \E k \in j .. Len(s) + 1 : k \in g[NextLiteral(p, i)])
              => j \in GlobRow(p, s, g, i)
         /\ (/\ ~(i > Len(p)) /\ j <= Len(s) /\ j + 1 \in g[i + 1]
             /\ p[i] = "?" \/ (~IsWild(p[i]) /\ p[i] = s[j]))
              => j \in GlobRow(p, s, g, i)
  BY Zenon DEF GlobRow

\* What a row of strcmp_wild()'s table has.
LEMMA MatchRowHas ==
  ASSUME NEW p, NEW s, NEW m, NEW i, NEW j \in 1 .. Len(s) + 1
  PROVE  /\ (j > Len(s) /\ i > Len(p)) => j \in MatchRow(p, s, m, i)
         /\ (/\ ~(j > Len(s)) /\ i <= Len(p)
             /\ \/ p[i] = "*" /\ Star(p, s, i, j, m)
                \/ p[i] = "?" /\ j + 1 \in m[i + 1]
                \/ ~IsWild(p[i]) /\ p[i] = s[j] /\ j + 1 \in m[i + 1])
              => j \in MatchRow(p, s, m, i)
  BY Zenon DEF MatchRow

\* and what it says of a place that it has it.
LEMMA MatchRowSays ==
  ASSUME NEW p, NEW s, NEW m, NEW i, NEW j \in MatchRow(p, s, m, i)
  PROVE  /\ j \in 1 .. Len(s) + 1
         /\ j > Len(s) => (i > Len(p) \/ (p[i] = "*" /\ NextLiteral(p, i) > Len(p)))
         /\ ~(j > Len(s)) =>
              /\ i <= Len(p)
              /\ \/ p[i] = "*" /\ Star(p, s, i, j, m)
                 \/ p[i] = "?" /\ j + 1 \in m[i + 1]
                 \/ ~IsWild(p[i]) /\ p[i] = s[j] /\ j + 1 \in m[i + 1]
  BY Zenon DEF MatchRow

\* What a "*" of strcmp_wild() has found: nothing but wild cards behind it, or a
\* place where the next literal run stands and what is behind it matches.
LEMMA StarFinds ==
  ASSUME NEW p, NEW s, NEW i, NEW j, NEW m, Star(p, s, i, j, m),
         NextLiteral(p, i) <= Len(p), Len(p) \in Nat, NextLiteral(p, i) \in Nat,
         Len(s) \in Nat, j \in Nat
  PROVE  \E k \in j .. Len(s) :
            /\ RunAt(p, NextLiteral(p, i), NextWild(p, NextLiteral(p, i)), s, k)
            /\ k + NextWild(p, NextLiteral(p, i)) - NextLiteral(p, i)
                 \in m[NextWild(p, NextLiteral(p, i))]
<1> DEFINE from == NextLiteral(p, i)
           to   == NextWild(p, from)
           hits == {k \in j .. Len(s) : RunAt(p, from, to, s, k)}
           at   == CHOOSE k \in hits : \A h \in hits : k <= h
<1>1. hits # {} /\ at + to - from \in m[to]
  <2>1. Star(p, s, i, j, m) <=> (from > Len(p) \/ (hits # {} /\ at + to - from \in m[to]))
    BY DEF Star
  <2> HIDE DEF from, to, hits, at
  <2>2. ~(from > Len(p))
    BY DEF from
  <2> QED
    BY <2>1, <2>2, Zenon
<1>2. hits \in SUBSET Nat
  <2> HIDE DEF from, to
  <2> QED
    OBVIOUS
<1>3. \E k \in hits : \A h \in hits : k <= h
  BY <1>1, <1>2, LeastOf, Zenon
<1>4. at \in hits
  BY <1>3, Zenon
<1>5. at \in j .. Len(s) /\ RunAt(p, from, to, s, at)
  BY <1>4, Zenon
<1> QED
  BY <1>1, <1>5, Zenon

\* The reference walks over a literal run that stands in the text.
LEMMA RunWalked ==
  ASSUME NEW K, NEW p \in Seq(K), NEW s \in Seq(K), NEW g,
         \A i \in 1 .. Len(p) + 1 : g[i] = GlobRow(p, s, g, i),
         NEW from \in 1 .. Len(p) + 1, NEW to \in from .. Len(p) + 1,
         \A h \in from .. to - 1 : ~IsWild(p[h]),
         NEW k \in 1 .. Len(s) + 1, RunAt(p, from, to, s, k),
         k + to - from \in g[to]
  PROVE  k \in g[from]
<1> DEFINE S == {d \in Nat : d <= to - from => k + to - from - d \in g[to - d]}
<1>0. Len(p) \in Nat /\ Len(s) \in Nat
  OBVIOUS
<1>1. 0 \in S
  BY <1>0
<1>2. ASSUME NEW d \in Nat, d \in S PROVE d + 1 \in S
  <2> SUFFICES ASSUME d + 1 <= to - from
               PROVE  k + to - from - (d + 1) \in g[to - (d + 1)]
    BY <1>0
  <2> DEFINE i == to - (d + 1)
             j == k + to - from - (d + 1)
  <2>1. /\ i \in from .. to - 1 /\ i \in 1 .. Len(p) /\ i + 1 = to - d
        /\ j \in 1 .. Len(s) /\ j + 1 = k + to - from - d /\ j = k + (i - from)
    <3>1. k + (to - from) <= Len(s) + 1
      BY DEF RunAt
    <3> QED
      BY <1>0, <3>1
  <2>2. j + 1 \in g[i + 1]
    <3>1. d <= to - from
      BY <1>0
    <3>2. k + to - from - d \in g[to - d]
      BY <1>2, <3>1
    <3>3. i + 1 = to - d /\ j + 1 = k + to - from - d
      BY <2>1
    <3> HIDE DEF i, j, S
    <3> QED
      BY <3>2, <3>3
  <2>3. i - from \in 0 .. to - from - 1 /\ from + (i - from) = i
    <3> HIDE DEF i, j
    <3> QED
      BY <2>1
  <2> HIDE DEF i, j
  <2>4. s[j] = p[i]
    BY <2>1, <2>3 DEF RunAt
  <2>5. ~IsWild(p[i])
    BY <2>1
  <2> HIDE DEF S
  <2>6. /\ ~(i > Len(p)) /\ j <= Len(s) /\ j \in 1 .. Len(s) + 1
        /\ i \in 1 .. Len(p) + 1
    BY <1>0, <2>1
  <2>7. j \in GlobRow(p, s, g, i)
    BY <2>2, <2>4, <2>5, <2>6, GlobRowHas, Zenon
  <2>8. j \in g[i]
    BY <2>6, <2>7, Zenon
  <2> QED
    BY <2>8 DEF i, j
<1>3. to - from \in S
  <2>1. to - from \in Nat
    BY <1>0
  <2> HIDE DEF S
  <2> QED
    BY <1>1, <1>2, <2>1, SetInduction
<1> QED
  BY <1>0, <1>3

\* What strcmp_wild() accepts is a match: it tries one place for what follows a
\* "*", the reference every place.
LEMMA MatchWithinGlob ==
  ASSUME NEW K, NEW p \in Seq(K), NEW s \in Seq(K), WildMatch(p, s)
  PROVE  Glob(p, s)
<1> DEFINE L == Len(p) + 1
<1>0. Len(p) \in Nat /\ Len(s) \in Nat /\ L = Len(p) + 1
  OBVIOUS
<1>1. PICK m : /\ \A i \in 1 .. L : m[i] = MatchRow(p, s, m, i)
               /\ WildMatch(p, s) <=> 1 \in m[1]
  BY MatchByTable
<1>2. PICK g : /\ \A i \in 1 .. L : g[i] = GlobRow(p, s, g, i)
               /\ Glob(p, s) <=> 1 \in g[1]
  BY GlobByTable
<1> HIDE DEF L
<1>3. Len(s) + 1 \in g[L]
  <2>1. Len(s) + 1 \in 1 .. Len(s) + 1 /\ Len(s) + 1 > Len(s) /\ L > Len(p)
    BY <1>0
  <2>2. Len(s) + 1 \in GlobRow(p, s, g, L)
    BY <2>1, GlobRowHas, Zenon
  <2> QED
    BY <1>0, <1>2, <2>2
<1> DEFINE S == {N \in Nat : \A i \in 1 .. L : i >= L - N => m[i] \subseteq g[i]}
<1>4. 0 \in S
  <2>1. ASSUME NEW j \in m[L] PROVE j \in g[L]
    <3>1. j \in MatchRow(p, s, m, L)
      BY <1>0, <1>1
    <3>2. /\ j \in 1 .. Len(s) + 1
          /\ ~(j > Len(s)) => L <= Len(p)
      BY <3>1, MatchRowSays, Zenon
    <3>3. j > Len(s) /\ L > Len(p)
      BY <1>0, <3>2
    <3>4. j \in GlobRow(p, s, g, L)
      BY <3>2, <3>3, GlobRowHas, Zenon
    <3> QED
      BY <1>0, <1>2, <3>4
  <2> QED
    BY <1>0, <2>1
<1>5. ASSUME NEW N \in Nat, N \in S PROVE N + 1 \in S
  <2> SUFFICES ASSUME NEW i \in 1 .. L, i = L - (N + 1), NEW j \in m[i] PROVE j \in g[i]
    BY <1>0, <1>5
  <2>1. i <= Len(p) /\ i + 1 \in 1 .. L /\ i \in 1 .. Len(p) + 1
    BY <1>0
  <2>2. \A h \in 1 .. L : h > i => m[h] \subseteq g[h]
    BY <1>0, <1>5
  <2>3. j \in MatchRow(p, s, m, i)
    BY <1>1
  <2>4. j \in 1 .. Len(s) + 1
    BY <2>3, Zenon DEF MatchRow
  <2> DEFINE from == NextLiteral(p, i)
             to   == NextWild(p, from)
  <2>5. from \in i .. L /\ (from <= Len(p) => ~IsWild(p[from]))
    BY <1>0, <2>1, NextLiteralFinds
  <2>6. SUFFICES j \in GlobRow(p, s, g, i)
    BY <1>2
  <2>7. CASE p[i] = "*"
    <3>1. SUFFICES \E k \in j .. Len(s) + 1 : k \in g[from]
      <4>1. ~(i > Len(p))
        BY <1>0, <2>1
      <4> QED
        BY <2>4, <2>7, <4>1, GlobRowHas, Zenon
    <3>2. CASE from > Len(p)
      <4>1. from = L
        <5> HIDE DEF from
        <5> QED
          BY <1>0, <2>1, <2>5, <3>2
      <4>2. Len(s) + 1 \in g[from] /\ Len(s) + 1 \in j .. Len(s) + 1
        <5> HIDE DEF from
        <5> QED
          BY <1>0, <1>3, <2>4, <4>1
      <4> QED
        BY <4>2, Zenon
    <3>3. CASE from <= Len(p)
      <4>1. j <= Len(s) /\ Star(p, s, i, j, m)
        <5>1. ~(from > Len(p)) /\ ~(i > Len(p))
          <6> HIDE DEF from
          <6> QED
            BY <1>0, <2>1, <2>5, <3>3
        <5>2. p[i] # "?" /\ IsWild(p[i])
          BY <2>7 DEF IsWild
        <5>3. ~(j > Len(s)) /\ Star(p, s, i, j, m)
          BY <2>3, <5>1, <5>2, MatchRowSays, Zenon
        <5> QED
          BY <1>0, <2>4, <5>3
      <4>2. from \in Nat /\ from \in 1 .. Len(p) + 1 /\ from > i
        <5>1. from # i
          <6>1. IsWild(p[i]) /\ ~IsWild(p[from])
            BY <2>5, <2>7, <3>3 DEF IsWild
          <6> QED
            BY <6>1, Zenon
        <5> HIDE DEF from
        <5> QED
          BY <1>0, <2>1, <2>5, <5>1
      <4>3. PICK k \in j .. Len(s) :
              RunAt(p, from, to, s, k) /\ k + to - from \in m[to]
        <5>1. from \in Nat /\ j \in Nat /\ Star(p, s, i, j, m) /\ from <= Len(p)
          BY <2>4, <3>3, <4>1, <4>2
        <5> QED
          BY <1>0, <5>1, StarFinds
      <4>4. to \in from .. L /\ \A h \in from .. to - 1 : ~IsWild(p[h])
        <5> HIDE DEF from
        <5> QED
          BY <1>0, <4>2, NextWildFinds
      <4> HIDE DEF from, to
      <4>5. to > i /\ to \in 1 .. L /\ to \in from .. Len(p) + 1
        BY <1>0, <4>2, <4>4
      <4>6. k + to - from \in g[to]
        BY <2>2, <4>3, <4>5
      <4>7. k \in 1 .. Len(s) + 1 /\ k \in j .. Len(s) + 1
        BY <1>0, <2>4
      <4>8. \A h \in 1 .. Len(p) + 1 : g[h] = GlobRow(p, s, g, h)
        BY <1>0, <1>2
      <4>9. k \in g[from]
        BY <4>2, <4>3, <4>4, <4>5, <4>6, <4>7, <4>8, RunWalked
      <4> QED
        BY <4>7, <4>9
    <3> QED
      <4> HIDE DEF from
      <4> QED
        BY <1>0, <2>5, <3>2, <3>3
  <2>8. CASE p[i] # "*"
    <3>1. /\ j <= Len(s) /\ j + 1 \in m[i + 1]
          /\ p[i] = "?" \/ (~IsWild(p[i]) /\ p[i] = s[j])
      <4>1. ~(i > Len(p))
        BY <1>0, <2>1
      <4>2. ~(j > Len(s))
        BY <2>3, <2>8, <4>1, MatchRowSays, Zenon
      <4>3. j <= Len(s)
        BY <1>0, <2>4, <4>2
      <4> QED
        <5>1. \/ p[i] = "*" /\ Star(p, s, i, j, m)
              \/ p[i] = "?" /\ j + 1 \in m[i + 1]
              \/ ~IsWild(p[i]) /\ p[i] = s[j] /\ j + 1 \in m[i + 1]
          <6>1. ~(j > Len(s)) =>
                  /\ i <= Len(p)
                  /\ \/ p[i] = "*" /\ Star(p, s, i, j, m)
                     \/ p[i] = "?" /\ j + 1 \in m[i + 1]
                     \/ ~IsWild(p[i]) /\ p[i] = s[j] /\ j + 1 \in m[i + 1]
            BY <2>3, MatchRowSays
          <6> QED
            BY <4>2, <6>1, Zenon
        <5> QED
          BY <2>8, <4>3, <5>1, Zenon
    <3>2. i + 1 > i
      BY <1>0
    <3>3. j + 1 \in g[i + 1]
      BY <2>1, <2>2, <3>1, <3>2
    <3>4. ~(i > Len(p))
      BY <1>0, <2>1
    <3> QED
      BY <2>4, <3>1, <3>3, <3>4, GlobRowHas, Zenon
  <2> QED
    BY <2>7, <2>8
<1>6. L - 1 \in S
  <2>1. L - 1 \in Nat
    BY <1>0
  <2> HIDE DEF S
  <2> QED
    BY <1>4, <1>5, <2>1, SetInduction
<1>7. m[1] \subseteq g[1]
  BY <1>0, <1>6
<1> QED
  BY <1>1, <1>2, <1>7

\* A keystroke matches itself, whatever wild cards it has: the first place where
\* the literal run behind a "*" stands is its own.
LEMMA MatchesItself ==
  ASSUME NEW K, NEW p \in Seq(K)
  PROVE  WildMatch(p, p)
<1> DEFINE L == Len(p) + 1
<1>0. Len(p) \in Nat /\ L = Len(p) + 1
  OBVIOUS
<1>1. PICK m : /\ \A i \in 1 .. L : m[i] = MatchRow(p, p, m, i)
               /\ WildMatch(p, p) <=> 1 \in m[1]
  BY MatchByTable
<1> HIDE DEF L
<1> DEFINE S == {N \in Nat : \A i \in 1 .. L : i >= L - N => i \in m[i]}
<1>2. 0 \in S
  <2>1. L > Len(p) /\ L \in 1 .. Len(p) + 1
    BY <1>0
  <2>2. L \in MatchRow(p, p, m, L)
    BY <2>1, MatchRowHas, Zenon
  <2>3. L \in m[L]
    BY <1>0, <1>1, <2>2
  <2> QED
    BY <1>0, <2>3
<1>3. ASSUME NEW N \in Nat, N \in S PROVE N + 1 \in S
  <2> SUFFICES ASSUME NEW i \in 1 .. L, i = L - (N + 1) PROVE i \in m[i]
    BY <1>0, <1>3
  <2>1. /\ i <= Len(p) /\ ~(i > Len(p)) /\ i + 1 \in 1 .. L /\ i \in 1 .. Len(p) + 1
        /\ i + 1 >= L - N
    BY <1>0
  <2>2. \A h \in 1 .. L : h > i => h \in m[h]
    BY <1>0, <1>3
  <2>3. i + 1 \in m[i + 1]
    BY <1>0, <2>1, <2>2
  <2>4. SUFFICES i \in MatchRow(p, p, m, i)
    BY <1>1
  <2>5. CASE p[i] = "*"
    <3> DEFINE from == NextLiteral(p, i)
               to   == NextWild(p, from)
               hits == {k \in i .. Len(p) : RunAt(p, from, to, p, k)}
               at   == CHOOSE k \in hits : \A h \in hits : k <= h
    <3>1. /\ from \in i .. Len(p) + 1 /\ (from <= Len(p) => ~IsWild(p[from]))
          /\ \A h \in i .. from - 1 : IsWild(p[h])
      BY <2>1, NextLiteralFinds
    <3>2. IsWild(p[i])
      BY <2>5 DEF IsWild
    <3>3. SUFFICES Star(p, p, i, i, m)
      BY <2>1, <2>5, MatchRowHas, Zenon
    <3>4. Star(p, p, i, i, m) <=> (from > Len(p) \/ (hits # {} /\ at + to - from \in m[to]))
      BY DEF Star
    <3>5. CASE from > Len(p)
      <4> HIDE DEF from, to, hits, at
      <4> QED
        BY <3>4, <3>5, Zenon
    <3>6. CASE from <= Len(p)
      <4>1. from \in 1 .. Len(p) /\ from # i /\ from > i /\ from \in 1 .. Len(p) + 1
        <5> HIDE DEF from
        <5>1. from # i
          BY <3>1, <3>2, <3>6
        <5> QED
          BY <1>0, <2>1, <3>1, <3>6, <5>1
      <4>2. /\ to \in from .. Len(p) + 1 /\ (to <= Len(p) => IsWild(p[to]))
            /\ \A h \in from .. to - 1 : ~IsWild(p[h])
        <5> HIDE DEF from
        <5> QED
          BY <4>1, NextWildFinds
      <4> HIDE DEF from, to
      <4>3. to # from /\ to > from /\ to \in 1 .. L /\ to > i
        <5>1. to # from
          BY <3>1, <3>6, <4>2
        <5> QED
          BY <1>0, <4>1, <4>2, <5>1
      <4>4. from \in hits
        <5>1. RunAt(p, from, to, p, from)
          BY <1>0, <4>1, <4>2 DEF RunAt
        <5> QED
          BY <1>0, <2>1, <4>1, <5>1
      <4>5. hits \in SUBSET Nat
        BY <1>0, <2>1
      <4>6. \E k \in hits : \A h \in hits : k <= h
        <5>1. hits # {}
          BY <4>4
        <5> HIDE DEF hits
        <5> QED
          BY <4>5, <5>1, LeastOf
      <4>7. at \in hits /\ at <= from
        <5> HIDE DEF hits
        <5> QED
          BY <4>4, <4>6, Zenon
      <4> HIDE DEF at
      <4>8. at = from
        <5>1. at \in i .. Len(p) /\ RunAt(p, from, to, p, at)
          BY <4>7
        <5>2. 0 \in 0 .. to - from - 1 /\ at + 0 = at /\ from + 0 = from
          BY <1>0, <4>1, <4>2, <4>3, <5>1
        <5>3. p[at] = p[from]
          BY <5>1, <5>2 DEF RunAt
        <5>4. ~IsWild(p[at])
          BY <3>1, <3>6, <5>3
        <5>5. ~(at \in i .. from - 1)
          BY <3>1, <5>4
        <5> QED
          BY <1>0, <2>1, <4>1, <4>7, <5>1, <5>5
      <4>9. at + to - from = to /\ to \in m[to]
        <5>1. to \in m[to]
          BY <2>2, <4>3
        <5> QED
          BY <1>0, <4>1, <4>2, <4>8, <5>1
      <4>10. hits # {}
        BY <4>4
      <4> HIDE DEF hits
      <4> QED
        BY <3>4, <4>9, <4>10, Zenon
    <3> QED
      <4> HIDE DEF from
      <4> QED
        BY <1>0, <3>1, <3>5, <3>6
  <2>6. CASE p[i] = "?"
    BY <2>1, <2>3, <2>6, MatchRowHas, Zenon
  <2>7. CASE p[i] # "*" /\ p[i] # "?"
    <3>1. ~IsWild(p[i])
      BY <2>7 DEF IsWild
    <3> QED
      BY <2>1, <2>3, <3>1, MatchRowHas, Zenon
  <2> QED
    BY <2>5, <2>6, <2>7
<1>4. L - 1 \in S
  <2>1. L - 1 \in Nat
    BY <1>0
  <2> HIDE DEF S
  <2> QED
    BY <1>2, <1>3, <2>1, SetInduction
<1> QED
  BY <1>0, <1>1, <1>4

\* What a keystroke matches begins with the keys before its first wild card.
LEMMA MatchKeepsPrefix ==
  ASSUME NEW K, NEW p \in Seq(K), NEW s \in Seq(K), WildMatch(p, s)
  PROVE  \A k \in 1 .. NextWild(p, 1) - 1 : k <= Len(s) /\ s[k] = p[k]
<1> DEFINE q == NextWild(p, 1)
           L == Len(p) + 1
<1>0. Len(p) \in Nat /\ Len(s) \in Nat /\ L = Len(p) + 1 /\ 1 \in 1 .. Len(p) + 1
  OBVIOUS
<1>1. PICK m : /\ \A i \in 1 .. L : m[i] = MatchRow(p, s, m, i)
               /\ WildMatch(p, s) <=> 1 \in m[1]
  BY MatchByTable
<1>2. q \in 1 .. L /\ \A h \in 1 .. q - 1 : ~IsWild(p[h])
  BY <1>0, NextWildFinds
<1> HIDE DEF L, q
<1> DEFINE S == {k \in Nat : k <= q - 1 =>
                   k + 1 \in m[k + 1] /\ \A h \in 1 .. k : h <= Len(s) /\ s[h] = p[h]}
<1>3. 0 \in S
  BY <1>0, <1>1, <1>2
<1>4. ASSUME NEW k \in Nat, k \in S PROVE k + 1 \in S
  <2> SUFFICES ASSUME k + 1 <= q - 1
               PROVE  /\ k + 2 \in m[k + 2]
                      /\ \A h \in 1 .. k + 1 : h <= Len(s) /\ s[h] = p[h]
    BY <1>0
  <2>1. k + 1 \in m[k + 1] /\ \A h \in 1 .. k : h <= Len(s) /\ s[h] = p[h]
    BY <1>2, <1>4
  <2>2. k + 1 \in 1 .. L /\ k + 1 \in 1 .. q - 1 /\ k + 1 <= Len(p) /\ ~(k + 1 > Len(p))
    BY <1>0, <1>2
  <2>3. k + 1 \in MatchRow(p, s, m, k + 1)
    BY <1>1, <2>1, <2>2
  <2>4. p[k + 1] # "*" /\ p[k + 1] # "?"
    BY <1>2, <2>2 DEF IsWild
  <2>5. /\ k + 1 \in 1 .. Len(s) + 1
        /\ k + 1 > Len(s) => (k + 1 > Len(p) \/ p[k + 1] = "*")
        /\ ~(k + 1 > Len(s)) =>
              \/ p[k + 1] = "*"
              \/ p[k + 1] = "?"
              \/ p[k + 1] = s[k + 1] /\ k + 1 + 1 \in m[k + 1 + 1]
    BY <2>3, MatchRowSays
  <2>6. ~(k + 1 > Len(s)) /\ p[k + 1] = s[k + 1] /\ k + 1 + 1 \in m[k + 1 + 1]
    BY <2>2, <2>4, <2>5, Zenon
  <2> QED
    BY <1>0, <2>1, <2>6
<1>5. q - 1 \in S
  <2>1. q - 1 \in Nat
    BY <1>0, <1>2
  <2> HIDE DEF S
  <2> QED
    BY <1>3, <1>4, <2>1, SetInduction
<1> QED
  BY <1>2, <1>5 DEF q

----------------------------------------------------------------------------
(* What Kept leaves of a sequence.                                         *)

\* What is left of the first N elements, step by step.
IsKept(f, seq, S, N) ==
    f = [n \in 0 .. N |-> IF n = 0 THEN <<>>
                          ELSE IF seq[n] \in S THEN Append(f[n - 1], seq[n])
                          ELSE f[n - 1]]

\* The function that Kept is defined by exists.
LEMMA KeptExists ==
  ASSUME NEW seq, NEW S
  PROVE  \A N \in Nat : \E f : IsKept(f, seq, S, N)
<1> DEFINE D == {N \in Nat : \E f : IsKept(f, seq, S, N)}
<1>1. 0 \in D
  <2>1. IsKept([n \in 0 .. 0 |-> <<>>], seq, S, 0)
    BY DEF IsKept
  <2> QED
    BY <2>1
<1>2. ASSUME NEW N \in Nat, N \in D PROVE N + 1 \in D
  <2>1. PICK f : IsKept(f, seq, S, N)
    BY <1>2
  <2> DEFINE more == [n \in 0 .. N + 1 |->
                        IF n < N + 1 THEN f[n]
                        ELSE IF seq[N + 1] \in S THEN Append(f[N], seq[N + 1]) ELSE f[N]]
  <2>2. ASSUME NEW n \in 0 .. N + 1
        PROVE  more[n] = IF n = 0 THEN <<>>
                         ELSE IF seq[n] \in S THEN Append(more[n - 1], seq[n])
                         ELSE more[n - 1]
    <3>1. \A j \in 0 .. N : more[j] = f[j]
      OBVIOUS
    <3>2. \A j \in 0 .. N : f[j] = IF j = 0 THEN <<>>
                         ELSE IF seq[j] \in S THEN Append(f[j - 1], seq[j]) ELSE f[j - 1]
      BY <2>1 DEF IsKept
    <3>3. more[N + 1] = IF seq[N + 1] \in S THEN Append(f[N], seq[N + 1]) ELSE f[N]
      OBVIOUS
    <3> HIDE DEF more
    <3>4. CASE n \in 0 .. N /\ n # 0
      <4>1. n - 1 \in 0 .. N
        BY <3>4
      <4> QED
        BY <3>1, <3>2, <3>4, <4>1
    <3>5. CASE n = 0
      BY <3>1, <3>2, <3>5
    <3>6. CASE n = N + 1
      <4>1. n - 1 = N /\ N \in 0 .. N /\ n # 0
        BY <3>6
      <4> QED
        BY <3>1, <3>3, <3>6, <4>1
    <3> QED
      BY <3>4, <3>5, <3>6
  <2>3. more = [n \in 0 .. N + 1 |->
                  IF n = 0 THEN <<>>
                  ELSE IF seq[n] \in S THEN Append(more[n - 1], seq[n])
                  ELSE more[n - 1]]
    <3>1. more = [n \in 0 .. N + 1 |-> more[n]]
      OBVIOUS
    <3> HIDE DEF more
    <3> QED
      BY <2>2, <3>1
  <2>4. IsKept(more, seq, S, N + 1)
    BY <2>3 DEF IsKept
  <2> QED
    BY <2>4
<1> HIDE DEF D
<1>3. \A N \in Nat : N \in D
  BY <1>1, <1>2, SetInduction
<1> QED
  BY <1>3 DEF D

\* It is what Kept reads off.
LEMMA KeptIs ==
  ASSUME NEW seq, NEW S, Len(seq) \in Nat
  PROVE  \E f : IsKept(f, seq, S, Len(seq)) /\ Kept(seq, S) = f[Len(seq)]
<1> DEFINE f == CHOOSE g : IsKept(g, seq, S, Len(seq))
<1>1. IsKept(f, seq, S, Len(seq))
  BY KeptExists
<1>2. Kept(seq, S) = f[Len(seq)]
  BY Zenon DEF Kept, IsKept
<1> QED
  BY <1>1, <1>2

\* Sequences of numbers that only rise, or only fall, and what is in them.
Rising(s)  == \A a, b \in 1 .. Len(s) : a < b => s[a] < s[b]
Falling(s) == \A a, b \in 1 .. Len(s) : a < b => s[b] < s[a]
Has(s, x)  == \E k \in 1 .. Len(s) : s[k] = x

\* One more number at the end.
LEMMA OneMore ==
  ASSUME NEW g \in Seq(Nat), NEW x \in Nat
  PROVE  /\ Append(g, x) \in Seq(Nat) /\ Len(Append(g, x)) = Len(g) + 1
         /\ Append(g, x)[Len(g) + 1] = x
         /\ \A k \in 1 .. Len(g) : Append(g, x)[k] = g[k]
         /\ (Rising(g) /\ \A k \in 1 .. Len(g) : g[k] < x) => Rising(Append(g, x))
         /\ (Falling(g) /\ \A k \in 1 .. Len(g) : x < g[k]) => Falling(Append(g, x))
<1>1. /\ Append(g, x) \in Seq(Nat) /\ Len(Append(g, x)) = Len(g) + 1
      /\ Append(g, x)[Len(g) + 1] = x
      /\ \A k \in 1 .. Len(g) : Append(g, x)[k] = g[k]
  BY AppendProperties
<1>2. PICK h \in Seq(Nat) : h = Append(g, x)
  BY <1>1
<1>3. Len(g) \in Nat /\ Len(h) = Len(g) + 1 /\ h[Len(g) + 1] = x
      /\ \A k \in 1 .. Len(g) : h[k] = g[k]
  BY <1>1, <1>2
<1>4. ASSUME Rising(g), \A k \in 1 .. Len(g) : g[k] < x PROVE Rising(h)
  <2> SUFFICES ASSUME NEW a \in 1 .. Len(h), NEW b \in 1 .. Len(h), a < b PROVE h[a] < h[b]
    BY DEF Rising
  <2>1. a \in 1 .. Len(g) /\ h[a] = g[a]
    BY <1>3
  <2>2. CASE b \in 1 .. Len(g)
    <3>1. g[a] < g[b]
      BY <1>4, <2>1, <2>2 DEF Rising
    <3> QED
      BY <1>3, <2>1, <2>2, <3>1
  <2>3. CASE b = Len(g) + 1
    <3>1. h[b] = x /\ g[a] < x
      BY <1>3, <1>4, <2>1, <2>3, Zenon
    <3> QED
      BY <2>1, <3>1, Zenon
  <2>4. b \in 1 .. Len(g) \/ b = Len(g) + 1
    <3> DEFINE m == Len(g)
               l == Len(h)
    <3>1. m \in Nat /\ l = m + 1 /\ b \in 1 .. l
      BY <1>3, Zenon
    <3> HIDE DEF m, l
    <3>2. b \in 1 .. m \/ b = m + 1
      BY <3>1, SMT
    <3> QED
      BY <3>2 DEF m
  <2> QED
    BY <2>2, <2>3, <2>4, Zenon
<1>5. ASSUME Falling(g), \A k \in 1 .. Len(g) : x < g[k] PROVE Falling(h)
  <2> SUFFICES ASSUME NEW a \in 1 .. Len(h), NEW b \in 1 .. Len(h), a < b PROVE h[b] < h[a]
    BY DEF Falling
  <2>1. a \in 1 .. Len(g) /\ h[a] = g[a]
    BY <1>3
  <2>2. CASE b \in 1 .. Len(g)
    <3>1. g[b] < g[a]
      BY <1>5, <2>1, <2>2 DEF Falling
    <3> QED
      BY <1>3, <2>1, <2>2, <3>1
  <2>3. CASE b = Len(g) + 1
    <3>1. h[b] = x /\ x < g[a]
      BY <1>3, <1>5, <2>1, <2>3, Zenon
    <3> QED
      BY <2>1, <3>1, Zenon
  <2>4. b \in 1 .. Len(g) \/ b = Len(g) + 1
    <3> DEFINE m == Len(g)
               l == Len(h)
    <3>1. m \in Nat /\ l = m + 1 /\ b \in 1 .. l
      BY <1>3, Zenon
    <3> HIDE DEF m, l
    <3>2. b \in 1 .. m \/ b = m + 1
      BY <3>1, SMT
    <3> QED
      BY <3>2 DEF m
  <2> QED
    BY <2>2, <2>3, <2>4, Zenon
<1> QED
  BY <1>1, <1>2, <1>4, <1>5

\* What stands in f[n] when f is what Kept is defined by.
SoFar(f, seq, S, n) ==
  /\ f[n] \in Seq(Nat)
  /\ \A k \in 1 .. Len(f[n]) : f[n][k] \in S /\ \E j \in 1 .. n : seq[j] = f[n][k]
  /\ \A j \in 1 .. n : seq[j] \in S => \E k \in 1 .. Len(f[n]) : f[n][k] = seq[j]
  /\ Rising(seq) => Rising(f[n])
  /\ Falling(seq) => Falling(f[n])

\* One more place of the sequence.
LEMMA SoFarStep ==
  ASSUME NEW seq \in Seq(Nat), NEW S, NEW f, IsKept(f, seq, S, Len(seq)),
         NEW n \in Nat, n + 1 <= Len(seq), SoFar(f, seq, S, n)
  PROVE  SoFar(f, seq, S, n + 1)
<1>0. Len(seq) \in Nat /\ n + 1 \in 1 .. Len(seq) /\ n + 1 - 1 = n
  OBVIOUS
<1>1. PICK x \in Nat : x = seq[n + 1]
  BY <1>0, ElementOfSeq
<1>2. f[n + 1] = IF x \in S THEN Append(f[n], x) ELSE f[n]
  <2>1. f[n + 1] = IF n + 1 = 0 THEN <<>>
                   ELSE IF seq[n + 1] \in S THEN Append(f[n + 1 - 1], seq[n + 1])
                   ELSE f[n + 1 - 1]
    <3>1. n + 1 \in 0 .. Len(seq)
      BY <1>0
    <3>2. f = [k \in 0 .. Len(seq) |->
                 IF k = 0 THEN <<>>
                 ELSE IF seq[k] \in S THEN Append(f[k - 1], seq[k]) ELSE f[k - 1]]
      BY DEF IsKept
    <3>3. \A k \in 0 .. Len(seq) :
            f[k] = IF k = 0 THEN <<>>
                   ELSE IF seq[k] \in S THEN Append(f[k - 1], seq[k]) ELSE f[k - 1]
      BY <3>2, Zenon
    <3> QED
      BY <3>1, <3>3
  <2> QED
    BY <1>0, <1>1, <2>1
<1>3. PICK g \in Seq(Nat) : g = f[n]
  BY DEF SoFar
<1>4. /\ \A k \in 1 .. Len(g) : g[k] \in S /\ \E j \in 1 .. n : seq[j] = g[k]
      /\ \A j \in 1 .. n : seq[j] \in S => \E k \in 1 .. Len(g) : g[k] = seq[j]
      /\ Rising(seq) => Rising(g)
      /\ Falling(seq) => Falling(g)
  BY <1>3 DEF SoFar
<1>5. CASE x \notin S
  <2>1. f[n + 1] = g
    BY <1>2, <1>3, <1>5
  <2>2. \A k \in 1 .. Len(g) : g[k] \in S /\ \E j \in 1 .. n + 1 : seq[j] = g[k]
    BY <1>4
  <2>3. \A j \in 1 .. n + 1 : seq[j] \in S => \E k \in 1 .. Len(g) : g[k] = seq[j]
    BY <1>1, <1>4, <1>5
  <2> QED
    BY <1>4, <2>1, <2>2, <2>3 DEF SoFar
<1>6. CASE x \in S
  <2>1. PICK h \in Seq(Nat) : h = Append(g, x)
    BY OneMore
  <2>2. f[n + 1] = h
    BY <1>2, <1>3, <1>6, <2>1
  <2>3. /\ Len(g) \in Nat /\ Len(h) = Len(g) + 1 /\ h[Len(g) + 1] = x
        /\ \A k \in 1 .. Len(g) : h[k] = g[k]
    BY <2>1, OneMore
  <2>4. \A k \in 1 .. Len(h) : h[k] \in S /\ \E j \in 1 .. n + 1 : seq[j] = h[k]
    <3> SUFFICES ASSUME NEW k \in 1 .. Len(h)
                 PROVE  h[k] \in S /\ \E j \in 1 .. n + 1 : seq[j] = h[k]
      OBVIOUS
    <3>1. CASE k \in 1 .. Len(g)
      <4>1. PICK j \in 1 .. n : seq[j] = g[k]
        BY <1>4, <3>1
      <4>2. g[k] \in S /\ h[k] = g[k]
        BY <1>4, <2>3, <3>1
      <4>3. j \in 1 .. n + 1 /\ seq[j] = h[k]
        BY <4>1, <4>2
      <4> QED
        BY <4>2, <4>3
    <3>2. CASE k = Len(g) + 1
      BY <1>1, <1>6, <2>3, <3>2
    <3> QED
      BY <2>3, <3>1, <3>2
  <2>5. \A j \in 1 .. n + 1 : seq[j] \in S => \E k \in 1 .. Len(h) : h[k] = seq[j]
    <3> SUFFICES ASSUME NEW j \in 1 .. n + 1, seq[j] \in S
                 PROVE  \E k \in 1 .. Len(h) : h[k] = seq[j]
      OBVIOUS
    <3>1. CASE j \in 1 .. n
      <4>1. PICK k \in 1 .. Len(g) : g[k] = seq[j]
        BY <1>4, <3>1
      <4>2. k \in 1 .. Len(h) /\ h[k] = seq[j]
        BY <2>3, <4>1
      <4> QED
        BY <4>2
    <3>2. CASE j = n + 1
      <4>1. Len(h) \in 1 .. Len(h) /\ h[Len(h)] = seq[j]
        BY <1>1, <2>3, <3>2
      <4> QED
        BY <4>1
    <3> QED
      BY <3>1, <3>2
  <2>6. ASSUME Rising(seq) PROVE Rising(h)
    <3>1. \A k \in 1 .. Len(g) : g[k] < x
      <4> SUFFICES ASSUME NEW k \in 1 .. Len(g) PROVE g[k] < x
        OBVIOUS
      <4>1. PICK j \in 1 .. n : seq[j] = g[k]
        BY <1>4
      <4>2. j \in 1 .. Len(seq) /\ j < n + 1
        BY <1>0
      <4> QED
        BY <1>0, <1>1, <2>6, <4>1, <4>2 DEF Rising
    <3> QED
      BY <1>4, <2>1, <2>6, <3>1, OneMore
  <2>7. ASSUME Falling(seq) PROVE Falling(h)
    <3>1. \A k \in 1 .. Len(g) : x < g[k]
      <4> SUFFICES ASSUME NEW k \in 1 .. Len(g) PROVE x < g[k]
        OBVIOUS
      <4>1. PICK j \in 1 .. n : seq[j] = g[k]
        BY <1>4
      <4>2. j \in 1 .. Len(seq) /\ j < n + 1
        BY <1>0
      <4> QED
        BY <1>0, <1>1, <2>7, <4>1, <4>2 DEF Falling
    <3> QED
      BY <1>4, <2>1, <2>7, <3>1, OneMore
  <2> QED
    BY <2>2, <2>4, <2>5, <2>6, <2>7 DEF SoFar
<1> QED
  BY <1>5, <1>6

\* What is kept is what is in the set, in the order it was in.
LEMMA KeptHas ==
  ASSUME NEW seq \in Seq(Nat), NEW S
  PROVE  /\ Kept(seq, S) \in Seq(Nat)
         /\ \A x : Has(Kept(seq, S), x) <=> (Has(seq, x) /\ x \in S)
         /\ Rising(seq) => Rising(Kept(seq, S))
         /\ Falling(seq) => Falling(Kept(seq, S))
<1>0. Len(seq) \in Nat
  OBVIOUS
<1>1. PICK f : IsKept(f, seq, S, Len(seq)) /\ Kept(seq, S) = f[Len(seq)]
  BY <1>0, KeptIs
<1> DEFINE D == {n \in Nat : n <= Len(seq) => SoFar(f, seq, S, n)}
<1>2. 0 \in D
  <2>1. f[0] = <<>>
    <3>1. 0 \in 0 .. Len(seq)
      BY <1>0
    <3>2. f = [k \in 0 .. Len(seq) |->
                 IF k = 0 THEN <<>>
                 ELSE IF seq[k] \in S THEN Append(f[k - 1], seq[k]) ELSE f[k - 1]]
      BY <1>1 DEF IsKept
    <3> QED
      BY <3>1, <3>2, Zenon
  <2>2. Rising(<<>>) /\ Falling(<<>>)
    BY DEF Rising, Falling
  <2>3. <<>> \in Seq(Nat) /\ Len(<<>>) = 0
    OBVIOUS
  <2>4. SoFar(f, seq, S, 0)
    BY <2>1, <2>2, <2>3 DEF SoFar
  <2> HIDE DEF SoFar
  <2> QED
    BY <2>4
<1>3. ASSUME NEW n \in Nat, n \in D PROVE n + 1 \in D
  <2> SUFFICES ASSUME n + 1 <= Len(seq) PROVE SoFar(f, seq, S, n + 1)
    OBVIOUS
  <2>1. SoFar(f, seq, S, n)
    BY <1>0, <1>3
  <2> HIDE DEF D
  <2> QED
    BY <1>1, <2>1, SoFarStep
<1>4. SoFar(f, seq, S, Len(seq))
  <2> HIDE DEF D
  <2>1. Len(seq) \in D
    BY <1>0, <1>2, <1>3, SetInduction
  <2> QED
    BY <1>0, <2>1 DEF D
<1>5. PICK g \in Seq(Nat) : g = f[Len(seq)] /\ g = Kept(seq, S)
  BY <1>1, <1>4 DEF SoFar
<1>6. /\ \A k \in 1 .. Len(g) : g[k] \in S /\ \E j \in 1 .. Len(seq) : seq[j] = g[k]
      /\ \A j \in 1 .. Len(seq) : seq[j] \in S => \E k \in 1 .. Len(g) : g[k] = seq[j]
      /\ Rising(seq) => Rising(g)
      /\ Falling(seq) => Falling(g)
  BY <1>4, <1>5 DEF SoFar
<1>7. \A x : Has(g, x) <=> (Has(seq, x) /\ x \in S)
  BY <1>6 DEF Has
<1> QED
  BY <1>5, <1>6, <1>7

\* A rising sequence is determined by what is in it.
LEMMA RisingEqual ==
  ASSUME NEW s \in Seq(Nat), NEW t \in Seq(Nat), Rising(s), Rising(t),
         \A x : Has(s, x) <=> Has(t, x)
  PROVE  s = t
<1>0. Len(s) \in Nat /\ Len(t) \in Nat
  OBVIOUS
<1> DEFINE D == {n \in Nat : \A k \in 1 .. n : k <= Len(s) /\ k <= Len(t) => s[k] = t[k]}
<1>1. 0 \in D
  OBVIOUS
<1>2. ASSUME NEW n \in Nat, n \in D PROVE n + 1 \in D
  <2> SUFFICES ASSUME n + 1 <= Len(s), n + 1 <= Len(t) PROVE s[n + 1] = t[n + 1]
    BY <1>2
  <2> DEFINE k == n + 1
  <2>0. k \in 1 .. Len(s) /\ k \in 1 .. Len(t) /\ k = n + 1
    BY <1>0
  <2>1. \A j \in 1 .. n : s[j] = t[j] /\ j \in 1 .. Len(s) /\ j \in 1 .. Len(t) /\ j < k
    BY <1>0, <1>2
  <2> HIDE DEF k, D
  <2>2. PICK a \in 1 .. Len(t) : t[a] = s[k]
    <3>1. Has(s, s[k])
      BY <2>0 DEF Has
    <3> QED
      BY <3>1 DEF Has
  <2>3. PICK b \in 1 .. Len(s) : s[b] = t[k]
    <3>1. Has(t, t[k])
      BY <2>0 DEF Has
    <3> QED
      BY <3>1 DEF Has
  <2>4. s[k] \in Nat /\ t[k] \in Nat
    BY <2>0, ElementOfSeq
  <2>5. a >= k
    <3> SUFFICES ASSUME a < k PROVE FALSE
      BY <2>0
    <3>1. a \in 1 .. n /\ s[a] = t[a]
      BY <2>0, <2>1
    <3>2. s[a] < s[k]
      BY <2>0, <2>1, <3>1 DEF Rising
    <3> QED
      BY <2>2, <2>4, <3>1, <3>2
  <2>6. b >= k
    <3> SUFFICES ASSUME b < k PROVE FALSE
      BY <2>0
    <3>1. b \in 1 .. n /\ s[b] = t[b]
      BY <2>0, <2>1
    <3>2. t[b] < t[k]
      BY <2>0, <2>1, <3>1 DEF Rising
    <3> QED
      BY <2>3, <2>4, <3>1, <3>2
  <2>7. t[k] <= s[k]
    <3>1. a = k \/ k < a
      BY <2>0, <2>2, <2>5
    <3>2. k < a => t[k] < t[a]
      BY <2>0, Zenon DEF Rising
    <3> QED
      BY <2>2, <2>4, <3>1, <3>2
  <2>8. s[k] <= t[k]
    <3>1. b = k \/ k < b
      BY <2>0, <2>3, <2>6
    <3>2. k < b => s[k] < s[b]
      BY <2>0, Zenon DEF Rising
    <3> QED
      BY <2>3, <2>4, <3>1, <3>2
  <2> QED
    BY <2>0, <2>4, <2>7, <2>8
<1>3. \A n \in Nat : n \in D
  <2> HIDE DEF D
  <2> QED
    BY <1>1, <1>2, SetInduction
<1>4. \A k \in Nat : k >= 1 /\ k <= Len(s) /\ k <= Len(t) => s[k] = t[k]
  <2> SUFFICES ASSUME NEW k \in Nat, k >= 1, k <= Len(s), k <= Len(t) PROVE s[k] = t[k]
    OBVIOUS
  <2>1. k \in D
    BY <1>3, Zenon
  <2>2. k \in 1 .. k
    OBVIOUS
  <2> QED
    BY <2>1, <2>2
<1> HIDE DEF D
<1>5. Len(s) <= Len(t)
  <2> SUFFICES ASSUME Len(t) < Len(s) PROVE FALSE
    BY <1>0
  <2> DEFINE k == Len(t) + 1
  <2>1. k \in 1 .. Len(s) /\ Has(s, s[k])
    <3>1. k \in 1 .. Len(s)
      BY <1>0
    <3> HIDE DEF k
    <3> QED
      BY <3>1, Zenon DEF Has
  <2>2. PICK a \in 1 .. Len(t) : t[a] = s[k]
    BY <2>1 DEF Has
  <2>3. s[a] = t[a] /\ a \in 1 .. Len(s) /\ a < k
    <3>1. a \in Nat /\ a >= 1 /\ a <= Len(s) /\ a <= Len(t) /\ a < k
      BY <1>0
    <3>2. s[a] = t[a]
      BY <1>4, <3>1, Zenon
    <3> QED
      BY <1>0, <3>1, <3>2
  <2>4. s[k] \in Nat
    BY <2>1, ElementOfSeq
  <2> HIDE DEF k
  <2>5. s[a] < s[k]
    BY <2>1, <2>3 DEF Rising
  <2> QED
    BY <2>2, <2>3, <2>4, <2>5
<1>6. Len(t) <= Len(s)
  <2> SUFFICES ASSUME Len(s) < Len(t) PROVE FALSE
    BY <1>0
  <2> DEFINE k == Len(s) + 1
  <2>1. k \in 1 .. Len(t) /\ Has(t, t[k])
    <3>1. k \in 1 .. Len(t)
      BY <1>0
    <3> HIDE DEF k
    <3> QED
      BY <3>1, Zenon DEF Has
  <2>2. PICK a \in 1 .. Len(s) : s[a] = t[k]
    BY <2>1 DEF Has
  <2>3. s[a] = t[a] /\ a \in 1 .. Len(t) /\ a < k
    <3>1. a \in Nat /\ a >= 1 /\ a <= Len(s) /\ a <= Len(t) /\ a < k
      BY <1>0
    <3>2. s[a] = t[a]
      BY <1>4, <3>1, Zenon
    <3> QED
      BY <1>0, <3>1, <3>2
  <2>4. t[k] \in Nat
    BY <2>1, ElementOfSeq
  <2> HIDE DEF k
  <2>5. t[a] < t[k]
    BY <2>1, <2>3 DEF Rising
  <2> QED
    BY <2>2, <2>3, <2>4, <2>5
<1> QED
  <2>1. Len(s) = Len(t)
    BY <1>0, <1>5, <1>6
  <2>2. \A k \in 1 .. Len(s) : s[k] = t[k]
    BY <1>0, <1>4, <2>1
  <2> QED
    BY <2>1, <2>2, SeqEqual

Cand == Seq(Char) \ {<<>>}
Place == 0 .. Len(Table) - 1

\* A page has room for a candidate.
LEMMA NSelkeyType == NSelkey \in Nat \ {0}
<1>1. Len(Selkey) \in Nat \ {0}
  <2>1. Selkey \in Seq(Range(Selkey)) /\ Selkey # <<>>
    BY ConstantsOK
  <2> QED
    BY <2>1, LenProperties, EmptySeq
<1> QED
  BY <1>1, SMT DEF NSelkey

\* What the table has at a place.
LEMMA EntryType ==
  /\ Len(Table) \in Nat /\ DOMAIN Table = 1 .. Len(Table)
  /\ \A p \in Place : /\ Entry(p).ks \in Seq(Range(KeyOrder))
                      /\ Entry(p).ks \in Seq(Key)
                      /\ Entry(p).zi \in Cand
<1>1. Table \in Seq([ks : Seq(Range(KeyOrder)), zi : Cand])
  BY ConstantsOK DEF Cand
<1>2. Len(Table) \in Nat /\ DOMAIN Table = 1 .. Len(Table)
  BY <1>1, LenProperties
<1>3. ASSUME NEW p \in Place
      PROVE  Entry(p) \in [ks : Seq(Range(KeyOrder)), zi : Cand]
  <2>1. p + 1 \in 1 .. Len(Table)
    BY <1>2, SMT DEF Place
  <2> QED
    BY <1>1, <2>1, ElementOfSeq DEF Entry
<1>4. ASSUME NEW p \in Place
      PROVE  Entry(p).ks \in Seq(Range(KeyOrder)) /\ Entry(p).zi \in Cand
  BY <1>3, Zenon
<1>5. Range(KeyOrder) \subseteq Key
  BY Zenon DEF Key
<1>6. ASSUME NEW p \in Place
      PROVE  Entry(p).ks \in Seq(Key)
  BY <1>4, <1>5, SeqMonotonic
<1> QED
  BY <1>2, <1>4, <1>6

\* The places, in order.
LEMMA PlacesAre ==
  /\ Places \in Seq(Nat) /\ Len(Places) = Len(Table)
  /\ \A k \in 1 .. Len(Table) : Places[k] = k - 1
  /\ Rising(Places)
  /\ \A x : Has(Places, x) <=> x \in Place
<1>1. Len(Table) \in Nat /\ DOMAIN Table = 1 .. Len(Table)
  BY EntryType
<1>2. Places = [k \in 1 .. Len(Table) |-> k - 1]
  BY <1>1 DEF Places
<1>3. \A k \in 1 .. Len(Table) : k - 1 \in Nat
  BY <1>1, SMT
<1>4. Places \in Seq(Nat) /\ Len(Places) = Len(Table)
  BY <1>1, <1>2, <1>3
<1>5. \A k \in 1 .. Len(Table) : Places[k] = k - 1
  BY <1>2
<1>6. Rising(Places)
  BY <1>1, <1>4, <1>5, SMT DEF Rising
<1>7. ASSUME NEW x, x \in Place
      PROVE  Has(Places, x)
  <2>1. x + 1 \in 1 .. Len(Table) /\ (x + 1) - 1 = x
    BY <1>1, <1>7, SMT DEF Place
  <2>2. Places[x + 1] = x
    BY <2>1, <1>5
  <2> QED
    BY <2>1, <2>2, <1>4, Zenon DEF Has
<1>8. ASSUME NEW x, Has(Places, x)
      PROVE  x \in Place
  <2>1. PICK k \in 1 .. Len(Table) : Places[k] = x
    BY <1>8, <1>4, Zenon DEF Has
  <2>2. x = k - 1
    BY <2>1, <1>5
  <2> QED
    BY <2>2, <1>1, SMT DEF Place
<1> QED
  BY <1>4, <1>5, <1>6, <1>7, <1>8

\* The members of a set of places, in the table's order.
InOrder(q, S) == /\ q \in Seq(Nat) /\ Rising(q)
                 /\ \A x : Has(q, x) <=> (x \in Place /\ x \in S)

\* A search upwards finds them so,
LEMMA KeptInOrder ==
  ASSUME NEW S
  PROVE  InOrder(Kept(Places, S), S)
<1>1. Places \in Seq(Nat) /\ Rising(Places) /\ \A x : Has(Places, x) <=> x \in Place
  BY PlacesAre
<1>2. /\ Kept(Places, S) \in Seq(Nat)
      /\ \A x : Has(Kept(Places, S), x) <=> (Has(Places, x) /\ x \in S)
      /\ Rising(Places) => Rising(Kept(Places, S))
  BY <1>1, KeptHas
<1> QED
  BY <1>1, <1>2, Zenon DEF InOrder

\* and there is only one way to have them so.
LEMMA InOrderUnique ==
  ASSUME NEW S, NEW q, NEW t, InOrder(q, S), InOrder(t, S)
  PROVE  q = t
<1>1. q \in Seq(Nat) /\ t \in Seq(Nat) /\ Rising(q) /\ Rising(t)
  BY Zenon DEF InOrder
<1>2. \A x : Has(q, x) <=> Has(t, x)
  BY Zenon DEF InOrder
<1> QED
  BY <1>1, <1>2, RisingEqual

\* Going on upwards from a place finds the rest of them,
LEMMA FoundAbove ==
  ASSUME NEW S, NEW q, InOrder(q, S), NEW a \in 0 .. Len(q), NEW h \in Int,
         \A k \in 1 .. Len(q) : (k <= a) <=> (q[k] < h)
  PROVE  Kept(Places, {x \in S : x >= h}) = SubSeq(q, a + 1, Len(q))
<1> DEFINE L == Len(q)
           t == SubSeq(q, a + 1, L)
           T == {x \in S : x >= h}
<1>1. q \in Seq(Nat) /\ Rising(q) /\ \A x : Has(q, x) <=> (x \in Place /\ x \in S)
  BY Zenon DEF InOrder
<1>2. L \in Nat /\ a \in Int /\ 0 <= a /\ a <= L /\ Len(t) \in Nat
  <2>1. L \in Nat
    BY <1>1
  <2> QED
    BY <2>1, <1>1
<1>3. \A k \in a + 1 .. L : q[k] \in Nat
  BY <1>1, <1>2
<1>4. /\ t \in Seq(Nat) /\ Len(t) = IF a + 1 <= L THEN L - (a + 1) + 1 ELSE 0
      /\ \A i \in 1 .. L - (a + 1) + 1 : t[i] = q[a + 1 + i - 1]
  BY <1>2, <1>3, SubSeqProperties
<1>5. \A x \in S : x >= h <=> x \in T
  BY Zenon
<1>5a. \A x \in T : x \in S
  BY Zenon
<1> HIDE DEF t, L, T
<1>6. Len(t) = L - a
  BY <1>2, <1>4, SMT
<1>7. \A i \in 1 .. L - a : t[i] = q[a + i]
  BY <1>2, <1>4, SMT
<1>8. \A k \in 1 .. L : (k <= a <=> q[k] < h) /\ q[k] \in Nat
  BY <1>1 DEF L
<1>9. Rising(t)
  <2>1. SUFFICES ASSUME NEW i \in 1 .. L - a, NEW j \in 1 .. L - a, i < j
                 PROVE  t[i] < t[j]
    BY <1>6, Zenon DEF Rising
  <2>2. a + i \in 1 .. L /\ a + j \in 1 .. L /\ a + i < a + j
    BY <1>2, <2>1, SMT
  <2>3. q[a + i] < q[a + j]
    BY <1>1, <2>2, Zenon DEF Rising, L
  <2> QED
    BY <2>3, <1>7
<1>10. ASSUME NEW x, Has(t, x)
       PROVE  x \in Place /\ x \in T
  <2>1. PICK k \in 1 .. L - a : t[k] = x
    BY <1>10, <1>6, Zenon DEF Has
  <2>2. a + k \in 1 .. L /\ ~(a + k <= a)
    BY <1>2, SMT
  <2>3. x = q[a + k]
    BY <2>1, <1>7
  <2>4. Has(q, x)
    BY <2>2, <2>3, Zenon DEF Has, L
  <2>5. x \in Place /\ x \in S
    BY <2>4, <1>1
  <2>6. x >= h
    BY <1>8, <2>2, <2>3, SMT
  <2> QED
    BY <2>5, <2>6, <1>5
<1>11. ASSUME NEW x \in Place, x \in T
       PROVE  Has(t, x)
  <2>1. Has(q, x)
    BY <1>1, <1>11, <1>5a
  <2>2. PICK k \in 1 .. L : q[k] = x
    BY <2>1, Zenon DEF Has, L
  <2>3. x >= h
    BY <1>11, <1>5, <1>5a
  <2>4. k - a \in 1 .. L - a /\ a + (k - a) = k
    BY <1>8, <1>2, <2>2, <2>3, SMT
  <2>5. t[k - a] = x
    BY <2>4, <1>7, <2>2
  <2> QED
    BY <2>4, <2>5, <1>6, Zenon DEF Has
<1>12. InOrder(t, T)
  BY <1>4, <1>9, <1>10, <1>11, Zenon DEF InOrder
<1>13. InOrder(Kept(Places, T), T)
  BY KeptInOrder
<1>14. Kept(Places, T) = t
  BY <1>12, <1>13, InOrderUnique
<1> QED
  BY <1>14 DEF t, T, L

\* The places from the far end.
LEMMA PlacesBack ==
  /\ Reverse(Places) \in Seq(Nat) /\ Falling(Reverse(Places))
  /\ \A x : Has(Reverse(Places), x) <=> x \in Place
<1> DEFINE r == Reverse(Places)
           L == Len(Table)
<1>1. L \in Nat /\ Places \in Seq(Nat) /\ Len(Places) = L
  BY PlacesAre, EntryType
<1>2. \A k \in 1 .. L : Places[k] = k - 1
  BY PlacesAre
<1>3. r = [k \in 1 .. L |-> Places[(L - k) + 1]]
  BY <1>1 DEF Reverse
<1> HIDE DEF r, L
<1>4. \A k \in 1 .. L : (L - k) + 1 \in 1 .. L
  BY <1>1, SMT
<1>5. \A k \in 1 .. L : Places[(L - k) + 1] = L - k
  BY <1>1, <1>2, <1>4, SMT
<1>6. \A k \in 1 .. L : L - k \in Nat
  BY <1>1, SMT
<1>7. r = [k \in 1 .. L |-> L - k]
  BY <1>3, <1>5, Zenon
<1>8. r \in Seq(Nat) /\ Len(r) = L /\ \A k \in 1 .. L : r[k] = L - k
  BY <1>1, <1>6, <1>7
<1>9. Falling(r)
  BY <1>1, <1>8, SMT DEF Falling
<1>10. ASSUME NEW x, x \in Place
       PROVE  Has(r, x)
  <2>1. L - x \in 1 .. L /\ L - (L - x) = x
    BY <1>1, <1>10, SMT DEF Place, L
  <2>2. r[L - x] = x
    BY <2>1, <1>8
  <2> QED
    BY <2>1, <2>2, <1>8, Zenon DEF Has
<1>11. ASSUME NEW x, Has(r, x)
       PROVE  x \in Place
  <2>1. PICK k \in 1 .. L : r[k] = x
    BY <1>11, <1>8, Zenon DEF Has
  <2>2. x = L - k
    BY <2>1, <1>8
  <2> QED
    BY <2>2, <1>1, SMT DEF Place, L
<1> QED
  BY <1>8, <1>9, <1>10, <1>11 DEF r

\* A falling sequence rises when it is turned round.
LEMMA TurnedRound ==
  ASSUME NEW r \in Seq(Nat), Falling(r), NEW t,
         t = [k \in 1 .. Len(r) |-> r[(Len(r) - k) + 1]]
  PROVE  /\ t \in Seq(Nat) /\ Len(t) = Len(r) /\ Rising(t)
         /\ \A x : Has(t, x) <=> Has(r, x)
<1> DEFINE L == Len(r)
<1>1. L \in Nat
  OBVIOUS
<1>2. \A k \in 1 .. L : r[k] \in Nat
  OBVIOUS
<1>3. t = [k \in 1 .. L |-> r[(L - k) + 1]]
  OBVIOUS
<1>4. \A a, b \in 1 .. L : a < b => r[b] < r[a]
  BY Zenon DEF Falling
<1> HIDE DEF L
<1>5. \A k \in 1 .. L : (L - k) + 1 \in 1 .. L /\ (L - ((L - k) + 1)) + 1 = k
  BY <1>1, SMT
<1>6. t \in Seq(Nat) /\ Len(t) = L
  BY <1>1, <1>2, <1>3, <1>5
<1>7. \A k \in 1 .. L : t[k] = r[(L - k) + 1]
  BY <1>3, Zenon
<1>8. Rising(t)
  <2>1. SUFFICES ASSUME NEW i \in 1 .. L, NEW j \in 1 .. L, i < j
                 PROVE  t[i] < t[j]
    BY <1>6, Zenon DEF Rising
  <2>2. (L - j) + 1 < (L - i) + 1
    BY <1>1, <2>1, SMT
  <2> QED
    BY <2>2, <1>4, <1>5, <1>7
<1>9. ASSUME NEW x, Has(t, x)
      PROVE  Has(r, x)
  <2>1. PICK k \in 1 .. L : t[k] = x
    BY <1>9, <1>6, Zenon DEF Has
  <2>2. (L - k) + 1 \in 1 .. Len(r) /\ r[(L - k) + 1] = x
    BY <2>1, <1>5, <1>7, Zenon DEF L
  <2> QED
    BY <2>2, Zenon DEF Has
<1>10. ASSUME NEW x, Has(r, x)
       PROVE  Has(t, x)
  <2>1. PICK k \in 1 .. L : r[k] = x
    BY <1>10, Zenon DEF Has, L
  <2>2. (L - k) + 1 \in 1 .. L /\ t[(L - k) + 1] = x
    BY <2>1, <1>5, <1>7
  <2> QED
    BY <2>2, <1>6, Zenon DEF Has
<1> QED
  BY <1>6, <1>8, <1>9, <1>10 DEF L

\* Going back downwards finds those before a place, the nearest first.
LEMMA FoundBelow ==
  ASSUME NEW S, NEW q, InOrder(q, S), NEW a \in 0 .. Len(q), NEW h \in Int,
         \A k \in 1 .. Len(q) : (k <= a) <=> (q[k] <= h)
  PROVE  LET r == Kept(Reverse(Places), {x \in S : x <= h})
         IN  /\ r \in Seq(Nat) /\ Len(r) = a
             /\ \A k \in 1 .. a : r[k] = q[(a - k) + 1]
<1> DEFINE L == Len(q)
           T == {x \in S : x <= h}
           r == Kept(Reverse(Places), T)
           t == [k \in 1 .. Len(r) |-> r[(Len(r) - k) + 1]]
           u == SubSeq(q, 1, a)
<1>1. q \in Seq(Nat) /\ Rising(q) /\ \A x : Has(q, x) <=> (x \in Place /\ x \in S)
  BY Zenon DEF InOrder
<1>2. L \in Nat /\ a \in Nat /\ a <= L
  <2>1. L \in Nat
    BY <1>1
  <2> QED
    BY <2>1
<1>3. \A k \in 1 .. L : (k <= a <=> q[k] <= h) /\ q[k] \in Nat
  BY <1>1
<1>4. \A x \in S : x <= h <=> x \in T
  BY Zenon
<1>5. \A x \in T : x \in S /\ x <= h
  BY Zenon
<1>6. r \in Seq(Nat) /\ Falling(r) /\ \A x : Has(r, x) <=> (x \in Place /\ x \in T)
  <2>1. Reverse(Places) \in Seq(Nat) /\ Falling(Reverse(Places))
    BY PlacesBack
  <2>2. /\ Kept(Reverse(Places), T) \in Seq(Nat)
        /\ \A x : Has(Kept(Reverse(Places), T), x) <=> (Has(Reverse(Places), x) /\ x \in T)
        /\ Falling(Reverse(Places)) => Falling(Kept(Reverse(Places), T))
    BY <2>1, KeptHas
  <2> QED
    BY <2>1, <2>2, PlacesBack
<1> HIDE DEF r, T
<1>7. t \in Seq(Nat) /\ Len(t) = Len(r) /\ Rising(t) /\ \A x : Has(t, x) <=> Has(r, x)
  BY <1>6, TurnedRound
<1>8. \A k \in 1 .. Len(r) : t[k] = r[(Len(r) - k) + 1]
  BY Zenon
<1> HIDE DEF t
<1>9. InOrder(t, T)
  BY <1>6, <1>7, Zenon DEF InOrder
<1>10. \A i \in 1 .. a : q[i] \in Nat
  BY <1>2, <1>3, SMT
<1>11. u \in Seq(Nat) /\ Len(u) = a /\ \A k \in 1 .. a : u[k] = q[k]
  <2>1. /\ u \in Seq(Nat) /\ Len(u) = IF 1 <= a THEN a - 1 + 1 ELSE 0
        /\ \A i \in 1 .. a - 1 + 1 : u[i] = q[1 + i - 1]
    BY <1>2, <1>10, SubSeqProperties
  <2> HIDE DEF u
  <2> QED
    BY <2>1, <1>2, SMT
<1> HIDE DEF u, L
<1>12. Rising(u)
  <2>1. SUFFICES ASSUME NEW i \in 1 .. a, NEW j \in 1 .. a, i < j
                 PROVE  u[i] < u[j]
    BY <1>11, Zenon DEF Rising
  <2>2. i \in 1 .. L /\ j \in 1 .. L
    BY <1>2, SMT
  <2>3. q[i] < q[j]
    BY <1>1, <2>1, <2>2, Zenon DEF Rising, L
  <2> QED
    BY <2>3, <1>11
<1>13. ASSUME NEW x, Has(u, x)
       PROVE  x \in Place /\ x \in T
  <2>1. PICK k \in 1 .. a : u[k] = x
    BY <1>13, <1>11, Zenon DEF Has
  <2>2. x = q[k] /\ k \in 1 .. L /\ k <= a
    BY <2>1, <1>11, <1>2, SMT
  <2>3. Has(q, x)
    BY <2>2, Zenon DEF Has, L
  <2>4. x <= h
    BY <2>2, <1>3
  <2> QED
    BY <2>3, <2>4, <1>1, <1>4
<1>14. ASSUME NEW x, x \in Place, x \in T
       PROVE  Has(u, x)
  <2>1. Has(q, x) /\ x <= h
    BY <1>1, <1>14, <1>5
  <2>2. PICK k \in 1 .. L : q[k] = x
    BY <2>1, Zenon DEF Has, L
  <2>3. k <= a
    BY <2>1, <2>2, <1>3
  <2>4. k \in 1 .. a
    BY <1>2, <2>3, SMT
  <2>5. u[k] = x
    BY <2>2, <2>4, <1>11
  <2> QED
    BY <2>4, <2>5, <1>11, Zenon DEF Has
<1>15. InOrder(u, T)
  BY <1>11, <1>12, <1>13, <1>14, Zenon DEF InOrder
<1>16. t = u
  BY <1>9, <1>15, InOrderUnique
<1>17. Len(r) = a
  BY <1>7, <1>11, <1>16
<1>18. ASSUME NEW k \in 1 .. a
       PROVE  r[k] = q[(a - k) + 1]
  <2>1. (a - k) + 1 \in 1 .. a /\ (a - ((a - k) + 1)) + 1 = k
    BY <1>2, SMT
  <2>2. t[(a - k) + 1] = r[(a - ((a - k) + 1)) + 1]
    BY <2>1, <1>8, <1>17
  <2> QED
    BY <2>1, <2>2, <1>11, <1>16
<1> QED
  BY <1>6, <1>17, <1>18 DEF r, T

----------------------------------------------------------------------------
(* The characters of a page, one candidate after the other.                *)

\* The characters of the first candidates, step by step.
IsFlat(f, seq, N) ==
    f = [i \in 1 .. N |-> IF i = 1 THEN seq[i] ELSE f[i - 1] \o seq[i]]

\* The function that FlattenSeq is defined by exists,
LEMMA FlatExists ==
  ASSUME NEW seq
  PROVE  \A N \in Nat : \E f : IsFlat(f, seq, N)
<1> DEFINE D == {N \in Nat : \E f : IsFlat(f, seq, N)}
<1>1. 0 \in D
  <2>1. IsFlat([n \in 1 .. 0 |-> <<>>], seq, 0)
    BY DEF IsFlat
  <2> QED
    BY <2>1
<1>2. ASSUME NEW N \in Nat, N \in D PROVE N + 1 \in D
  <2>1. PICK f : IsFlat(f, seq, N)
    BY <1>2
  <2> DEFINE more == [n \in 1 .. N + 1 |->
                        IF n < N + 1 THEN f[n]
                        ELSE IF n = 1 THEN seq[n] ELSE f[N] \o seq[n]]
  <2>2. ASSUME NEW n \in 1 .. N + 1
        PROVE  more[n] = IF n = 1 THEN seq[n] ELSE more[n - 1] \o seq[n]
    <3>1. \A j \in 1 .. N : more[j] = f[j]
      OBVIOUS
    <3>2. \A j \in 1 .. N : f[j] = IF j = 1 THEN seq[j] ELSE f[j - 1] \o seq[j]
      BY <2>1 DEF IsFlat
    <3>3. more[N + 1] = IF N + 1 = 1 THEN seq[N + 1] ELSE f[N] \o seq[N + 1]
      OBVIOUS
    <3> HIDE DEF more
    <3>4. CASE n \in 1 .. N /\ n # 1
      <4>1. n - 1 \in 1 .. N
        BY <3>4
      <4> QED
        BY <3>1, <3>2, <3>4, <4>1
    <3>5. CASE n \in 1 .. N /\ n = 1
      BY <3>1, <3>2, <3>5
    <3>6. CASE n = N + 1 /\ n # 1
      <4>1. n - 1 = N /\ N \in 1 .. N
        BY <3>6
      <4> QED
        BY <3>1, <3>3, <3>6, <4>1
    <3>7. CASE n = N + 1 /\ n = 1
      BY <3>3, <3>7
    <3>8. n \in 1 .. N \/ n = N + 1
      OBVIOUS
    <3> QED
      BY <3>4, <3>5, <3>6, <3>7, <3>8
  <2>3. more = [n \in 1 .. N + 1 |-> IF n = 1 THEN seq[n] ELSE more[n - 1] \o seq[n]]
    <3>1. more = [n \in 1 .. N + 1 |-> more[n]]
      OBVIOUS
    <3> HIDE DEF more
    <3> QED
      BY <2>2, <3>1
  <2>4. IsFlat(more, seq, N + 1)
    BY <2>3 DEF IsFlat
  <2> QED
    BY <2>4
<1> HIDE DEF D
<1>3. \A N \in Nat : N \in D
  BY <1>1, <1>2, SetInduction
<1> QED
  BY <1>3 DEF D

\* so its last value is the flattened sequence.
LEMMA FlatIs ==
  ASSUME NEW seq, Len(seq) \in Nat \ {0}
  PROVE  \E f : IsFlat(f, seq, Len(seq)) /\ Flat(seq) = f[Len(seq)]
<1> DEFINE f == CHOOSE g : IsFlat(g, seq, Len(seq))
<1>1. Len(seq) \in Nat /\ Len(seq) # 0
  OBVIOUS
<1>2. IsFlat(f, seq, Len(seq))
  BY <1>1, FlatExists
<1>3. Flat(seq) = f[Len(seq)]
  BY <1>1, Zenon DEF Flat, FlattenSeq, IsFlat
<1> QED
  BY <1>2, <1>3

\* Its values, and what each has that the one before has not.
Steps(f, seq, N, K) ==
    /\ f[1] = seq[1]
    /\ \A n \in 1 .. N : f[n] \in Seq(K)
    /\ \A n \in 1 .. N - 1 : f[n + 1] = f[n] \o seq[n + 1]

\* FlattenSeq appends one after the other.
LEMMA FlatStep ==
  ASSUME NEW K, NEW seq \in Seq(Seq(K)), NEW f, NEW N \in 1 .. Len(seq),
         IsFlat(f, seq, N)
  PROVE  Steps(f, seq, N, K)
<1>1. Len(seq) \in Nat /\ \A n \in 1 .. Len(seq) : seq[n] \in Seq(K)
  BY ElementOfSeq, LenProperties
<1>2. N \in Nat /\ 1 <= N /\ N <= Len(seq)
  BY <1>1
<1>3. \A n \in 1 .. N : f[n] = IF n = 1 THEN seq[n] ELSE f[n - 1] \o seq[n]
  BY DEF IsFlat
<1>4. 1 \in 1 .. N
  BY <1>2
<1>5. f[1] = seq[1]
  BY <1>3, <1>4
<1>6. ASSUME NEW n \in 1 .. N - 1
      PROVE  f[n + 1] = f[n] \o seq[n + 1]
  <2>1. n + 1 \in 1 .. N /\ n + 1 # 1 /\ (n + 1) - 1 = n
    BY <1>2
  <2> QED
    BY <1>3, <2>1
<1> DEFINE D == {m \in Nat : m + 1 \in 1 .. N => f[m + 1] \in Seq(K)}
<1>7. 0 \in D
  <2>1. f[0 + 1] \in Seq(K)
    BY <1>5, <1>1, <1>2
  <2> QED
    BY <2>1
<1>8. ASSUME NEW m \in Nat, m \in D PROVE m + 1 \in D
  <2>1. SUFFICES ASSUME (m + 1) + 1 \in 1 .. N PROVE f[(m + 1) + 1] \in Seq(K)
    OBVIOUS
  <2>2. m + 1 \in 1 .. N - 1 /\ m + 1 \in 1 .. N /\ (m + 1) + 1 \in 1 .. Len(seq)
    BY <2>1, <1>2
  <2>3. f[m + 1] \in Seq(K)
    BY <1>8, <2>2
  <2>4. f[(m + 1) + 1] = f[m + 1] \o seq[(m + 1) + 1]
    BY <1>6, <2>2
  <2>5. seq[(m + 1) + 1] \in Seq(K)
    BY <1>1, <2>2
  <2> QED
    BY <2>3, <2>4, <2>5, ConcatProperties
<1> HIDE DEF D
<1>9. \A m \in Nat : m \in D
  BY <1>7, <1>8, SetInduction
<1>10. ASSUME NEW n \in 1 .. N
       PROVE  f[n] \in Seq(K)
  <2>1. n - 1 \in Nat /\ (n - 1) + 1 = n
    BY <1>2
  <2>2. n - 1 \in D
    BY <1>9, <2>1
  <2> QED
    BY <2>1, <2>2 DEF D
<1> QED
  BY <1>5, <1>6, <1>10, Zenon DEF Steps

\* Of candidates of one character each, it has one character for each,
LEMMA FlatOfSingles ==
  ASSUME NEW K, NEW seq \in Seq(Seq(K)), \A k \in 1 .. Len(seq) : Len(seq[k]) = 1
  PROVE  /\ Len(Flat(seq)) = Len(seq)
         /\ \A k \in 1 .. Len(seq) : Flat(seq)[k] = seq[k][1]
<1> DEFINE L == Len(seq)
<1>1. L \in Nat /\ \A n \in 1 .. L : seq[n] \in Seq(K)
  BY ElementOfSeq, LenProperties
<1>2. CASE L = 0
  <2>1. Flat(seq) = seq
    BY <1>2, Zenon DEF Flat, FlattenSeq
  <2> QED
    BY <1>2, <2>1
<1>3. CASE L # 0
  <2>1. L \in Nat \ {0}
    BY <1>1, <1>3
  <2>2. PICK f : IsFlat(f, seq, L) /\ Flat(seq) = f[L]
    BY <2>1, FlatIs
  <2>3. L \in 1 .. L
    BY <2>1
  <2>4. /\ f[1] = seq[1]
        /\ \A n \in 1 .. L : f[n] \in Seq(K)
        /\ \A n \in 1 .. L - 1 : f[n + 1] = f[n] \o seq[n + 1]
    <3>1. Steps(f, seq, L, K)
      BY <2>2, <2>3, FlatStep
    <3> QED
      BY <3>1, Zenon DEF Steps
  <2> DEFINE Fits(m) == /\ Len(f[m]) = m
                        /\ \A k \in 1 .. m : f[m][k] = seq[k][1]
             D == {m \in Nat : m + 1 \in 1 .. L => Fits(m + 1)}
  <2>5. 0 \in D
    <3>1. Fits(1)
      BY <2>3, <2>4, <1>1
    <3> QED
      BY <3>1
  <2>6. ASSUME NEW m \in Nat, m \in D PROVE m + 1 \in D
    <3>1. SUFFICES ASSUME (m + 1) + 1 \in 1 .. L PROVE Fits((m + 1) + 1)
      OBVIOUS
    <3>2. m + 1 \in 1 .. L - 1 /\ m + 1 \in 1 .. L
      BY <3>1, <1>1
    <3>3. Fits(m + 1)
      BY <2>6, <3>2
    <3> DEFINE a == f[m + 1]
               b == seq[(m + 1) + 1]
    <3>4. a \in Seq(K) /\ b \in Seq(K) /\ Len(b) = 1 /\ Len(a) = m + 1
      BY <2>4, <3>2, <1>1, <3>1, <3>3
    <3>5. f[(m + 1) + 1] = a \o b
      BY <2>4, <3>2
    <3> HIDE DEF a, b
    <3>6. /\ Len(a \o b) = Len(a) + Len(b)
          /\ \A i \in 1 .. Len(a) + Len(b) : (a \o b)[i] =
               IF i <= Len(a) THEN a[i] ELSE b[i - Len(a)]
      BY <3>4, ConcatProperties
    <3>7. Len(f[(m + 1) + 1]) = (m + 1) + 1
      BY <3>4, <3>5, <3>6
    <3>8. ASSUME NEW k \in 1 .. (m + 1) + 1
          PROVE  f[(m + 1) + 1][k] = seq[k][1]
      <4>1. (a \o b)[k] = IF k <= m + 1 THEN a[k] ELSE b[k - (m + 1)]
        BY <3>4, <3>6
      <4>2. CASE k <= m + 1
        <5>1. k \in 1 .. m + 1
          BY <4>2
        <5>2. a[k] = seq[k][1]
          BY <3>3, <5>1 DEF a
        <5> QED
          BY <4>1, <4>2, <5>2, <3>5
      <4>3. CASE ~(k <= m + 1)
        <5>1. k = (m + 1) + 1 /\ k - (m + 1) = 1
          BY <4>3
        <5> QED
          BY <4>1, <4>3, <5>1, <3>5 DEF b
      <4> QED
        BY <4>2, <4>3
    <3> QED
      BY <3>7, <3>8
  <2> HIDE DEF D
  <2>7. \A m \in Nat : m \in D
    BY <2>5, <2>6, SetInduction
  <2>8. L - 1 \in Nat /\ (L - 1) + 1 = L
    BY <2>1
  <2>9. L - 1 \in D
    BY <2>7, <2>8
  <2>10. Fits(L)
    BY <2>3, <2>8, <2>9 DEF D
  <2> QED
    BY <2>2, <2>10
<1> QED
  BY <1>2, <1>3

\* and of the first of several candidates it has less than of all of them.
LEMMA FlatGrows ==
  ASSUME NEW K, NEW seq \in Seq(Seq(K)), NEW n \in 1 .. Len(seq), n < Len(seq),
         \A k \in 1 .. Len(seq) : seq[k] # <<>>
  PROVE  Len(Flat(SubSeq(seq, 1, n))) < Len(Flat(seq))
<1> DEFINE L == Len(seq)
           s == SubSeq(seq, 1, n)
<1>1. L \in Nat /\ \A k \in 1 .. L : seq[k] \in Seq(K)
  BY ElementOfSeq, LenProperties
<1>2. n \in Nat /\ n # 0 /\ n < L /\ n \in 1 .. L /\ L \in Nat \ {0} /\ L \in 1 .. L
  BY <1>1
<1>3. s \in Seq(Seq(K)) /\ Len(s) = n /\ \A k \in 1 .. n : s[k] = seq[k]
  <2>1. \A k \in 1 .. n : seq[k] \in Seq(K)
    BY <1>1, <1>2
  <2>2. /\ s \in Seq(Seq(K)) /\ Len(s) = IF 1 <= n THEN n - 1 + 1 ELSE 0
        /\ \A i \in 1 .. n - 1 + 1 : s[i] = seq[1 + i - 1]
    BY <1>2, <2>1, SubSeqProperties
  <2> HIDE DEF s
  <2> QED
    BY <1>2, <2>2, SMT
<1> HIDE DEF s
<1>4. PICK f : IsFlat(f, seq, L) /\ Flat(seq) = f[L]
  BY <1>2, FlatIs
<1>5. PICK g : IsFlat(g, s, n) /\ Flat(s) = g[n]
  <2>1. Len(s) \in Nat \ {0}
    BY <1>2, <1>3
  <2>2. \E g : IsFlat(g, s, Len(s)) /\ Flat(s) = g[Len(s)]
    BY <2>1, FlatIs
  <2> QED
    BY <2>2, <1>3
<1>6. /\ f[1] = seq[1]
      /\ \A k \in 1 .. L : f[k] \in Seq(K)
      /\ \A k \in 1 .. L - 1 : f[k + 1] = f[k] \o seq[k + 1]
  <2>1. Steps(f, seq, L, K)
    BY <1>2, <1>4, FlatStep
  <2> QED
    BY <2>1, Zenon DEF Steps
<1>7. /\ g[1] = s[1]
      /\ \A k \in 1 .. n : g[k] \in Seq(K)
      /\ \A k \in 1 .. n - 1 : g[k + 1] = g[k] \o s[k + 1]
  <2>1. n \in 1 .. Len(s)
    BY <1>2, <1>3
  <2>2. Steps(g, s, n, K)
    BY <2>1, <1>3, <1>5, FlatStep
  <2> QED
    BY <2>2, Zenon DEF Steps
<1> HIDE DEF L
\* The first n are the same in both.
<1>8. g[n] = f[n]
  <2> DEFINE D == {m \in Nat : m + 1 \in 1 .. n => g[m + 1] = f[m + 1]}
  <2>1. 0 \in D
    BY <1>2, <1>3, <1>6, <1>7
  <2>2. ASSUME NEW m \in Nat, m \in D PROVE m + 1 \in D
    <3>1. SUFFICES ASSUME (m + 1) + 1 \in 1 .. n PROVE g[(m + 1) + 1] = f[(m + 1) + 1]
      OBVIOUS
    <3>2. /\ m + 1 \in 1 .. n - 1 /\ m + 1 \in 1 .. n /\ m + 1 \in 1 .. L - 1
          /\ (m + 1) + 1 \in 1 .. n
      BY <3>1, <1>2
    <3>3. g[m + 1] = f[m + 1]
      BY <2>2, <3>2
    <3>4. s[(m + 1) + 1] = seq[(m + 1) + 1]
      BY <1>3, <3>2
    <3> QED
      BY <3>2, <3>3, <3>4, <1>6, <1>7
  <2> HIDE DEF D
  <2>3. \A m \in Nat : m \in D
    BY <2>1, <2>2, SetInduction
  <2>4. n - 1 \in Nat /\ (n - 1) + 1 = n /\ n \in 1 .. n
    BY <1>2
  <2> QED
    BY <2>3, <2>4 DEF D
\* Each step adds a character at least.
<1>9. ASSUME NEW k \in 1 .. L - 1
      PROVE  Len(f[k]) < Len(f[k + 1])
  <2>1. k \in 1 .. L /\ k + 1 \in 1 .. L
    BY <1>2
  <2>2. f[k] \in Seq(K) /\ seq[k + 1] \in Seq(K) /\ seq[k + 1] # <<>>
    BY <1>1, <1>6, <2>1 DEF L
  <2>3. Len(f[k] \o seq[k + 1]) = Len(f[k]) + Len(seq[k + 1])
    BY <2>2, ConcatProperties
  <2> DEFINE was   == Len(f[k])
             added == Len(seq[k + 1])
  <2>4. was \in Nat /\ added \in Nat \ {0}
    BY <2>2, EmptySeq, LenProperties
  <2>5. Len(f[k + 1]) = was + added
    BY <1>6, <2>3
  <2> HIDE DEF was, added
  <2>6. was < was + added
    BY <2>4, SMT
  <2> QED
    BY <2>5, <2>6 DEF was
<1>10. \A k \in 1 .. L : Len(f[k]) \in Nat
  BY <1>6, LenProperties
<1>11. Len(f[n]) < Len(f[L])
  <2> DEFINE ln(k) == Len(f[k])
             D == {m \in Nat : (n + m) + 1 <= L => ln(n) < ln((n + m) + 1)}
  <2>1. \A k \in 1 .. L : ln(k) \in Nat
    BY <1>10
  <2>2. \A k \in 1 .. L - 1 : ln(k) < ln(k + 1)
    BY <1>9
  <2> HIDE DEF ln
  <2>3. 0 \in D
    <3>1. n \in 1 .. L - 1 /\ (n + 0) + 1 = n + 1
      BY <1>2
    <3> QED
      BY <3>1, <2>2
  <2>4. ASSUME NEW m \in Nat, m \in D PROVE m + 1 \in D
    <3>1. SUFFICES ASSUME (n + (m + 1)) + 1 <= L PROVE ln(n) < ln((n + (m + 1)) + 1)
      OBVIOUS
    <3>2. /\ n \in 1 .. L /\ (n + m) + 1 \in 1 .. L - 1 /\ (n + m) + 1 \in 1 .. L
          /\ ((n + m) + 1) + 1 \in 1 .. L
          /\ (n + (m + 1)) + 1 = ((n + m) + 1) + 1
      BY <1>2, <3>1, SMT
    <3>3. ln(n) < ln((n + m) + 1)
      BY <2>4, <3>2
    <3>4. ln((n + m) + 1) < ln(((n + m) + 1) + 1)
      BY <2>2, <3>2
    <3>5. ln(n) \in Nat /\ ln((n + m) + 1) \in Nat /\ ln(((n + m) + 1) + 1) \in Nat
      BY <2>1, <3>2
    <3>6. ln(n) < ln(((n + m) + 1) + 1)
      BY <3>3, <3>4, <3>5, SMT
    <3> QED
      BY <3>2, <3>6
  <2> HIDE DEF D
  <2>5. \A m \in Nat : m \in D
    BY <2>3, <2>4, SetInduction
  <2>6. (L - n) - 1 \in Nat /\ (n + ((L - n) - 1)) + 1 = L
    BY <1>2, SMT
  <2>7. (L - n) - 1 \in D
    BY <2>5, <2>6
  <2>8. ln(n) < ln(L)
    <3>1. (n + ((L - n) - 1)) + 1 <= L
      BY <1>2, <2>6, SMT
    <3> QED
      BY <2>6, <2>7, <3>1 DEF D
  <2> QED
    BY <2>8 DEF ln
<1> QED
  BY <1>4, <1>5, <1>8, <1>11 DEF s, L

----------------------------------------------------------------------------
(* Pages of candidates.                                                    *)

\* A sequence of places of the table.
AtPlaces(q) == q \in Seq(Nat) /\ \A k \in 1 .. Len(q) : q[k] \in Place

\* What is found is one.
LEMMA InOrderAtPlaces ==
  ASSUME NEW S, NEW q, InOrder(q, S)
  PROVE  AtPlaces(q)
<1>1. q \in Seq(Nat) /\ \A x : Has(q, x) <=> (x \in Place /\ x \in S)
  BY Zenon DEF InOrder
<1>2. \A k \in 1 .. Len(q) : Has(q, q[k])
  BY Zenon DEF Has
<1> QED
  BY <1>1, <1>2, Zenon DEF AtPlaces

\* The candidates at some places.
LEMMA ZisAre ==
  ASSUME NEW q, AtPlaces(q)
  PROVE  /\ Zis(q) \in Seq(Cand) /\ Len(Zis(q)) = Len(q) /\ Len(q) \in Nat
         /\ \A k \in 1 .. Len(q) : Zis(q)[k] = Entry(q[k]).zi
<1>1. Len(q) \in Nat /\ DOMAIN q = 1 .. Len(q) /\ \A k \in 1 .. Len(q) : q[k] \in Place
  BY DEF AtPlaces
<1>2. Zis(q) = [k \in 1 .. Len(q) |-> Entry(q[k]).zi]
  BY <1>1, Zenon DEF Zis
<1>3. \A k \in 1 .. Len(q) : Entry(q[k]).zi \in Cand
  BY <1>1, EntryType
<1>4. \A k \in 1 .. Len(q) : Zis(q)[k] = Entry(q[k]).zi
  BY <1>2, Zenon
<1> DEFINE z(k) == Entry(q[k]).zi
<1> HIDE DEF z
<1>5. Zis(q) = [k \in 1 .. Len(q) |-> z(k)] /\ \A k \in 1 .. Len(q) : z(k) \in Cand
  BY <1>2, <1>3 DEF z
<1>6. Zis(q) \in Seq(Cand) /\ Len(Zis(q)) = Len(q)
  BY <1>1, <1>5
<1> QED
  BY <1>1, <1>4, <1>6

\* Part of a sequence.
LEMMA Part ==
  ASSUME NEW K, NEW s \in Seq(K), NEW a \in Int, NEW b \in Int, 1 <= a, b <= Len(s)
  PROVE  /\ SubSeq(s, a, b) \in Seq(K)
         /\ Len(SubSeq(s, a, b)) = IF a <= b THEN (b - a) + 1 ELSE 0
         /\ Len(SubSeq(s, a, b)) \in Nat
         /\ \A k \in 1 .. Len(SubSeq(s, a, b)) :
               /\ SubSeq(s, a, b)[k] = s[(a + k) - 1]
               /\ (a + k) - 1 \in 1 .. Len(s)
<1> DEFINE t == SubSeq(s, a, b)
           L == Len(s)
<1>1. L \in Nat /\ \A i \in 1 .. L : s[i] \in K
  BY ElementOfSeq, LenProperties
<1>2. b <= L
  OBVIOUS
<1> HIDE DEF L
<1>3. \A i \in a .. b : s[i] \in K
  <2>1. \A i \in a .. b : i \in 1 .. L
    BY <1>1, <1>2, SMT
  <2> QED
    BY <1>1, <2>1
<1>4. /\ t \in Seq(K) /\ Len(t) = IF a <= b THEN b - a + 1 ELSE 0
      /\ \A i \in 1 .. b - a + 1 : t[i] = s[a + i - 1]
  BY <1>3, SubSeqProperties
<1>5. Len(t) \in Nat
  BY <1>4, LenProperties
<1> HIDE DEF t
<1>6. \A k \in 1 .. Len(t) : t[k] = s[(a + k) - 1] /\ (a + k) - 1 \in 1 .. L
  <2>1. SUFFICES ASSUME NEW k \in 1 .. Len(t)
                 PROVE  t[k] = s[(a + k) - 1] /\ (a + k) - 1 \in 1 .. L
    OBVIOUS
  <2>2. k \in 1 .. b - a + 1
    BY <1>4, <1>5, SMT
  <2>3. (a + k) - 1 = a + k - 1 /\ (a + k) - 1 \in 1 .. L
    BY <1>1, <1>2, <2>2, SMT
  <2> QED
    BY <1>4, <2>2, <2>3
<1> QED
  BY <1>4, <1>5, <1>6 DEF t, L

\* The candidates of a part are that part of the candidates.
LEMMA ZisPart ==
  ASSUME NEW q, AtPlaces(q), NEW a \in Int, NEW b \in Int, 1 <= a, b <= Len(q)
  PROVE  /\ AtPlaces(SubSeq(q, a, b))
         /\ Zis(SubSeq(q, a, b)) = SubSeq(Zis(q), a, b)
<1> DEFINE t == SubSeq(q, a, b)
           u == SubSeq(Zis(q), a, b)
<1>1. q \in Seq(Nat) /\ \A k \in 1 .. Len(q) : q[k] \in Place
  BY DEF AtPlaces
<1>2. /\ Zis(q) \in Seq(Cand) /\ Len(Zis(q)) = Len(q)
      /\ \A k \in 1 .. Len(q) : Zis(q)[k] = Entry(q[k]).zi
  BY ZisAre
<1>3. /\ t \in Seq(Nat) /\ Len(t) = IF a <= b THEN (b - a) + 1 ELSE 0
      /\ \A k \in 1 .. Len(t) : t[k] = q[(a + k) - 1] /\ (a + k) - 1 \in 1 .. Len(q)
  BY <1>1, Part
<1>4. /\ u \in Seq(Cand) /\ Len(u) = IF a <= b THEN (b - a) + 1 ELSE 0
      /\ \A k \in 1 .. Len(u) : u[k] = Zis(q)[(a + k) - 1] /\ (a + k) - 1 \in 1 .. Len(q)
  BY <1>2, Part
<1> HIDE DEF t, u
<1>5. AtPlaces(t)
  BY <1>1, <1>3 DEF AtPlaces
<1>6. Zis(t) \in Seq(Cand) /\ Len(Zis(t)) = Len(t) /\ \A k \in 1 .. Len(t) : Zis(t)[k] = Entry(t[k]).zi
  BY <1>5, ZisAre
<1>7. Len(Zis(t)) = Len(u)
  BY <1>3, <1>4, <1>6
<1>8. ASSUME NEW k \in 1 .. Len(Zis(t))
      PROVE  Zis(t)[k] = u[k]
  BY <1>2, <1>3, <1>4, <1>6, <1>7, <1>8, Zenon
<1>9. Zis(t) = u
  BY <1>4, <1>6, <1>7, <1>8, SeqEqual
<1> QED
  BY <1>5, <1>9 DEF t, u

\* A part of the rest is a part further on.
LEMMA PartOfRest ==
  ASSUME NEW K, NEW s \in Seq(K), NEW a \in 0 .. Len(s), NEW m \in Nat, a + m <= Len(s)
  PROVE  SubSeq(SubSeq(s, a + 1, Len(s)), 1, m) = SubSeq(s, a + 1, a + m)
<1> DEFINE L == Len(s)
           r == SubSeq(s, a + 1, L)
           t == SubSeq(r, 1, m)
           u == SubSeq(s, a + 1, a + m)
<1>1. L \in Nat /\ a \in Int /\ 0 <= a /\ a <= L /\ a + m <= L /\ m \in Int
  <2>1. L \in Nat
    BY LenProperties
  <2> QED
    BY <2>1
<1>2. a + 1 \in Int /\ 1 <= a + 1 /\ L <= L /\ a + m \in Int
  BY <1>1, SMT
<1>3. /\ r \in Seq(K) /\ Len(r) = IF a + 1 <= L THEN (L - (a + 1)) + 1 ELSE 0
      /\ \A k \in 1 .. Len(r) : r[k] = s[((a + 1) + k) - 1] /\ ((a + 1) + k) - 1 \in 1 .. L
  BY <1>1, <1>2, Part
<1>4. /\ u \in Seq(K) /\ Len(u) = IF a + 1 <= a + m THEN ((a + m) - (a + 1)) + 1 ELSE 0
      /\ \A k \in 1 .. Len(u) : u[k] = s[((a + 1) + k) - 1] /\ ((a + 1) + k) - 1 \in 1 .. L
  BY <1>1, <1>2, Part
<1> HIDE DEF r, L
<1>5. Len(r) = L - a
  BY <1>1, <1>3, SMT
<1>6. m <= Len(r) /\ 1 <= 1
  BY <1>1, <1>5, SMT
<1>7. /\ t \in Seq(K) /\ Len(t) = IF 1 <= m THEN (m - 1) + 1 ELSE 0
      /\ \A k \in 1 .. Len(t) : t[k] = r[(1 + k) - 1] /\ (1 + k) - 1 \in 1 .. Len(r)
  BY <1>1, <1>3, <1>6, Part
<1> HIDE DEF t, u
<1>8. Len(t) = m /\ Len(u) = m
  BY <1>1, <1>4, <1>7, SMT
<1>9. ASSUME NEW k \in 1 .. Len(t)
      PROVE  t[k] = u[k]
  <2>1. (1 + k) - 1 = k /\ k \in 1 .. m
    BY <1>8, <1>1, SMT
  <2>2. t[k] = r[k] /\ k \in 1 .. Len(r)
    BY <1>7, <2>1
  <2> QED
    BY <1>3, <1>4, <1>8, <2>1, <2>2
<1>10. t = u
  BY <1>4, <1>7, <1>8, <1>9, SeqEqual
<1> QED
  BY <1>10 DEF t, u, r, L

----------------------------------------------------------------------------
(* The search with wild cards begins where it must.                        *)

\* Code of a key of the table: a number.
CodeOf(k) == CHOOSE c \in DOMAIN KeyOrder : KeyOrder[c] = k

\* It is one.
LEMMA CodesAreNumbers ==
  ASSUME NEW k \in Range(KeyOrder)
  PROVE  CodeOf(k) \in Nat
<1>1. KeyOrder \in Seq(Range(KeyOrder))
  BY ConstantsOK
<1>2. DOMAIN KeyOrder = 1 .. Len(KeyOrder) /\ Len(KeyOrder) \in Nat
  BY <1>1, LenProperties
<1>3. \E c \in DOMAIN KeyOrder : KeyOrder[c] = k
  BY Zenon DEF Range
<1>4. CodeOf(k) \in DOMAIN KeyOrder
  BY <1>3, Zenon DEF CodeOf
<1> QED
  BY <1>2, <1>4, SMT

\* A keystroke that begins with a prefix does not sort before it.
LEMMA PrefixedNotBefore ==
  ASSUME NEW t \in Seq(Range(KeyOrder)), NEW u \in Seq(Key),
         \A k \in 1 .. Len(u) : k <= Len(t) /\ t[k] = u[k]
  PROVE  ~Before(t, u)
<1>1. Len(t) \in Nat /\ Len(u) \in Nat /\ \A k \in 1 .. Len(t) : t[k] \in Range(KeyOrder)
  BY ElementOfSeq, LenProperties
<1>2. SUFFICES ASSUME Before(t, u) PROVE FALSE
  OBVIOUS
<1>3. PICK n \in 0 .. Len(t) :
        n < Len(u) /\ (n = Len(t) \/ CodeOf(t[n + 1]) < CodeOf(u[n + 1]))
  BY <1>2, Zenon DEF Before, CodeOf
<1>4. n + 1 \in 1 .. Len(u)
  BY <1>1, <1>3, SMT
<1>5. n + 1 <= Len(t) /\ t[n + 1] = u[n + 1]
  BY <1>4
<1>6. n # Len(t) /\ n + 1 \in 1 .. Len(t)
  BY <1>1, <1>3, <1>5, SMT
<1>7. CodeOf(t[n + 1]) \in Nat
  BY <1>1, <1>6, CodesAreNumbers
<1>8. CodeOf(t[n + 1]) < CodeOf(t[n + 1])
  BY <1>3, <1>5, <1>6
<1> QED
  BY <1>7, <1>8, SMT

\* bsearch_char() has an answer, and only what sorts before lies before it.
LEMMA LowerBoundIs ==
  ASSUME NEW u
  PROVE  /\ LowerBound(u) \in 0 .. Len(Table)
         /\ \A h \in 0 .. LowerBound(u) - 1 : Before(Entry(h).ks, u)
<1> DEFINE N == Len(Table)
           B(p) == Before(Entry(p).ks, u)
           P(p) == /\ \A h \in 0 .. p - 1 : B(h)
                   /\ p < N => ~B(p)
           S == {p \in Nat : p = N \/ (p < N /\ ~B(p))}
<1>1. N \in Nat
  BY EntryType
<1> HIDE DEF N, B
<1>2. S \in SUBSET Nat /\ S # {}
  <2>1. N \in S
    BY <1>1
  <2> QED
    BY <2>1
<1>3. PICK p \in S : \A y \in S : p <= y
  BY <1>2, LeastOf
<1>4. p \in Nat /\ (p = N \/ (p < N /\ ~B(p)))
  BY <1>3, Zenon
<1>4a. \A y \in Nat : (y < N /\ ~B(y)) => p <= y
  BY <1>3, Zenon
<1> HIDE DEF S
<1>5. p \in 0 .. N
  BY <1>1, <1>4, SMT
<1>6. ASSUME NEW h \in 0 .. p - 1
      PROVE  B(h)
  <2>1. h \in Nat /\ h < N /\ ~(p <= h)
    BY <1>1, <1>4, <1>5, SMT
  <2> QED
    BY <2>1, <1>4a, Zenon
<1>7. p < N => ~B(p)
  BY <1>1, <1>4, SMT
<1>8. P(p)
  BY <1>6, <1>7, Zenon
<1>9. LowerBound(u) = CHOOSE x \in 0 .. N : P(x)
  BY Zenon DEF LowerBound, N, B
<1>10. LowerBound(u) \in 0 .. N /\ P(LowerBound(u))
  BY <1>5, <1>8, <1>9, Zenon
<1> QED
  BY <1>10, Zenon DEF N, B

\* No match of a keystroke lies before the place where the search begins.
LEMMA NoneBelow ==
  ASSUME NEW ks \in Seq(Key), NEW u, u = SubSeq(ks, 1, NextWild(ks, 1) - 1)
  PROVE  /\ LowerBound(u) \in Nat
         /\ \A x \in Spelt(ks) : x >= LowerBound(u)
<1> DEFINE w == NextWild(ks, 1)
           b == LowerBound(u)
<1>1. Len(ks) \in Nat /\ 1 \in 1 .. Len(ks) + 1
  <2>1. Len(ks) \in Nat
    BY LenProperties
  <2> QED
    BY <2>1
<1>2. w \in 1 .. Len(ks) + 1
  BY <1>1, NextWildFinds
<1>3. b \in 0 .. Len(Table) /\ \A h \in 0 .. b - 1 : Before(Entry(h).ks, u)
  BY LowerBoundIs
<1>4. /\ u \in Seq(Key) /\ Len(u) = IF 1 <= w - 1 THEN ((w - 1) - 1) + 1 ELSE 0
      /\ \A k \in 1 .. Len(u) : u[k] = ks[(1 + k) - 1]
  <2>1. w - 1 \in Int /\ w - 1 <= Len(ks) /\ 1 <= 1
    BY <1>1, <1>2, SMT
  <2> QED
    BY <2>1, Part
<1> HIDE DEF w, b
<1>5. Len(Table) \in Nat
  BY EntryType
<1>6. b \in Nat
  BY <1>3, <1>5, SMT
<1>7. Len(u) = w - 1
  BY <1>1, <1>2, <1>4, SMT
<1>8. \A k \in 1 .. Len(u) : u[k] = ks[k] /\ k \in 1 .. w - 1
  <2>1. \A k \in 1 .. w - 1 : (1 + k) - 1 = k
    BY <1>1, <1>2, SMT
  <2> QED
    BY <2>1, <1>4, <1>7, Zenon
<1>9. ASSUME NEW x \in Spelt(ks)
      PROVE  x >= b
  <2>1. x \in Place /\ WildMatch(ks, Entry(x).ks)
    BY Zenon DEF Spelt, Place
  <2>2. Entry(x).ks \in Seq(Range(KeyOrder)) /\ Entry(x).ks \in Seq(Key)
    BY <2>1, EntryType
  <2> DEFINE t == Entry(x).ks
  <2> HIDE DEF t
  <2>3. t \in Seq(Range(KeyOrder)) /\ t \in Seq(Key) /\ WildMatch(ks, t)
    BY <2>1, <2>2 DEF t
  <2>4. \A k \in 1 .. w - 1 : k <= Len(t) /\ t[k] = ks[k]
    BY <2>3, MatchKeepsPrefix DEF w
  <2>5. \A k \in 1 .. Len(u) : k <= Len(t) /\ t[k] = u[k]
    BY <1>8, <2>4, Zenon
  <2>6. ~Before(t, u)
    BY <1>4, <2>3, <2>5, PrefixedNotBefore
  <2>7. x \notin 0 .. b - 1
    BY <1>3, <2>6 DEF t
  <2> QED
    BY <1>5, <1>6, <2>1, <2>7, SMT DEF Place
<1> QED
  BY <1>6, <1>9 DEF b

Marks     == {"MCCH", "SPACE", "INWILD", "WRONG"}
PageState == {"ONEPG", "BEGIN", "MIDDLE", "END"}
Fields    == {"keystroke", "mode", "spot", "mcch", "grouping", "pgstate", "all",
              "hidx", "eidx", "mkeys", "has_tsi", "normal", "wild", "cch", "commits"}

\* What a handler works on.
Typed(s) ==
    /\ DOMAIN s = Fields
    /\ s.keystroke \in Seq(Key)
    /\ s.mode \in SUBSET Marks
    /\ s.mcch \in Seq(Cand) /\ Len(s.mcch) <= NSelkey
    /\ s.grouping \in {"none", "normal", "own", "wild"}
    /\ s.pgstate \in PageState
    /\ s.all \in Seq(Cand)
    /\ s.hidx \in Int /\ s.eidx \in Int
    /\ s.has_tsi \in BOOLEAN
    /\ s.normal \in Seq(Nat) /\ s.wild \in Seq(Nat)
    /\ s.commits \in Nat

\* Without phrases a candidate is one character, and the pages of a keystroke without
\* wild cards are cut out of candidates that has_tsi and the grouping are about.
Plain(s) ==
    /\ ~s.has_tsi => \A k \in 1 .. Len(s.mcch) : Len(s.mcch[k]) = 1
    /\ ("INWILD" \notin s.mode /\ s.pgstate # "ONEPG") =>
          IF s.has_tsi THEN s.grouping = "normal"
          ELSE s.grouping = "none" /\ \A k \in 1 .. Len(s.all) : Len(s.all[k]) = 1

\* What GroupingOfPage says of a world.
Grouped(s) ==
    \A k \in 1 .. Len(s.mcch) :
        Len(s.mcch[k]) = IF s.grouping = "none" THEN 1 ELSE Grouping(s, k)

Sound(s) == Typed(s) /\ Plain(s)

\* Neither the page nor any array that its lengths could stand in is written,
Unturned(s, t) ==
    /\ t.mcch = s.mcch /\ t.grouping = s.grouping /\ t.all = s.all
    /\ t.normal = s.normal /\ t.wild = s.wild

\* or both are, in step.
PageKept(s, t) == Grouped(t) \/ Unturned(s, t)

\* What a handler may make of a world, whatever the options are.
After(s, t) ==
    /\ Sound(t)
    /\ PageKept(s, t)
    /\ t.commits = s.commits \/ t.commits = s.commits + 1
    /\ t.keystroke = s.keystroke \/ t.keystroke = <<>>

\* What is not written is grouped as before,
LEMMA UnturnedGrouped ==
  ASSUME NEW s, NEW t, Unturned(s, t), Grouped(s)
  PROVE  Grouped(t)
<1>1. \A k : Grouping(t, k) = Grouping(s, k)
  BY DEF Grouping, Unturned
<1> QED
  BY <1>1, Zenon DEF Grouped, Unturned

\* and one handler may come after the other.
LEMMA PageKeptThen ==
  ASSUME NEW s, NEW u, NEW t, PageKept(s, u), PageKept(u, t)
  PROVE  PageKept(s, t)
BY UnturnedGrouped, Zenon DEF PageKept, Unturned

\* Nothing is shown.
LEMMA EmptyPage ==
  ASSUME NEW s, s.mcch = <<>>
  PROVE  Grouped(s)
<1>1. Len(s.mcch) = 0
  BY EmptySeq
<1> QED
  BY <1>1 DEF Grouped

\* The empty sequence is all of these.
LEMMA Empty == /\ <<>> \in Seq(Key) /\ <<>> \in Seq(Cand) /\ <<>> \in Seq(Nat)
               /\ Len(<<>>) = 0
  BY EmptySeq

\* reset_keystroke().
LEMMA ResetAfter ==
  ASSUME NEW s, Sound(s)
  PROVE  After(s, Reset(s)) /\ Reset(s).commits = s.commits
<1> DEFINE t == Reset(s)
<1>1. /\ DOMAIN t = Fields
      /\ t.keystroke = <<>> /\ t.mcch = <<>> /\ t.mode = {} /\ t.pgstate = "ONEPG"
      /\ t.grouping = s.grouping /\ t.all = s.all /\ t.hidx = s.hidx /\ t.eidx = s.eidx
      /\ t.has_tsi = s.has_tsi /\ t.normal = s.normal /\ t.wild = s.wild
      /\ t.commits = s.commits
  BY SMT DEF Sound, Typed, Reset, Fields
<1> HIDE DEF t
<1>2. Typed(s) /\ NSelkey \in Nat
  BY NSelkeyType DEF Sound
<1>3. Typed(t)
  BY <1>1, <1>2, Empty DEF Typed, PageState
<1>4. Plain(t)
  BY <1>1, Empty DEF Plain
<1>5. Grouped(t)
  BY <1>1, EmptyPage
<1> QED
  BY <1>1, <1>3, <1>4, <1>5 DEF After, PageKept, Sound, t

\* commit_char().
LEMMA CommitCharAfter ==
  ASSUME NEW s, Sound(s), NEW idx, NEW text
  PROVE  /\ After(s, CommitChar(s, idx, text))
         /\ CommitChar(s, idx, text).commits = s.commits + 1
<1> DEFINE t == CommitChar(s, idx, text)
<1>1. /\ DOMAIN t = Fields
      /\ t.keystroke = <<>> /\ t.mcch = <<>> /\ t.mode = s.mode \ {"MCCH", "INWILD"}
      /\ t.pgstate = "ONEPG"
      /\ t.grouping = s.grouping /\ t.all = s.all /\ t.hidx = s.hidx /\ t.eidx = s.eidx
      /\ t.has_tsi = FALSE /\ t.normal = s.normal /\ t.wild = s.wild
      /\ t.commits = s.commits + 1
  BY SMT DEF Sound, Typed, CommitChar, Fields
<1> HIDE DEF t
<1>2. Typed(s) /\ NSelkey \in Nat
  BY NSelkeyType DEF Sound
<1>3. Typed(t)
  <2>1. s.commits + 1 \in Nat
    BY <1>2, SMT DEF Typed
  <2>2. s.mode \ {"MCCH", "INWILD"} \in SUBSET Marks
    BY <1>2, Zenon DEF Typed
  <2>3. t.has_tsi \in BOOLEAN /\ "ONEPG" \in PageState
    BY <1>1, Zenon DEF PageState
  <2>4. Len(t.mcch) <= NSelkey
    BY <1>1, <1>2, Empty
  <2> QED
    BY <1>1, <1>2, <2>1, <2>2, <2>3, <2>4, Empty, Zenon DEF Typed
<1>4. Plain(t)
  BY <1>1, Empty DEF Plain
<1>5. Grouped(t)
  BY <1>1, EmptyPage
<1> QED
  BY <1>1, <1>3, <1>4, <1>5 DEF After, PageKept, Sound, t

\* The lengths of the candidates of a page,
LEMMA LengthsAre ==
  ASSUME NEW c \in Seq(Cand)
  PROVE  /\ Lengths(c) \in Seq(Nat) /\ Len(Lengths(c)) = Len(c)
         /\ DOMAIN Lengths(c) = 1 .. Len(c)
         /\ \A k \in 1 .. Len(c) : Lengths(c)[k] = Len(c[k])
<1>1. Len(c) \in Nat /\ DOMAIN c = 1 .. Len(c)
  BY LenProperties
<1>2. Lengths(c) = [k \in 1 .. Len(c) |-> Len(c[k])]
  BY <1>1, Zenon DEF Lengths
<1>3. \A k \in 1 .. Len(c) : Len(c[k]) \in Nat
  <2>1. \A k \in 1 .. Len(c) : c[k] \in Seq(Char)
    BY ElementOfSeq DEF Cand
  <2> QED
    BY <2>1, LenProperties
<1>4. \A k \in 1 .. Len(c) : Lengths(c)[k] = Len(c[k])
  BY <1>2, Zenon
<1> DEFINE l(k) == Len(c[k])
<1> HIDE DEF l
<1>5. Lengths(c) = [k \in 1 .. Len(c) |-> l(k)] /\ \A k \in 1 .. Len(c) : l(k) \in Nat
  BY <1>2, <1>3 DEF l
<1>6. /\ Lengths(c) \in Seq(Nat) /\ Len(Lengths(c)) = Len(c)
      /\ DOMAIN Lengths(c) = 1 .. Len(c)
  BY <1>1, <1>5
<1> QED
  BY <1>4, <1>6

\* which are all 1 where there is no phrase.
LEMMA NoPhrase ==
  ASSUME NEW c \in Seq(Cand)
  PROVE  /\ HasTsi(c) \in BOOLEAN
         /\ ~HasTsi(c) => \A k \in 1 .. Len(c) : Len(c[k]) = 1
<1>1. HasTsi(c) \in BOOLEAN
  BY Zenon DEF HasTsi
<1>2. ASSUME ~HasTsi(c), NEW k \in 1 .. Len(c)
      PROVE  Len(c[k]) = 1
  <2>1. c[k] \in Seq(Char) /\ c[k] # <<>>
    BY ElementOfSeq DEF Cand
  <2>2. Len(c[k]) \in Nat \ {0}
    BY <2>1, EmptySeq
  <2>3. DOMAIN c = 1 .. Len(c)
    BY LenProperties
  <2>4. ~(Len(c[k]) > 1)
    BY <1>2, <2>3, Zenon DEF HasTsi
  <2> DEFINE n == Len(c[k])
  <2> HIDE DEF n
  <2>5. n = 1
    <3>1. n \in Nat \ {0} /\ ~(n > 1)
      BY <2>2, <2>4 DEF n
    <3> QED
      BY <3>1, SMT
  <2> QED
    BY <2>5 DEF n
<1> QED
  BY <1>1, <1>2

\* The lower of two numbers.
LEMMA LeastIs ==
  ASSUME NEW a \in Int, NEW b \in Int
  PROVE  /\ Least(a, b) \in Int /\ Least(a, b) <= a /\ Least(a, b) <= b
         /\ Least(a, b) = a \/ Least(a, b) = b
         /\ a <= b => Least(a, b) = a
         /\ b <= a => Least(a, b) = b
BY SMT DEF Least

\* A page of candidates, from the one behind h on.
LEMMA PageOf ==
  ASSUME NEW c \in Seq(Cand), NEW h \in Nat
  PROVE  LET page == SubSeq(c, h + 1, Least(h + NSelkey, Len(c)))
         IN  /\ page \in Seq(Cand) /\ Len(page) \in Nat /\ Len(page) <= NSelkey
             /\ Len(page) = IF h < Len(c) THEN Least(NSelkey, Len(c) - h) ELSE 0
             /\ \A k \in 1 .. Len(page) : page[k] = c[h + k] /\ h + k \in 1 .. Len(c)
<1> DEFINE n == NSelkey
           L == Len(c)
           b == Least(h + n, L)
           page == SubSeq(c, h + 1, b)
<1>1. n \in Nat \ {0} /\ L \in Nat
  BY NSelkeyType, LenProperties
<1> HIDE DEF n, L
<1>2. b \in Int /\ b <= L /\ b <= h + n /\ (b = h + n \/ b = L)
  BY <1>1, SMT DEF Least
<1>3. h + 1 \in Int /\ 1 <= h + 1
  BY SMT
<1> HIDE DEF b
<1>4. /\ page \in Seq(Cand) /\ Len(page) = IF h + 1 <= b THEN (b - (h + 1)) + 1 ELSE 0
      /\ Len(page) \in Nat
      /\ \A k \in 1 .. Len(page) : page[k] = c[((h + 1) + k) - 1] /\ ((h + 1) + k) - 1 \in 1 .. L
  BY <1>2, <1>3, Part DEF L
<1> HIDE DEF page
<1>5. Len(page) <= n
  BY <1>1, <1>2, <1>4, SMT
<1>6. Len(page) = IF h < L THEN Least(n, L - h) ELSE 0
  BY <1>1, <1>2, <1>4, SMT DEF Least
<1>7. \A k \in Nat : ((h + 1) + k) - 1 = h + k
  BY SMT
<1>8. \A k \in 1 .. Len(page) : page[k] = c[h + k] /\ h + k \in 1 .. L
  BY <1>4, <1>7
<1> QED
  BY <1>4, <1>5, <1>6, <1>8 DEF page, b, L, n

----------------------------------------------------------------------------
(* match_keystroke(): what it finds.                                       *)

\* The first page.
LEMMA FirstPage ==
  ASSUME NEW c \in Seq(Cand)
  PROVE  LET page == SubSeq(c, 1, Least(NSelkey, Len(c)))
         IN  /\ page \in Seq(Cand) /\ Len(page) \in Nat /\ Len(page) <= NSelkey
             /\ Len(page) = Least(NSelkey, Len(c))
             /\ \A k \in 1 .. Len(page) : page[k] = c[k] /\ k \in 1 .. Len(c)
<1> DEFINE n == NSelkey
           L == Len(c)
           b == Least(n, L)
           page == SubSeq(c, 1, b)
<1>1. n \in Nat \ {0} /\ L \in Nat
  BY NSelkeyType, LenProperties
<1> HIDE DEF n, L
<1>2. b \in Nat /\ b <= L /\ b <= n
  BY <1>1, SMT DEF Least
<1>3. 1 \in Int /\ 1 <= 1 /\ b \in Int
  BY <1>2
<1> HIDE DEF b
<1>4. /\ page \in Seq(Cand) /\ Len(page) = IF 1 <= b THEN (b - 1) + 1 ELSE 0
      /\ Len(page) \in Nat
      /\ \A k \in 1 .. Len(page) : page[k] = c[(1 + k) - 1] /\ (1 + k) - 1 \in 1 .. L
  BY <1>2, <1>3, Part DEF L
<1> HIDE DEF page
<1>5. Len(page) = b
  BY <1>2, <1>4, SMT
<1>6. \A k \in 1 .. b : (1 + k) - 1 = k
  BY <1>2, SMT
<1>7. \A k \in 1 .. Len(page) : page[k] = c[k] /\ k \in 1 .. L
  BY <1>4, <1>5, <1>6
<1> QED
  BY <1>2, <1>4, <1>5, <1>7 DEF page, b, L, n

\* What match_keystroke_normal() leaves alone and what it sets.
NormalSets(s, t, all, page) ==
    /\ DOMAIN t = Fields
    /\ t.keystroke = s.keystroke /\ t.mode = s.mode /\ t.spot = s.spot
    /\ t.eidx = s.eidx /\ t.wild = s.wild
    /\ t.cch = s.cch /\ t.commits = s.commits
    /\ all = <<>> =>
         /\ t.mcch = s.mcch /\ t.grouping = s.grouping /\ t.pgstate = s.pgstate
         /\ t.all = s.all /\ t.hidx = s.hidx /\ t.has_tsi = s.has_tsi
         /\ t.normal = <<>>
    /\ all # <<>> =>
         /\ t.all = all /\ t.mcch = page /\ t.has_tsi = HasTsi(all)
         /\ t.normal = IF HasTsi(all) THEN Lengths(page) ELSE <<>>
         /\ t.grouping = IF HasTsi(all) THEN "normal" ELSE "none"
         /\ t.pgstate = IF Len(all) > Len(page) THEN "BEGIN" ELSE "ONEPG"
         /\ t.hidx = IF Len(all) > Len(page) THEN 0 ELSE s.hidx

\* It does so.
LEMMA MatchNormalSets ==
  ASSUME NEW s, DOMAIN s = Fields
  PROVE  LET all == Zis(Kept(Places, Exact(s.keystroke)))
         IN  NormalSets(s, MatchNormal(s), all, SubSeq(all, 1, Least(NSelkey, Len(all))))
<1> DEFINE all == Zis(Kept(Places, Exact(s.keystroke)))
           page == SubSeq(all, 1, Least(NSelkey, Len(all)))
<1>1. CASE all = <<>>
  <2>1. MatchNormal(s) = [s EXCEPT !.normal = <<>>]
    BY <1>1, Zenon DEF MatchNormal
  <2> QED
    BY <1>1, <2>1, Zenon DEF Fields, NormalSets
<1>2. CASE all # <<>>
  <2> DEFINE more == Len(all) > Len(page)
             t == [s EXCEPT
                !.all = all, !.has_tsi = HasTsi(all), !.mcch = page,
                !.normal = IF HasTsi(all) THEN Lengths(page) ELSE <<>>,
                !.grouping = IF HasTsi(all) THEN "normal" ELSE "none",
                !.pgstate = IF more THEN "BEGIN" ELSE "ONEPG",
                !.hidx = IF more THEN 0 ELSE @]
  <2>1. MatchNormal(s) = t
    BY <1>2, Zenon DEF MatchNormal
  <2>2. /\ DOMAIN t = Fields
        /\ t.keystroke = s.keystroke /\ t.mode = s.mode /\ t.spot = s.spot
        /\ t.eidx = s.eidx /\ t.wild = s.wild
        /\ t.cch = s.cch /\ t.commits = s.commits
        /\ t.all = all /\ t.mcch = page /\ t.has_tsi = HasTsi(all)
        /\ t.normal = IF HasTsi(all) THEN Lengths(page) ELSE <<>>
        /\ t.grouping = IF HasTsi(all) THEN "normal" ELSE "none"
        /\ t.pgstate = IF Len(all) > Len(page) THEN "BEGIN" ELSE "ONEPG"
        /\ t.hidx = IF Len(all) > Len(page) THEN 0 ELSE s.hidx
    BY Zenon DEF Fields
  <2> QED
    BY <1>2, <2>1, <2>2, Zenon DEF NormalSets
<1> QED
  BY <1>1, <1>2, Zenon

\* A search finds places of the table, whichever way it goes.
LEMMA HitsAre ==
  ASSUME NEW s, NEW head, NEW dir
  PROVE  AtPlaces(Hits(s, head, dir))
<1>1. \A S : AtPlaces(Kept(Places, S))
  BY KeptInOrder, InOrderAtPlaces
<1>2. ASSUME NEW S
      PROVE  AtPlaces(Kept(Reverse(Places), S))
  <2>1. Reverse(Places) \in Seq(Nat) /\ \A x : Has(Reverse(Places), x) <=> x \in Place
    BY PlacesBack
  <2>2. /\ Kept(Reverse(Places), S) \in Seq(Nat)
        /\ \A x : Has(Kept(Reverse(Places), S), x) <=> (Has(Reverse(Places), x) /\ x \in S)
    BY <2>1, KeptHas
  <2> DEFINE q == Kept(Reverse(Places), S)
  <2>3. \A k \in 1 .. Len(q) : Has(q, q[k])
    BY Zenon DEF Has
  <2> QED
    BY <2>1, <2>2, <2>3, Zenon DEF AtPlaces
<1> QED
  BY <1>1, <1>2, Zenon DEF Hits

\* pick_cch_wild() picks the first ones, as many as there are selection keys.
LEMMA PickIs ==
  ASSUME NEW s, NEW head \in Int, NEW dir, NEW run, run = Hits(s, head, dir),
         NEW m, m = Least(NSelkey, Len(run)), NEW pick, pick = PickWild(s, head, dir)
  PROVE  /\ m \in Nat /\ m <= NSelkey /\ m <= Len(run)
         /\ pick.idxs = SubSeq(run, 1, m) /\ Len(pick.idxs) = m
         /\ pick.more <=> Len(run) > NSelkey
         /\ pick.cands = SubSeq(Zis(run), 1, m)
         /\ pick.cands \in Seq(Cand) /\ Len(pick.cands) = m
         /\ pick.last \in Int
         /\ m = 0 => pick.last = head
         /\ m # 0 => pick.last = run[m]
<1> DEFINE idxs == SubSeq(run, 1, m)
<1>1. AtPlaces(run) /\ run \in Seq(Nat)
  BY HitsAre DEF AtPlaces
<1>2. NSelkey \in Nat /\ Len(run) \in Nat
  BY <1>1, NSelkeyType, LenProperties
<1>3. m \in Nat /\ m <= NSelkey /\ m <= Len(run)
  <2>1. NSelkey \in Int /\ Len(run) \in Int
    BY <1>2
  <2>2. m <= NSelkey /\ m <= Len(run) /\ (m = NSelkey \/ m = Len(run))
    BY <2>1, LeastIs
  <2> QED
    BY <1>2, <2>2
<1>4. /\ pick.idxs = idxs
      /\ pick.more <=> Len(run) > NSelkey
      /\ pick.cands = Zis(idxs)
      /\ pick.last = IF idxs = <<>> THEN head ELSE idxs[Len(idxs)]
  BY Zenon DEF PickWild, Picked
<1>5. Zis(idxs) = SubSeq(Zis(run), 1, m) /\ AtPlaces(idxs)
  <2>1. 1 \in Int /\ m \in Int /\ 1 <= 1
    BY <1>3
  <2> QED
    BY <1>1, <1>3, <2>1, ZisPart
<1>6. /\ idxs \in Seq(Nat) /\ Len(idxs) = IF 1 <= m THEN (m - 1) + 1 ELSE 0
      /\ \A k \in 1 .. Len(idxs) : idxs[k] = run[(1 + k) - 1]
  <2>1. 1 \in Int /\ m \in Int /\ 1 <= 1
    BY <1>3
  <2> QED
    BY <1>1, <1>3, <2>1, Part
<1>7. Zis(idxs) \in Seq(Cand) /\ Len(Zis(idxs)) = Len(idxs)
  BY <1>5, ZisAre
<1> HIDE DEF idxs
<1>8. Len(idxs) = m
  BY <1>3, <1>6, SMT
<1>9. m = 0 => idxs = <<>>
  BY <1>6, <1>8, EmptySeq
<1>10. m # 0 => idxs # <<>> /\ idxs[Len(idxs)] = run[m]
  <2>1. SUFFICES ASSUME m # 0 PROVE idxs # <<>> /\ idxs[Len(idxs)] = run[m]
    OBVIOUS
  <2>2. m \in 1 .. m /\ (1 + m) - 1 = m
    BY <1>3, <2>1, SMT
  <2>3. idxs[m] = run[m]
    BY <1>6, <1>8, <2>2
  <2>4. idxs # <<>>
    BY <1>8, <2>1, EmptySeq
  <2> QED
    BY <1>8, <2>3, <2>4
<1>11. pick.last \in Int
  <2>1. m # 0 => run[m] \in Nat
    <3>1. m # 0 => m \in 1 .. Len(run)
      BY <1>2, <1>3, SMT
    <3> QED
      BY <1>1, <3>1, ElementOfSeq
  <2>2. pick.last = head \/ (m # 0 /\ pick.last = run[m])
    BY <1>4, <1>9, <1>10
  <2> QED
    BY <2>1, <2>2
<1>12. /\ m = 0 => pick.last = head
       /\ m # 0 => pick.last = run[m]
  BY <1>4, <1>9, <1>10, Zenon
<1>13. /\ pick.cands = SubSeq(Zis(run), 1, m)
       /\ pick.cands \in Seq(Cand) /\ Len(pick.cands) = m
       /\ pick.idxs = idxs /\ Len(pick.idxs) = m
  <2>1. pick.cands = Zis(idxs) /\ pick.idxs = idxs
    BY <1>4, Zenon
  <2> QED
    BY <2>1, <1>5, <1>7, <1>8
<1> QED
  BY <1>3, <1>4, <1>11, <1>12, <1>13, Zenon DEF idxs

\* The same of what is picked from a run of m.
PickedOf(pick, run, m) ==
    /\ m \in Nat /\ m <= NSelkey /\ m <= Len(run)
    /\ pick.more <=> Len(run) > NSelkey
    /\ pick.cands = SubSeq(Zis(run), 1, m)
    /\ pick.cands \in Seq(Cand) /\ Len(pick.cands) = m
    /\ pick.last \in Int
    /\ m # 0 => pick.last = run[m]

\* It is so of every search.
LEMMA PickedIs ==
  ASSUME NEW s, NEW head \in Int, NEW dir
  PROVE  PickedOf(PickWild(s, head, dir), Hits(s, head, dir),
                  Least(NSelkey, Len(Hits(s, head, dir))))
<1> DEFINE run  == Hits(s, head, dir)
           m    == Least(NSelkey, Len(run))
           pick == PickWild(s, head, dir)
<1>1. run = Hits(s, head, dir) /\ m = Least(NSelkey, Len(run)) /\ pick = PickWild(s, head, dir)
  OBVIOUS
<1> HIDE DEF run, m, pick
<1>2. PickedOf(pick, run, m)
  BY <1>1, PickIs DEF PickedOf
<1> QED
  BY <1>1, <1>2, Zenon

\* What match_keystroke_wild() leaves alone and what it sets.
LEMMA MatchWildSets ==
  ASSUME NEW s, DOMAIN s = Fields,
         NEW head, head = LowerBound(SubSeq(s.keystroke, 1, NextWild(s.keystroke, 1) - 1)),
         NEW pick, pick = PickWild(s, head, 1)
  PROVE  LET t == MatchWild(s)
         IN  /\ DOMAIN t = Fields
             /\ t.keystroke = s.keystroke /\ t.mode = s.mode /\ t.spot = s.spot
             /\ t.normal = s.normal /\ t.wild = s.wild
             /\ t.cch = s.cch /\ t.commits = s.commits
             /\ t.all = pick.cands /\ t.mcch = pick.cands
             /\ t.has_tsi = HasTsi(pick.cands)
             /\ t.grouping = IF HasTsi(pick.cands) THEN "own" ELSE "none"
             /\ t.pgstate = IF pick.more THEN "BEGIN" ELSE "ONEPG"
             /\ t.hidx = head /\ t.eidx = pick.last
<1> DEFINE t == [s EXCEPT
             !.hidx = head, !.eidx = pick.last, !.mkeys = pick.idxs,
             !.all = pick.cands, !.mcch = pick.cands,
             !.has_tsi = HasTsi(pick.cands),
             !.grouping = IF HasTsi(pick.cands) THEN "own" ELSE "none",
             !.pgstate = IF pick.more THEN "BEGIN" ELSE "ONEPG"]
<1>1. MatchWild(s) = t
  BY Zenon DEF MatchWild
<1>2. /\ DOMAIN t = Fields
      /\ t.keystroke = s.keystroke /\ t.mode = s.mode /\ t.spot = s.spot
      /\ t.normal = s.normal /\ t.wild = s.wild
      /\ t.cch = s.cch /\ t.commits = s.commits
      /\ t.all = pick.cands /\ t.mcch = pick.cands
      /\ t.has_tsi = HasTsi(pick.cands)
      /\ t.grouping = IF HasTsi(pick.cands) THEN "own" ELSE "none"
      /\ t.pgstate = IF pick.more THEN "BEGIN" ELSE "ONEPG"
      /\ t.hidx = head /\ t.eidx = pick.last
  BY Zenon DEF Fields
<1> QED
  BY <1>1, <1>2, Zenon

\* A page that match_keystroke_normal() shows is sound,
LEMMA MatchNormalAfter ==
  ASSUME NEW s, Sound(s), s.mcch = <<>>
  PROVE  Sound(MatchNormal(s)) /\ Grouped(MatchNormal(s))
<1> DEFINE all  == Zis(Kept(Places, Exact(s.keystroke)))
           page == SubSeq(all, 1, Least(NSelkey, Len(all)))
           t    == MatchNormal(s)
<1>1. Typed(s) /\ Plain(s) /\ DOMAIN s = Fields
  BY Zenon DEF Sound, Typed
<1>2. all \in Seq(Cand)
  BY KeptInOrder, InOrderAtPlaces, ZisAre
<1>3. /\ page \in Seq(Cand) /\ Len(page) <= NSelkey
      /\ \A k \in 1 .. Len(page) : page[k] = all[k] /\ k \in 1 .. Len(all)
  BY <1>2, FirstPage
<1>4. NormalSets(s, t, all, page)
  BY <1>1, MatchNormalSets
<1> HIDE DEF all, page, t
<1>5. HasTsi(all) \in BOOLEAN /\ (~HasTsi(all) => \A k \in 1 .. Len(all) : Len(all[k]) = 1)
  BY <1>2, NoPhrase
<1>7. /\ Lengths(page) \in Seq(Nat) /\ DOMAIN Lengths(page) = 1 .. Len(page)
      /\ \A k \in 1 .. Len(page) : Lengths(page)[k] = Len(page[k])
  BY <1>3, LengthsAre
<1>8. CASE all = <<>>
  <2>1. Typed(t)
    BY <1>1, <1>4, <1>8, Empty, Zenon DEF Typed, NormalSets
  <2>2. Plain(t)
    BY <1>1, <1>4, <1>8, Zenon DEF Plain, NormalSets
  <2>3. Grouped(t)
    BY <1>4, <1>8, EmptyPage DEF NormalSets
  <2> QED
    BY <2>1, <2>2, <2>3 DEF Sound, t
<1>9. CASE all # <<>>
  <2>0. /\ DOMAIN t = Fields
        /\ t.keystroke = s.keystroke /\ t.mode = s.mode
        /\ t.eidx = s.eidx /\ t.wild = s.wild /\ t.commits = s.commits
        /\ t.all = all /\ t.mcch = page /\ t.has_tsi = HasTsi(all)
        /\ t.normal = IF HasTsi(all) THEN Lengths(page) ELSE <<>>
        /\ t.grouping = IF HasTsi(all) THEN "normal" ELSE "none"
        /\ t.pgstate = IF Len(all) > Len(page) THEN "BEGIN" ELSE "ONEPG"
        /\ t.hidx = IF Len(all) > Len(page) THEN 0 ELSE s.hidx
    BY <1>4, <1>9, Zenon DEF NormalSets
  <2>1. Typed(t)
    <3>1. t.hidx \in Int
      BY <1>1, <2>0 DEF Typed
    <3>2. t.pgstate \in PageState
      BY <2>0, Zenon DEF PageState
    <3>3. t.grouping \in {"none", "normal", "own", "wild"}
      BY <2>0, Zenon
    <3>4. t.normal \in Seq(Nat)
      BY <2>0, <1>7, Empty, Zenon
    <3>5. t.has_tsi \in BOOLEAN
      BY <2>0, <1>5, Zenon
    <3> QED
      BY <1>1, <1>2, <1>3, <2>0, <3>1, <3>2, <3>3, <3>4, <3>5, Zenon DEF Typed
  <2>2. Plain(t)
    BY <2>0, <1>5, <1>3, Zenon DEF Plain
  <2>3. Grouped(t)
    <3>1. CASE HasTsi(all)
      <4>1. t.grouping = "normal" /\ t.normal = Lengths(page)
        BY <2>0, <3>1, Zenon
      <4>2. \A k \in 1 .. Len(page) : Grouping(t, k) = Len(page[k])
        BY <1>7, <4>1 DEF Grouping
      <4> QED
        BY <2>0, <4>1, <4>2 DEF Grouped
    <3>2. CASE ~HasTsi(all)
      BY <2>0, <1>5, <1>3, <3>2 DEF Grouped
    <3> QED
      BY <3>1, <3>2
  <2> QED
    BY <2>1, <2>2, <2>3 DEF Sound, t
<1> QED
  BY <1>8, <1>9

\* and so is one of match_keystroke_wild().
LEMMA MatchWildAfter ==
  ASSUME NEW s, Sound(s), "INWILD" \in s.mode
  PROVE  Sound(MatchWild(s)) /\ Grouped(MatchWild(s))
<1> DEFINE head == LowerBound(SubSeq(s.keystroke, 1, NextWild(s.keystroke, 1) - 1))
           pick == PickWild(s, head, 1)
           t    == MatchWild(s)
           c    == pick.cands
<1>1. Typed(s) /\ DOMAIN s = Fields
  BY Zenon DEF Sound, Typed
<1>2. head \in Int
  BY LowerBoundIs, EntryType
<1>3. c \in Seq(Cand) /\ Len(c) <= NSelkey /\ pick.last \in Int
  BY <1>2, PickIs
<1>4. /\ DOMAIN t = Fields
      /\ t.keystroke = s.keystroke /\ t.mode = s.mode /\ t.spot = s.spot
      /\ t.normal = s.normal /\ t.wild = s.wild
      /\ t.cch = s.cch /\ t.commits = s.commits
      /\ t.all = c /\ t.mcch = c
      /\ t.has_tsi = HasTsi(c)
      /\ t.grouping = IF HasTsi(c) THEN "own" ELSE "none"
      /\ t.pgstate = IF pick.more THEN "BEGIN" ELSE "ONEPG"
      /\ t.hidx = head /\ t.eidx = pick.last
  BY <1>1, MatchWildSets
<1> HIDE DEF head, pick, t, c
<1>5. HasTsi(c) \in BOOLEAN /\ (~HasTsi(c) => \A k \in 1 .. Len(c) : Len(c[k]) = 1)
  BY <1>3, NoPhrase
<1>6. /\ DOMAIN Lengths(c) = 1 .. Len(c)
      /\ \A k \in 1 .. Len(c) : Lengths(c)[k] = Len(c[k])
  BY <1>3, LengthsAre
<1>7. Typed(t)
  <2>1. t.pgstate \in PageState
    BY <1>4, Zenon DEF PageState
  <2>2. t.grouping \in {"none", "normal", "own", "wild"}
    BY <1>4, Zenon
  <2>3. t.has_tsi \in BOOLEAN
    BY <1>4, <1>5, Zenon
  <2> QED
    BY <1>1, <1>2, <1>3, <1>4, <2>1, <2>2, <2>3, Zenon DEF Typed
<1>8. Plain(t)
  BY <1>4, <1>5, Zenon DEF Plain
<1>9. Grouped(t)
  <2>1. CASE HasTsi(c)
    <3>1. t.grouping = "own"
      BY <1>4, <2>1, Zenon
    <3>2. \A k \in 1 .. Len(c) : Grouping(t, k) = Len(c[k])
      BY <1>4, <1>6, <3>1 DEF Grouping
    <3> QED
      BY <1>4, <3>1, <3>2 DEF Grouped
  <2>2. CASE ~HasTsi(c)
    BY <1>4, <1>5, <2>2 DEF Grouped
  <2> QED
    BY <2>1, <2>2
<1> QED
  BY <1>7, <1>8, <1>9 DEF Sound, t

\* Worlds that differ in the marks and the windows only.
SameButMarks(s, t) ==
    /\ DOMAIN t = Fields
    /\ t.mode \in SUBSET Marks /\ ("INWILD" \in t.mode <=> "INWILD" \in s.mode)
    /\ t.keystroke = s.keystroke /\ t.mcch = s.mcch /\ t.grouping = s.grouping
    /\ t.pgstate = s.pgstate /\ t.all = s.all /\ t.hidx = s.hidx /\ t.eidx = s.eidx
    /\ t.has_tsi = s.has_tsi /\ t.normal = s.normal /\ t.wild = s.wild
    /\ t.cch = s.cch /\ t.commits = s.commits

\* They are as sound as each other.
LEMMA MarksAfter ==
  ASSUME NEW s, NEW t, Sound(s), SameButMarks(s, t)
  PROVE  After(s, t)
<1>1. Typed(s) /\ Plain(s)
  BY DEF Sound
<1>2. Typed(t)
  BY <1>1, Zenon DEF Typed, SameButMarks
<1>3. Plain(t)
  BY <1>1, Zenon DEF Plain, SameButMarks
<1>4. PageKept(s, t)
  BY Zenon DEF PageKept, Unturned, SameButMarks
<1> QED
  BY <1>2, <1>3, <1>4, Zenon DEF After, Sound, SameButMarks

\* Marks come and go,
LEMMA MarkSets ==
  ASSUME NEW s, DOMAIN s = Fields, s.mode \in SUBSET Marks, NEW m \in SUBSET Marks,
         "INWILD" \in m <=> "INWILD" \in s.mode
  PROVE  SameButMarks(s, [s EXCEPT !.mode = m])
<1> DEFINE t == [s EXCEPT !.mode = m]
<1>1. /\ DOMAIN t = Fields /\ t.mode = m
      /\ t.keystroke = s.keystroke /\ t.mcch = s.mcch /\ t.grouping = s.grouping
      /\ t.pgstate = s.pgstate /\ t.all = s.all /\ t.hidx = s.hidx /\ t.eidx = s.eidx
      /\ t.has_tsi = s.has_tsi /\ t.normal = s.normal /\ t.wild = s.wild
      /\ t.cch = s.cch /\ t.commits = s.commits
  BY Zenon DEF Fields
<1> HIDE DEF t
<1> QED
  BY <1>1, Zenon DEF SameButMarks, t

\* the page is cleared,
LEMMA ClearedAfter ==
  ASSUME NEW s, Sound(s)
  PROVE  LET t == [s EXCEPT !.mcch = <<>>]
         IN  /\ Sound(t) /\ t.mcch = <<>> /\ t.keystroke = s.keystroke /\ t.mode = s.mode
             /\ t.spot = s.spot /\ t.cch = s.cch /\ t.commits = s.commits
<1> DEFINE t == [s EXCEPT !.mcch = <<>>]
<1>1. Typed(s) /\ Plain(s) /\ DOMAIN s = Fields /\ NSelkey \in Nat
  BY NSelkeyType, Zenon DEF Sound, Typed
<1>2. /\ DOMAIN t = Fields /\ t.mcch = <<>>
      /\ t.keystroke = s.keystroke /\ t.mode = s.mode /\ t.spot = s.spot
      /\ t.grouping = s.grouping
      /\ t.pgstate = s.pgstate /\ t.all = s.all /\ t.hidx = s.hidx /\ t.eidx = s.eidx
      /\ t.has_tsi = s.has_tsi /\ t.normal = s.normal /\ t.wild = s.wild
      /\ t.cch = s.cch /\ t.commits = s.commits
  BY <1>1, Zenon DEF Fields
<1> HIDE DEF t
<1>3. Typed(t)
  <2>1. Len(t.mcch) <= NSelkey /\ t.mcch \in Seq(Cand)
    BY <1>1, <1>2, Empty
  <2> QED
    BY <1>1, <1>2, <2>1, Zenon DEF Typed
<1>4. Plain(t)
  <2>1. Len(t.mcch) = 0
    BY <1>2, Empty
  <2>2. 1 .. 0 = {}
    OBVIOUS
  <2> QED
    BY <1>1, <1>2, <2>1, <2>2, Zenon DEF Plain
<1> QED
  BY <1>2, <1>3, <1>4, Zenon DEF Sound, t

\* and a search shows a page anew, for the same keystroke.
LEMMA SeveralSets ==
  ASSUME NEW s, Sound(s)
  PROVE  SameButMarks(s, Several(s)) /\ Several(s).spot = s.spot
         /\ ("MCCH" \in Several(s).mode <=> "MCCH" \in s.mode)
<1>1. DOMAIN s = Fields /\ s.mode \in SUBSET Marks
  BY Zenon DEF Sound, Typed
<1>2. Several(s) = s \/ Several(s) = [s EXCEPT !.mode = s.mode \ {"SPACE"}]
  BY Zenon DEF Several
<1>3. SameButMarks(s, s)
  BY <1>1, Zenon DEF SameButMarks
<1>4. SameButMarks(s, [s EXCEPT !.mode = s.mode \ {"SPACE"}])
  <2>1. s.mode \ {"SPACE"} \in SUBSET Marks /\ ("INWILD" \in s.mode \ {"SPACE"} <=> "INWILD" \in s.mode)
    BY <1>1, Zenon
  <2> QED
    BY <1>1, <2>1, MarkSets
<1>5. /\ [s EXCEPT !.mode = s.mode \ {"SPACE"}].spot = s.spot
      /\ [s EXCEPT !.mode = s.mode \ {"SPACE"}].mode = s.mode \ {"SPACE"}
  BY <1>1, Zenon DEF Fields
<1>6. "MCCH" \in s.mode \ {"SPACE"} <=> "MCCH" \in s.mode
  BY Zenon
<1> QED
  BY <1>2, <1>3, <1>4, <1>5, <1>6, Zenon

\* What a search leaves as it was.
Searched(s, t) ==
    /\ t.keystroke = s.keystroke /\ t.spot = s.spot /\ t.cch = s.cch /\ t.commits = s.commits
    /\ "INWILD" \in t.mode <=> "INWILD" \in s.mode
    /\ "MCCH" \in t.mode <=> "MCCH" \in s.mode

\* match_keystroke().
LEMMA MatchAfter ==
  ASSUME NEW s, Sound(s)
  PROVE  Sound(Match(s)) /\ Grouped(Match(s)) /\ Searched(s, Match(s))
<1> DEFINE c == [s EXCEPT !.mcch = <<>>]
           e == MatchEither(c)
           t == Match(s)
<1>1. /\ Sound(c) /\ c.mcch = <<>> /\ c.keystroke = s.keystroke /\ c.mode = s.mode
      /\ c.spot = s.spot /\ c.cch = s.cch /\ c.commits = s.commits
  BY ClearedAfter
<1>2. t = Several(e)
  BY Zenon DEF Match
<1> HIDE DEF c, t
<1>3. DOMAIN c = Fields
  BY <1>1, Zenon DEF Sound, Typed
<1>4. /\ Sound(e) /\ Grouped(e)
      /\ e.keystroke = c.keystroke /\ e.mode = c.mode /\ e.spot = c.spot
      /\ e.cch = c.cch /\ e.commits = c.commits
  <2>1. CASE "INWILD" \in c.mode
    <3>1. e = MatchWild(c)
      BY <2>1, Zenon DEF MatchEither
    <3>2. Sound(e) /\ Grouped(e)
      BY <1>1, <2>1, <3>1, MatchWildAfter
    <3>3. /\ MatchWild(c).keystroke = c.keystroke /\ MatchWild(c).mode = c.mode
          /\ MatchWild(c).spot = c.spot
          /\ MatchWild(c).cch = c.cch /\ MatchWild(c).commits = c.commits
      BY <1>3, MatchWildSets
    <3> QED
      BY <3>1, <3>2, <3>3, Zenon
  <2>2. CASE "INWILD" \notin c.mode
    <3>1. e = MatchNormal(c)
      BY <2>2, Zenon DEF MatchEither
    <3>2. Sound(e) /\ Grouped(e)
      BY <1>1, <3>1, MatchNormalAfter
    <3>3. /\ MatchNormal(c).keystroke = c.keystroke /\ MatchNormal(c).mode = c.mode
          /\ MatchNormal(c).spot = c.spot
          /\ MatchNormal(c).cch = c.cch /\ MatchNormal(c).commits = c.commits
      BY <1>3, MatchNormalSets, Zenon DEF NormalSets
    <3> QED
      BY <3>1, <3>2, <3>3, Zenon
  <2> QED
    BY <2>1, <2>2
<1> HIDE DEF e
<1>5. /\ SameButMarks(e, t) /\ t.spot = e.spot
      /\ "MCCH" \in t.mode <=> "MCCH" \in e.mode
  BY <1>2, <1>4, SeveralSets
<1>6. After(e, t)
  BY <1>4, <1>5, MarksAfter
<1>7. Sound(t) /\ Grouped(t)
  BY <1>4, <1>6, UnturnedGrouped, Zenon DEF After, PageKept
<1>8. Searched(s, t)
  BY <1>1, <1>4, <1>5, Zenon DEF Searched, SameButMarks
<1> QED
  BY <1>7, <1>8 DEF t

----------------------------------------------------------------------------
(* What the handlers make of a world, whatever the options are.            *)

Flags == {"COMMIT", "IGNORE", "SHIFTESC", "CTRLPHR"}
Outcome(s, r) == After(s, r.s) /\ r.ret \in SUBSET Flags

\* An outcome is a world and the flags of the answer.
LEMMA OutcomeOf ==
  ASSUME NEW s, NEW t, After(s, t), NEW f \in SUBSET Flags
  PROVE  Outcome(s, [s |-> t, ret |-> f])
<1>1. [s |-> t, ret |-> f].s = t /\ [s |-> t, ret |-> f].ret = f
  OBVIOUS
<1> QED
  BY <1>1, Zenon DEF Outcome

\* The answers there are.
LEMMA FlagSets ==
  /\ {} \in SUBSET Flags /\ {"COMMIT"} \in SUBSET Flags /\ {"IGNORE"} \in SUBSET Flags
  /\ {"SHIFTESC"} \in SUBSET Flags /\ {"CTRLPHR"} \in SUBSET Flags
BY Zenon DEF Flags

\* Nothing happens,
LEMMA StaysAfter ==
  ASSUME NEW s, Sound(s)
  PROVE  After(s, s)
BY Zenon DEF After, PageKept, Unturned

\* or it happens after a search,
LEMMA AfterSearch ==
  ASSUME NEW s, NEW m, NEW t, Searched(s, m), Grouped(m), After(m, t)
  PROVE  After(s, t)
<1>1. PageKept(s, t)
  BY UnturnedGrouped, Zenon DEF After, PageKept
<1> QED
  BY <1>1, Zenon DEF After, Searched

\* or it is a reset at the end.
LEMMA ResetLater ==
  ASSUME NEW s, NEW t, After(s, t)
  PROVE  After(s, Reset(t)) /\ Reset(t).commits = t.commits /\ Reset(t).keystroke = <<>>
<1>1. Sound(t) /\ DOMAIN t = Fields
  BY Zenon DEF After, Sound, Typed
<1>2. After(t, Reset(t)) /\ Reset(t).commits = t.commits
  BY <1>1, ResetAfter
<1>3. Reset(t).keystroke = <<>>
  BY <1>1, Zenon DEF Reset, Fields
<1> QED
  BY <1>1, <1>2, <1>3, PageKeptThen, Zenon DEF After

\* A keystroke that is wrong.
LEMMA WrongAfter ==
  ASSUME NEW s, Sound(s)
  PROVE  After(s, Wrong(s)) /\ Wrong(s).commits = s.commits
<1>1. DOMAIN s = Fields /\ s.mode \in SUBSET Marks
  BY Zenon DEF Sound, Typed
<1>2. CASE On("AUTORESET")
  <2>1. Wrong(s) = Reset(s)
    BY <1>2, Zenon DEF Wrong
  <2> QED
    BY <2>1, ResetAfter
<1>3. CASE ~On("AUTORESET")
  <2> DEFINE m == s.mode \cup {"WRONG"}
  <2>1. Wrong(s) = [s EXCEPT !.mode = m]
    BY <1>3, Zenon DEF Wrong
  <2>2. m \in SUBSET Marks /\ ("INWILD" \in m <=> "INWILD" \in s.mode)
    BY <1>1, Zenon DEF Marks
  <2> HIDE DEF m
  <2>3. SameButMarks(s, Wrong(s))
    BY <1>1, <2>1, <2>2, MarkSets
  <2> QED
    BY <2>3, MarksAfter, Zenon DEF SameButMarks
<1> QED
  BY <1>2, <1>3

\* The end of commit_keystroke(), after a search,
LEMMA CommitMatchOut ==
  ASSUME NEW m, Sound(m)
  PROVE  Outcome(m, CommitMatch(m))
<1>1. CASE m.mcch = <<>>
  <2>1. CommitMatch(m) = [s |-> Wrong(m), ret |-> {}]
    BY <1>1, Zenon DEF CommitMatch
  <2>2. After(m, Wrong(m))
    BY WrongAfter
  <2> QED
    BY <2>1, <2>2, OutcomeOf, FlagSets
<1>2. CASE m.mcch # <<>> /\ Len(m.all) = 1
  <2> DEFINE t == CommitChar(m, 0, TextAt(m, 0, 0))
  <2>1. CommitMatch(m) = [s |-> t, ret |-> {"COMMIT"}]
    BY <1>2, Zenon DEF CommitMatch
  <2>2. After(m, t)
    BY CommitCharAfter
  <2> HIDE DEF t
  <2> QED
    BY <2>1, <2>2, OutcomeOf, FlagSets
<1>3. CASE m.mcch # <<>> /\ Len(m.all) # 1
  <2> DEFINE t == [m EXCEPT !.mode = @ \cup {"MCCH"}, !.spot = TRUE]
  <2>1. CommitMatch(m) = [s |-> t, ret |-> {}]
    BY <1>3, Zenon DEF CommitMatch
  <2>2. DOMAIN m = Fields /\ m.mode \in SUBSET Marks
    BY Zenon DEF Sound, Typed
  <2>3. /\ DOMAIN t = Fields /\ t.mode = m.mode \cup {"MCCH"}
        /\ t.keystroke = m.keystroke /\ t.mcch = m.mcch /\ t.grouping = m.grouping
        /\ t.pgstate = m.pgstate /\ t.all = m.all /\ t.hidx = m.hidx /\ t.eidx = m.eidx
        /\ t.has_tsi = m.has_tsi /\ t.normal = m.normal /\ t.wild = m.wild
        /\ t.cch = m.cch /\ t.commits = m.commits
    BY <2>2, Zenon DEF Fields
  <2> HIDE DEF t
  <2>4. t.mode \in SUBSET Marks /\ ("INWILD" \in t.mode <=> "INWILD" \in m.mode)
    BY <2>2, <2>3, Zenon DEF Marks
  <2>5. SameButMarks(m, t)
    BY <2>3, <2>4, Zenon DEF SameButMarks
  <2>6. After(m, t)
    BY <2>5, MarksAfter
  <2> QED
    BY <2>1, <2>6, OutcomeOf, FlagSets
<1> QED
  BY <1>1, <1>2, <1>3

\* and commit_keystroke() itself.
LEMMA CommitKeystrokeOut ==
  ASSUME NEW s, Sound(s)
  PROVE  Outcome(s, CommitKeystroke(s))
<1> DEFINE remap == {k \in DOMAIN Kremap : Kremap[k].ks = s.keystroke}
           r     == CHOOSE k \in remap : \A h \in remap : k <= h
<1>1. CASE remap # {}
  <2> DEFINE t == CommitChar(s, r - 1, RemapText(s, r - 1))
  <2>1. CommitKeystroke(s) = [s |-> t, ret |-> {"COMMIT"}]
    BY <1>1, Zenon DEF CommitKeystroke
  <2>2. After(s, t)
    BY CommitCharAfter
  <2> HIDE DEF t
  <2> QED
    BY <2>1, <2>2, OutcomeOf, FlagSets
<1>2. CASE remap = {}
  <2> DEFINE m == Match(s)
  <2>1. CommitKeystroke(s) = CommitMatch(m)
    BY <1>2, Zenon DEF CommitKeystroke
  <2>2. Sound(m) /\ Grouped(m) /\ Searched(s, m)
    BY MatchAfter
  <2> HIDE DEF m
  <2>3. Outcome(m, CommitMatch(m))
    BY <2>2, CommitMatchOut
  <2>4. After(s, CommitMatch(m).s)
    BY <2>2, <2>3, AfterSearch DEF Outcome
  <2> QED
    BY <2>1, <2>3, <2>4, Zenon DEF Outcome
<1> QED
  BY <1>1, <1>2

\* mcch_choosech(),
LEMMA ChooseAfter ==
  ASSUME NEW s, Sound(s), NEW idx
  PROVE  After(s, Choose(s, idx).s)
<1>1. ASSUME NEW m, Sound(m)
      PROVE  After(m, ChooseIn(m, idx).s)
  <2>1. \E k, text : ChooseIn(m, idx).s = m \/ ChooseIn(m, idx).s = Reset(CommitChar(m, k, text))
    BY Zenon DEF ChooseIn
  <2>2. PICK k, text : ChooseIn(m, idx).s = m \/ ChooseIn(m, idx).s = Reset(CommitChar(m, k, text))
    BY <2>1
  <2>3. After(m, m)
    BY <1>1, StaysAfter
  <2>4. After(m, CommitChar(m, k, text))
    BY <1>1, CommitCharAfter
  <2>5. After(m, Reset(CommitChar(m, k, text)))
    BY <2>4, ResetLater
  <2> QED
    BY <2>2, <2>3, <2>5
<1>2. CASE s.mcch = <<>>
  <2>1. Choose(s, idx) = ChooseIn(Match(s), idx)
    BY <1>2, Zenon DEF Choose
  <2>2. Sound(Match(s)) /\ Grouped(Match(s)) /\ Searched(s, Match(s))
    BY MatchAfter
  <2>3. After(Match(s), ChooseIn(Match(s), idx).s)
    BY <1>1, <2>2
  <2> QED
    BY <2>1, <2>2, <2>3, AfterSearch
<1>3. CASE s.mcch # <<>>
  <2>1. Choose(s, idx) = ChooseIn(s, idx)
    BY <1>3, Zenon DEF Choose
  <2> QED
    BY <1>1, <2>1
<1> QED
  BY <1>2, <1>3

\* for a selection key.
LEMMA SelectOut ==
  ASSUME NEW s, Sound(s), NEW idx
  PROVE  Outcome(s, Select(s, idx))
<1>1. After(s, Choose(s, idx).s)
  BY ChooseAfter
<1>2. Select(s, idx).s = Choose(s, idx).s /\ Select(s, idx).ret \in SUBSET Flags
  BY Zenon DEF Select, Chosen, Flags
<1> QED
  BY <1>1, <1>2, Zenon DEF Outcome

----------------------------------------------------------------------------
(* Turning pages.                                                          *)

\* The first candidate of the page that fillpage() turns to.
FillAt(s, dir) == CASE dir = 0 -> 0
                    [] dir = 1 -> s.hidx + NSelkey
                    [] OTHER   -> s.hidx - NSelkey
Stopped(s, dir) == (dir = 1 /\ FillAt(s, dir) >= Len(s.all)) \/ FillAt(s, dir) < 0

\* What fillpage() leaves alone and what it sets, without wild cards.
FillSets(s, t, h, page) ==
    /\ DOMAIN t = Fields
    /\ t.keystroke = s.keystroke /\ t.mode = s.mode /\ t.spot = s.spot
    /\ t.grouping = s.grouping /\ t.all = s.all /\ t.eidx = s.eidx
    /\ t.has_tsi = s.has_tsi /\ t.wild = s.wild
    /\ t.cch = s.cch /\ t.commits = s.commits
    /\ t.hidx = h /\ t.mcch = page
    /\ t.normal = IF s.has_tsi
                    THEN Lengths(page) \o SubSeq(s.normal, Len(page) + 1, Len(s.normal))
                    ELSE s.normal
    /\ h = 0 => t.pgstate = IF Len(Flat(page)) < Len(Flat(s.all)) THEN "BEGIN" ELSE "ONEPG"
    /\ (h # 0 /\ h > 0 /\ h + NSelkey < Len(s.all)) => t.pgstate = "MIDDLE"
    /\ (h # 0 /\ ~(h > 0 /\ h + NSelkey < Len(s.all))) => t.pgstate = "END"

\* It does so, or nothing.
LEMMA FillNormalSets ==
  ASSUME NEW s, DOMAIN s = Fields, NEW dir
  PROVE  LET h == FillAt(s, dir)
         IN  /\ Stopped(s, dir) => FillNormal(s, dir) = s
             /\ ~Stopped(s, dir) =>
                   FillSets(s, FillNormal(s, dir), h,
                            SubSeq(s.all, h + 1, Least(h + NSelkey, Len(s.all))))
<1> DEFINE h == FillAt(s, dir)
           page == SubSeq(s.all, h + 1, Least(h + NSelkey, Len(s.all)))
           ps   == CASE h = 0 -> IF Len(Flat(page)) < Len(Flat(s.all)) THEN "BEGIN" ELSE "ONEPG"
                     [] h > 0 /\ h + NSelkey < Len(s.all) -> "MIDDLE"
                     [] OTHER -> "END"
           nm   == IF s.has_tsi THEN Lengths(page) \o SubSeq(s.normal, Len(page) + 1, Len(s.normal))
                   ELSE s.normal
           t    == [s EXCEPT !.hidx = h, !.mcch = page, !.normal = nm, !.pgstate = ps]
<1>1. Stopped(s, dir) => FillNormal(s, dir) = s
  BY Zenon DEF FillNormal, FillAt, Stopped
<1>2. ASSUME ~Stopped(s, dir)
      PROVE  FillNormal(s, dir) = t
  BY <1>2, Zenon DEF FillNormal, FillAt, Stopped
<1>3. /\ h = 0 => ps = IF Len(Flat(page)) < Len(Flat(s.all)) THEN "BEGIN" ELSE "ONEPG"
      /\ (h # 0 /\ h > 0 /\ h + NSelkey < Len(s.all)) => ps = "MIDDLE"
      /\ (h # 0 /\ ~(h > 0 /\ h + NSelkey < Len(s.all))) => ps = "END"
  <2>1. ~(h = 0 /\ h > 0)
    <3>1. ~(0 > 0)
      OBVIOUS
    <3> QED
      BY <3>1, Zenon
  <2> QED
    BY <2>1, Zenon
<1> HIDE DEF ps, page, h, nm
<1>4. /\ DOMAIN t = Fields
      /\ t.keystroke = s.keystroke /\ t.mode = s.mode /\ t.spot = s.spot
      /\ t.grouping = s.grouping /\ t.all = s.all /\ t.eidx = s.eidx
      /\ t.has_tsi = s.has_tsi /\ t.wild = s.wild
      /\ t.cch = s.cch /\ t.commits = s.commits
      /\ t.hidx = h /\ t.mcch = page /\ t.normal = nm /\ t.pgstate = ps
  BY Zenon DEF Fields
<1> HIDE DEF t
<1>5. FillSets(s, t, h, page)
  BY <1>3, <1>4, Zenon DEF FillSets, nm
<1> QED
  BY <1>1, <1>2, <1>5, Zenon DEF h, page

\* fillpage() without wild cards,
LEMMA FillNormalAfter ==
  ASSUME NEW s, Sound(s), NEW dir, "INWILD" \notin s.mode, s.pgstate # "ONEPG"
  PROVE  After(s, FillNormal(s, dir)) /\ FillNormal(s, dir).commits = s.commits
<1>1. Typed(s) /\ Plain(s) /\ DOMAIN s = Fields
  BY Zenon DEF Sound, Typed
<1>2. CASE Stopped(s, dir)
  <2>1. FillNormal(s, dir) = s
    BY <1>1, <1>2, FillNormalSets
  <2> QED
    BY <2>1, StaysAfter
<1>3. CASE ~Stopped(s, dir)
  <2> DEFINE h == FillAt(s, dir)
             page == SubSeq(s.all, h + 1, Least(h + NSelkey, Len(s.all)))
             t == FillNormal(s, dir)
  <2>1. FillSets(s, t, h, page)
    BY <1>1, <1>3, FillNormalSets
  <2>2. h \in Nat
    <3>1. s.hidx \in Int /\ NSelkey \in Int
      BY <1>1, NSelkeyType DEF Typed
    <3>2. h \in Int
      <4>1. h = 0 \/ h = s.hidx + NSelkey \/ h = s.hidx - NSelkey
        <5>1. 0 # 1
          OBVIOUS
        <5> QED
          BY <5>1, Zenon DEF FillAt
      <4> QED
        BY <3>1, <4>1
    <3>3. ~(h < 0)
      BY <1>3, Zenon DEF Stopped
    <3> HIDE DEF h
    <3> QED
      BY <3>2, <3>3, SMT
  <2>3. s.all \in Seq(Cand)
    BY <1>1, Zenon DEF Typed
  <2>4. /\ page \in Seq(Cand) /\ Len(page) \in Nat /\ Len(page) <= NSelkey
        /\ \A k \in 1 .. Len(page) : page[k] = s.all[h + k] /\ h + k \in 1 .. Len(s.all)
    <3> HIDE DEF h
    <3> QED
      BY <2>2, <2>3, PageOf
  <2> HIDE DEF h, page, t
  <2> DEFINE ls == Lengths(page)
             rest == SubSeq(s.normal, Len(page) + 1, Len(s.normal))
  <2>5. /\ ls \in Seq(Nat) /\ Len(ls) = Len(page)
        /\ \A k \in 1 .. Len(page) : ls[k] = Len(page[k])
    BY <2>4, LengthsAre
  <2>6. rest \in Seq(Nat)
    <3>1. s.normal \in Seq(Nat)
      BY <1>1, Zenon DEF Typed
    <3>2. Len(s.normal) \in Int /\ Len(page) + 1 \in Int /\ 1 <= Len(page) + 1
          /\ Len(s.normal) <= Len(s.normal)
      BY <2>4, <3>1, LenProperties
    <3> QED
      BY <3>1, <3>2, Part
  <2> HIDE DEF ls, rest
  <2>7. /\ ls \o rest \in Seq(Nat) /\ DOMAIN (ls \o rest) = 1 .. Len(ls) + Len(rest)
        /\ Len(rest) \in Nat
        /\ \A k \in 1 .. Len(ls) + Len(rest) :
              (ls \o rest)[k] = IF k <= Len(ls) THEN ls[k] ELSE rest[k - Len(ls)]
    <3>0. ls \in Seq(Nat) /\ rest \in Seq(Nat)
      BY <2>5, <2>6
    <3>1. /\ ls \o rest \in Seq(Nat)
          /\ Len(ls \o rest) = Len(ls) + Len(rest)
          /\ \A k \in 1 .. Len(ls) + Len(rest) :
                (ls \o rest)[k] = IF k <= Len(ls) THEN ls[k] ELSE rest[k - Len(ls)]
      BY <3>0, ConcatProperties
    <3>2. DOMAIN (ls \o rest) = 1 .. Len(ls \o rest) /\ Len(rest) \in Nat
      BY <2>6, <3>1, LenProperties
    <3> QED
      BY <3>1, <3>2
  <2>8. t.normal = IF s.has_tsi THEN ls \o rest ELSE s.normal
    BY <2>1, Zenon DEF FillSets, ls, rest
  <2>9. Typed(t)
    <3>1. t.pgstate \in PageState
      BY <2>1, Zenon DEF FillSets, PageState
    <3>2. t.normal \in Seq(Nat)
      BY <1>1, <2>7, <2>8, Zenon DEF Typed
    <3>3. h \in Int
      BY <2>2
    <3> QED
      BY <1>1, <2>1, <2>4, <3>1, <3>2, <3>3, Zenon DEF FillSets, Typed
  <2>10. IF s.has_tsi THEN s.grouping = "normal"
         ELSE s.grouping = "none" /\ \A k \in 1 .. Len(s.all) : Len(s.all[k]) = 1
    BY <1>1, Zenon DEF Plain
  <2>11. ~s.has_tsi => \A k \in 1 .. Len(page) : Len(page[k]) = 1
    BY <2>4, <2>10
  <2>12. /\ t.has_tsi = s.has_tsi /\ t.mcch = page /\ t.grouping = s.grouping
         /\ t.all = s.all /\ t.mode = s.mode
         /\ t.keystroke = s.keystroke /\ t.commits = s.commits
    BY <2>1, Zenon DEF FillSets
  <2>13. Plain(t)
    BY <2>10, <2>11, <2>12, Zenon DEF Plain
  <2>14. Grouped(t)
    <3>1. CASE s.has_tsi
      <4>1. t.grouping = "normal" /\ t.normal = ls \o rest
        BY <2>8, <2>10, <2>12, <3>1, Zenon
      <4>2. ASSUME NEW k \in 1 .. Len(page)
            PROVE  Grouping(t, k) = Len(page[k])
        <5>1. k \in 1 .. Len(ls) + Len(rest) /\ k <= Len(ls)
          BY <2>4, <2>5, <2>7, SMT
        <5>2. (ls \o rest)[k] = Len(page[k]) /\ k \in DOMAIN (ls \o rest)
          BY <2>5, <2>7, <5>1
        <5> QED
          BY <4>1, <5>2, Zenon DEF Grouping
      <4> QED
        BY <2>12, <4>1, <4>2 DEF Grouped
    <3>2. CASE ~s.has_tsi
      BY <2>10, <2>11, <2>12, <3>2 DEF Grouped
    <3> QED
      BY <3>1, <3>2
  <2> QED
    BY <2>9, <2>12, <2>13, <2>14, Zenon DEF After, PageKept, Sound, t
<1> QED
  BY <1>2, <1>3

\* What fillpage() leaves alone and what it sets, with wild cards.
WildSets(s, t, page, named, w, ps, h, e) ==
    /\ DOMAIN t = Fields
    /\ t.keystroke = s.keystroke /\ t.mode = s.mode /\ t.spot = s.spot
    /\ t.normal = s.normal /\ t.cch = s.cch /\ t.commits = s.commits
    /\ t.mcch = page /\ t.all = page /\ t.has_tsi = HasTsi(page)
    /\ t.wild = w /\ t.grouping = IF HasTsi(page) THEN named ELSE "none"
    /\ t.pgstate = ps /\ t.hidx = h /\ t.eidx = e

Onward(s, dir)   == dir = 1 /\ s.pgstate \in {"BEGIN", "MIDDLE"}
Backward(s, dir) == dir = -1 /\ s.pgstate \in {"END", "MIDDLE"}

\* Onwards it searches behind the last place it has found,
LEMMA FillOnSets ==
  ASSUME NEW s, DOMAIN s = Fields, NEW dir, Onward(s, dir)
  PROVE  LET from == s.eidx + 1
             pick == PickWild(s, from, dir)
         IN  WildSets(s, FillWild(s, dir), pick.cands, "own", s.wild,
                      IF pick.more THEN "MIDDLE" ELSE "END", from, pick.last)
<1> DEFINE from == s.eidx + 1
           pick == PickWild(s, from, dir)
           page == pick.cands
           ps   == IF pick.more THEN "MIDDLE" ELSE "END"
           gr   == IF HasTsi(page) THEN "own" ELSE "none"
           t    == [s EXCEPT !.mcch = page, !.all = page, !.mkeys = pick.idxs,
                             !.has_tsi = HasTsi(page), !.wild = s.wild, !.grouping = gr,
                             !.pgstate = ps, !.hidx = from, !.eidx = pick.last]
<1>1. 1 # -1
  OBVIOUS
<1>2. FillWild(s, dir) = t
  BY <1>1, Zenon DEF FillWild, Onward
<1> HIDE DEF page, ps, gr, from, pick
<1>3. /\ DOMAIN t = Fields
      /\ t.keystroke = s.keystroke /\ t.mode = s.mode /\ t.spot = s.spot
      /\ t.normal = s.normal /\ t.cch = s.cch /\ t.commits = s.commits
      /\ t.mcch = page /\ t.all = page /\ t.has_tsi = HasTsi(page)
      /\ t.wild = s.wild /\ t.grouping = gr
      /\ t.pgstate = ps /\ t.hidx = from /\ t.eidx = pick.last
  BY Zenon DEF Fields
<1> HIDE DEF t
<1>4. WildSets(s, t, page, "own", s.wild, ps, from, pick.last)
  BY <1>3, Zenon DEF WildSets, gr
<1> QED
  BY <1>2, <1>4, Zenon DEF page, ps, from, pick

\* and back before the first one, the far end first.
LEMMA FillBackSets ==
  ASSUME NEW s, DOMAIN s = Fields, NEW dir, Backward(s, dir)
  PROVE  LET from == s.hidx - 1
             pick == PickWild(s, from, dir)
             page == Reverse(pick.cands)
         IN  WildSets(s, FillWild(s, dir), page, "wild", Lengths(page),
                      IF pick.more THEN "MIDDLE" ELSE "BEGIN", pick.last, from)
<1> DEFINE from == s.hidx - 1
           pick == PickWild(s, from, dir)
           page == Reverse(pick.cands)
           w    == Lengths(page)
           ps   == IF pick.more THEN "MIDDLE" ELSE "BEGIN"
           gr   == IF HasTsi(page) THEN "wild" ELSE "none"
           t    == [s EXCEPT !.mcch = page, !.all = page, !.mkeys = pick.idxs,
                             !.has_tsi = HasTsi(page), !.wild = w, !.grouping = gr,
                             !.pgstate = ps, !.hidx = pick.last, !.eidx = from]
<1>1. 1 # -1
  OBVIOUS
<1>2. FillWild(s, dir) = t
  BY <1>1, Zenon DEF FillWild, Backward
<1> HIDE DEF page, ps, gr, from, pick, w
<1>3. /\ DOMAIN t = Fields
      /\ t.keystroke = s.keystroke /\ t.mode = s.mode /\ t.spot = s.spot
      /\ t.normal = s.normal /\ t.cch = s.cch /\ t.commits = s.commits
      /\ t.mcch = page /\ t.all = page /\ t.has_tsi = HasTsi(page)
      /\ t.wild = w /\ t.grouping = gr
      /\ t.pgstate = ps /\ t.hidx = pick.last /\ t.eidx = from
  BY Zenon DEF Fields
<1> HIDE DEF t
<1>4. WildSets(s, t, page, "wild", w, ps, pick.last, from)
  BY <1>3, Zenon DEF WildSets, gr
<1> QED
  BY <1>2, <1>4, Zenon DEF page, ps, from, pick, w

\* A page turned round.
LEMMA ReversedPage ==
  ASSUME NEW c \in Seq(Cand)
  PROVE  /\ Reverse(c) \in Seq(Cand) /\ Len(Reverse(c)) = Len(c) /\ Len(c) \in Nat
         /\ \A k \in 1 .. Len(c) : Reverse(c)[k] = c[(Len(c) - k) + 1]
<1> DEFINE L == Len(c)
           v(k) == c[(L - k) + 1]
<1>1. L \in Nat /\ \A k \in 1 .. L : c[k] \in Cand
  BY ElementOfSeq, LenProperties
<1>2. Reverse(c) = [k \in 1 .. L |-> v(k)]
  BY Zenon DEF Reverse
<1>3. \A k \in 1 .. L : v(k) \in Cand
  <2> HIDE DEF L
  <2>1. \A k \in 1 .. L : (L - k) + 1 \in 1 .. L
    BY <1>1, SMT
  <2> QED
    BY <1>1, <2>1
<1>4. \A k \in 1 .. L : Reverse(c)[k] = v(k)
  BY <1>2, Zenon
<1> HIDE DEF v, L
<1>5. Reverse(c) \in Seq(Cand) /\ Len(Reverse(c)) = L
  BY <1>1, <1>2, <1>3
<1> QED
  BY <1>1, <1>4, <1>5 DEF L, v

\* A page that was set so is sound and grouped.
LEMMA WildPageAfter ==
  ASSUME NEW s, Sound(s), "INWILD" \in s.mode, NEW t, NEW page \in Seq(Cand),
         Len(page) <= NSelkey, NEW named \in {"own", "wild"}, NEW w \in Seq(Nat),
         named = "wild" => w = Lengths(page),
         NEW ps \in PageState, NEW h \in Int, NEW e \in Int,
         WildSets(s, t, page, named, w, ps, h, e)
  PROVE  After(s, t) /\ t.commits = s.commits
<1>1. Typed(s)
  BY Zenon DEF Sound
<1>2. /\ DOMAIN t = Fields
      /\ t.keystroke = s.keystroke /\ t.mode = s.mode
      /\ t.normal = s.normal /\ t.commits = s.commits
      /\ t.mcch = page /\ t.all = page /\ t.has_tsi = HasTsi(page)
      /\ t.wild = w /\ t.grouping = IF HasTsi(page) THEN named ELSE "none"
      /\ t.pgstate = ps /\ t.hidx = h /\ t.eidx = e
  BY Zenon DEF WildSets
<1>3. HasTsi(page) \in BOOLEAN /\ (~HasTsi(page) => \A k \in 1 .. Len(page) : Len(page[k]) = 1)
  BY NoPhrase
<1>4. /\ DOMAIN Lengths(page) = 1 .. Len(page)
      /\ \A k \in 1 .. Len(page) : Lengths(page)[k] = Len(page[k])
  BY LengthsAre
<1>5. Typed(t)
  <2>1. t.grouping \in {"none", "normal", "own", "wild"}
    BY <1>2, Zenon
  <2>2. t.has_tsi \in BOOLEAN
    BY <1>2, <1>3, Zenon
  <2> QED
    BY <1>1, <1>2, <2>1, <2>2, Zenon DEF Typed
<1>6. Plain(t)
  BY <1>2, <1>3, Zenon DEF Plain
<1>7. Grouped(t)
  <2>1. CASE HasTsi(page) /\ named = "own"
    <3>1. t.grouping = "own" /\ t.all = page
      BY <1>2, <2>1, Zenon
    <3>2. \A k \in 1 .. Len(page) : Grouping(t, k) = Len(page[k])
      BY <1>4, <3>1 DEF Grouping
    <3> QED
      BY <1>2, <3>1, <3>2 DEF Grouped
  <2>2. CASE HasTsi(page) /\ named = "wild"
    <3>1. t.grouping = "wild" /\ t.wild = Lengths(page)
      BY <1>2, <2>2, Zenon
    <3>2. \A k \in 1 .. Len(page) : Grouping(t, k) = Len(page[k])
      BY <1>4, <3>1 DEF Grouping
    <3> QED
      BY <1>2, <3>1, <3>2 DEF Grouped
  <2>3. CASE ~HasTsi(page)
    BY <1>2, <1>3, <2>3 DEF Grouped
  <2> QED
    BY <2>1, <2>2, <2>3
<1> QED
  BY <1>2, <1>5, <1>6, <1>7, Zenon DEF After, PageKept, Sound

\* and with them.
LEMMA FillWildAfter ==
  ASSUME NEW s, Sound(s), NEW dir, "INWILD" \in s.mode
  PROVE  After(s, FillWild(s, dir)) /\ FillWild(s, dir).commits = s.commits
<1>1. DOMAIN s = Fields /\ s.hidx \in Int /\ s.eidx \in Int /\ s.wild \in Seq(Nat)
  BY Zenon DEF Sound, Typed
<1>2. CASE Onward(s, dir)
  <2> DEFINE from == s.eidx + 1
             pick == PickWild(s, from, dir)
             page == pick.cands
             ps   == IF pick.more THEN "MIDDLE" ELSE "END"
  <2>1. WildSets(s, FillWild(s, dir), page, "own", s.wild, ps, from, pick.last)
    BY <1>1, <1>2, FillOnSets
  <2>2. from \in Int /\ ps \in PageState
    BY <1>1 DEF PageState
  <2>3. page \in Seq(Cand) /\ Len(page) <= NSelkey /\ pick.last \in Int
    <3> HIDE DEF from
    <3> QED
      BY <2>2, PickIs
  <2> HIDE DEF from, pick, page, ps
  <2>4. "own" \in {"own", "wild"} /\ ("own" = "wild" => s.wild = Lengths(page))
    OBVIOUS
  <2> QED
    BY <1>1, <2>1, <2>2, <2>3, <2>4, WildPageAfter
<1>3. CASE Backward(s, dir)
  <2> DEFINE from == s.hidx - 1
             pick == PickWild(s, from, dir)
             page == Reverse(pick.cands)
             w    == Lengths(page)
             ps   == IF pick.more THEN "MIDDLE" ELSE "BEGIN"
  <2>1. WildSets(s, FillWild(s, dir), page, "wild", w, ps, pick.last, from)
    BY <1>1, <1>3, FillBackSets
  <2>2. from \in Int /\ ps \in PageState
    BY <1>1 DEF PageState
  <2>3. pick.cands \in Seq(Cand) /\ Len(pick.cands) <= NSelkey /\ pick.last \in Int
    <3> HIDE DEF from
    <3> QED
      BY <2>2, PickIs
  <2> HIDE DEF from, pick, ps
  <2>4. page \in Seq(Cand) /\ Len(page) <= NSelkey
    BY <2>3, ReversedPage
  <2> HIDE DEF page
  <2>5. w \in Seq(Nat)
    BY <2>4, LengthsAre
  <2>6. "wild" \in {"own", "wild"} /\ ("wild" = "wild" => w = Lengths(page))
    OBVIOUS
  <2> HIDE DEF w
  <2> QED
    BY <2>1, <2>2, <2>3, <2>4, <2>5, <2>6, WildPageAfter
<1>4. CASE ~Onward(s, dir) /\ ~Backward(s, dir)
  <2>1. FillWild(s, dir) = s
    BY <1>4, Zenon DEF FillWild, Onward, Backward
  <2> QED
    BY <2>1, StaysAfter
<1> QED
  BY <1>2, <1>3, <1>4

\* mcch_nextpage().
LEMMA NextPageOut ==
  ASSUME NEW s, Sound(s), NEW key
  PROVE  Outcome(s, NextPage(s, key))
<1> DEFINE dir == CASE s.pgstate = "END"    -> IF key = "<" THEN -1 ELSE 0
                    [] s.pgstate = "MIDDLE" -> IF key = "<" THEN -1 ELSE 1
                    [] OTHER                -> 1
<1>1. \/ NextPage(s, key) = Select(s, -1)
      \/ NextPage(s, key) = [s |-> s, ret |-> {}]
      \/ s.pgstate # "ONEPG" /\ NextPage(s, key) = [s |-> FillPage(s, dir), ret |-> {}]
  BY Zenon DEF NextPage
<1>2. Outcome(s, Select(s, -1))
  BY SelectOut
<1>3. Outcome(s, [s |-> s, ret |-> {}])
  BY StaysAfter, OutcomeOf, FlagSets
<1> HIDE DEF dir
<1>4. ASSUME s.pgstate # "ONEPG"
      PROVE  Outcome(s, [s |-> FillPage(s, dir), ret |-> {}])
  <2>1. After(s, FillPage(s, dir))
    <3>1. CASE "INWILD" \in s.mode
      <4>1. FillPage(s, dir) = FillWild(s, dir)
        BY <3>1, Zenon DEF FillPage
      <4> QED
        BY <3>1, <4>1, FillWildAfter
    <3>2. CASE "INWILD" \notin s.mode
      <4>1. FillPage(s, dir) = FillNormal(s, dir)
        BY <3>2, Zenon DEF FillPage
      <4> QED
        BY <1>4, <3>2, <4>1, FillNormalAfter
    <3> QED
      BY <3>1, <3>2
  <2> QED
    BY <2>1, OutcomeOf, FlagSets
<1> QED
  BY <1>1, <1>2, <1>3, <1>4

----------------------------------------------------------------------------
(* Typing a key.                                                           *)

\* What a key that joins the keystroke may make of a world.
Result(s, r) ==
    /\ Sound(r.s) /\ r.ret \in SUBSET Flags
    /\ PageKept(s, r.s)
    /\ r.s.commits = s.commits \/ r.s.commits = s.commits + 1

\* Worlds that differ in the keystroke and the marks, wild cards may come.
SamePage(s, t) ==
    /\ DOMAIN t = Fields
    /\ t.mode \in SUBSET Marks /\ ("INWILD" \in s.mode => "INWILD" \in t.mode)
    /\ t.keystroke \in Seq(Key)
    /\ t.mcch = s.mcch /\ t.grouping = s.grouping
    /\ t.pgstate = s.pgstate /\ t.all = s.all /\ t.hidx = s.hidx /\ t.eidx = s.eidx
    /\ t.has_tsi = s.has_tsi /\ t.normal = s.normal /\ t.wild = s.wild
    /\ t.cch = s.cch /\ t.commits = s.commits

\* They are as sound as each other.
LEMMA SamePageSound ==
  ASSUME NEW s, NEW t, Sound(s), SamePage(s, t)
  PROVE  Sound(t) /\ PageKept(s, t) /\ t.commits = s.commits
<1>1. Typed(s) /\ Plain(s)
  BY DEF Sound
<1>2. Typed(t)
  BY <1>1, Zenon DEF Typed, SamePage
<1>3. Plain(t)
  BY <1>1, Zenon DEF Plain, SamePage
<1>4. PageKept(s, t)
  BY Zenon DEF PageKept, Unturned, SamePage
<1> QED
  BY <1>2, <1>3, <1>4, Zenon DEF Sound, SamePage

\* A handler that only keeps or clears the keystroke is one of them.
LEMMA OutcomeResult ==
  ASSUME NEW s, NEW r, Outcome(s, r)
  PROVE  Result(s, r)
BY Zenon DEF Outcome, After, Result

\* It may come after the key has joined the keystroke.
LEMMA LaterResult ==
  ASSUME NEW s, NEW t, NEW r, Sound(s), SamePage(s, t), Result(t, r)
  PROVE  Result(s, r)
<1>1. PageKept(s, r.s)
  BY SamePageSound, PageKeptThen DEF Result
<1> QED
  BY <1>1, SamePageSound, Zenon DEF Result

\* The key joins the keystroke, and the keystroke may be committed.
LEMMA TypeKeyResult ==
  ASSUME NEW s, Sound(s), NEW key \in Key, NEW flags \in SUBSET Flags
  PROVE  Result(s, TypeKey(s, key, flags))
<1> DEFINE ks == Append(s.keystroke, key)
           m  == s.mode \cup (IF On("SPACEIGNOR") /\ Len(ks) = n_max_keystroke
                                THEN {"SPACE"} ELSE {})
           a  == [s EXCEPT !.keystroke = ks, !.mode = m]
<1>1. DOMAIN s = Fields /\ s.mode \in SUBSET Marks /\ s.keystroke \in Seq(Key)
  BY Zenon DEF Sound, Typed
<1>2. m \in SUBSET Marks /\ ("INWILD" \in s.mode => "INWILD" \in m)
  BY <1>1, Zenon DEF Marks
<1>3. ks \in Seq(Key)
  BY <1>1, AppendProperties
<1>4. TypeKey(s, key, flags) = CommitKeystroke(a)
      \/ TypeKey(s, key, flags) = [s |-> Match(a), ret |-> flags]
      \/ TypeKey(s, key, flags) = [s |-> a, ret |-> flags]
  BY Zenon DEF TypeKey
<1> HIDE DEF ks, m
<1>5. SamePage(s, a)
  <2>1. /\ DOMAIN a = Fields /\ a.mode = m /\ a.keystroke = ks
        /\ a.mcch = s.mcch /\ a.grouping = s.grouping
        /\ a.pgstate = s.pgstate /\ a.all = s.all /\ a.hidx = s.hidx /\ a.eidx = s.eidx
        /\ a.has_tsi = s.has_tsi /\ a.normal = s.normal /\ a.wild = s.wild
        /\ a.cch = s.cch /\ a.commits = s.commits
    BY <1>1, Zenon DEF Fields
  <2> HIDE DEF a
  <2> QED
    BY <1>2, <1>3, <2>1, Zenon DEF SamePage
<1> HIDE DEF a
<1>6. Sound(a) /\ PageKept(s, a) /\ a.commits = s.commits
  BY <1>5, SamePageSound
<1>7. Result(s, CommitKeystroke(a))
  <2>1. Result(a, CommitKeystroke(a))
    BY <1>6, CommitKeystrokeOut, OutcomeResult
  <2> QED
    BY <1>5, <2>1, LaterResult
<1>8. Result(s, [s |-> Match(a), ret |-> flags])
  <2> DEFINE b == Match(a)
  <2>1. Sound(b) /\ Grouped(b) /\ b.commits = a.commits
    BY <1>6, MatchAfter DEF Searched
  <2> HIDE DEF b
  <2>2. [s |-> b, ret |-> flags].s = b /\ [s |-> b, ret |-> flags].ret = flags
    OBVIOUS
  <2>3. Result(s, [s |-> b, ret |-> flags])
    BY <1>6, <2>1, <2>2, Zenon DEF Result, PageKept
  <2> QED
    BY <2>3 DEF b
<1>9. Result(s, [s |-> a, ret |-> flags])
  <2>1. [s |-> a, ret |-> flags].s = a /\ [s |-> a, ret |-> flags].ret = flags
    OBVIOUS
  <2> QED
    BY <1>6, <2>1, Zenon DEF Result
<1> QED
  BY <1>4, <1>7, <1>8, <1>9, Zenon

\* Whatever key is pressed, with whatever modifier.
LEMMA TypeResult ==
  ASSUME NEW s, Sound(s), NEW key \in Key, NEW mod, NEW named, NEW flags \in SUBSET Flags
  PROVE  Result(s, Type(s, key, mod, named, flags))
<1> DEFINE w == [s EXCEPT !.mode = @ \cup {"INWILD"}]
<1>1. \/ \E f \in SUBSET Flags : Type(s, key, mod, named, flags) = [s |-> s, ret |-> f]
      \/ Type(s, key, mod, named, flags) = TypeKey(w, key, flags)
      \/ Type(s, key, mod, named, flags) = TypeKey(s, key, flags)
  <2>1. /\ flags \cup {"SHIFTESC"} \in SUBSET Flags /\ flags \cup {"CTRLPHR"} \in SUBSET Flags
        /\ flags \cup {"IGNORE"} \in SUBSET Flags /\ {} \in SUBSET Flags
    BY Zenon DEF Flags
  <2> QED
    BY <2>1, Zenon DEF Type
<1>2. ASSUME NEW f \in SUBSET Flags
      PROVE  Result(s, [s |-> s, ret |-> f])
  BY StaysAfter, OutcomeOf, OutcomeResult
<1>3. Result(s, TypeKey(s, key, flags))
  BY TypeKeyResult
<1>4. SamePage(s, w)
  <2>1. DOMAIN s = Fields /\ s.mode \in SUBSET Marks /\ s.keystroke \in Seq(Key)
    BY Zenon DEF Sound, Typed
  <2>2. /\ DOMAIN w = Fields /\ w.mode = s.mode \cup {"INWILD"}
        /\ w.keystroke = s.keystroke /\ w.mcch = s.mcch /\ w.grouping = s.grouping
        /\ w.pgstate = s.pgstate /\ w.all = s.all /\ w.hidx = s.hidx /\ w.eidx = s.eidx
        /\ w.has_tsi = s.has_tsi /\ w.normal = s.normal /\ w.wild = s.wild
        /\ w.cch = s.cch /\ w.commits = s.commits
    BY <2>1, Zenon DEF Fields
  <2>3. s.mode \cup {"INWILD"} \in SUBSET Marks
    BY <2>1, Zenon DEF Marks
  <2> HIDE DEF w
  <2> QED
    BY <2>1, <2>2, <2>3, Zenon DEF SamePage
<1> HIDE DEF w
<1>5. Result(s, TypeKey(w, key, flags))
  <2>1. Result(w, TypeKey(w, key, flags))
    BY <1>4, SamePageSound, TypeKeyResult
  <2> QED
    BY <1>4, <2>1, LaterResult
<1> QED
  BY <1>1, <1>2, <1>3, <1>5

----------------------------------------------------------------------------
(* The keys.                                                               *)

ICFields == {"keystroke", "mode", "spot", "mcch", "grouping", "pgstate", "all",
             "hidx", "eidx", "mkeys", "has_tsi"}

\* What is always so, for each context.
GenInpInv ==
    /\ cfmode \in SUBSET AllModes
    /\ inp = [i \in IC |-> inp[i]]
    /\ DOMAIN static = {"normal", "wild"}
    /\ \A i \in IC : /\ DOMAIN inp[i] = ICFields
                     /\ Sound(World(i))
                     /\ Len(inp[i].keystroke) <= MaxTyped
    /\ ret \in SUBSET Flags
    /\ commits \in 0 .. 2
    /\ filled \in [{"normal", "wild"} -> SUBSET IC]

\* What a key comes to.
Handled(i, r) ==
    /\ Finish(i, r)
    /\ Sound(r.s) /\ r.ret \in SUBSET Flags
    /\ PageKept(World(i), r.s)
    /\ r.s.commits \in 0 .. 2
    /\ Len(r.s.keystroke) <= MaxTyped

\* Of the world that a handler works on,
LEMMA WorldIs ==
  ASSUME NEW i
  PROVE  LET s == World(i) IN
         /\ DOMAIN s = Fields
         /\ s.keystroke = inp[i].keystroke /\ s.mode = inp[i].mode /\ s.spot = inp[i].spot
         /\ s.mcch = inp[i].mcch /\ s.grouping = inp[i].grouping
         /\ s.pgstate = inp[i].pgstate /\ s.all = inp[i].all /\ s.hidx = inp[i].hidx
         /\ s.eidx = inp[i].eidx /\ s.mkeys = inp[i].mkeys /\ s.has_tsi = inp[i].has_tsi
         /\ s.normal = static.normal /\ s.wild = static.wild
         /\ s.cch = NoText /\ s.commits = 0
BY SMT DEF World, Fields

\* and as the handler finds it.
LEMMA BeginAfter ==
  ASSUME NEW i \in IC, GenInpInv
  PROVE  LET s == Begin(i) IN
         /\ Sound(s) /\ SameButMarks(World(i), s)
         /\ DOMAIN s = Fields
         /\ s.spot = inp[i].spot /\ s.mkeys = inp[i].mkeys
         /\ s.mode = inp[i].mode \ {"SPACE", "WRONG"}
         /\ s.keystroke = inp[i].keystroke /\ s.keystroke \in Seq(Key)
         /\ Len(s.keystroke) <= MaxTyped
         /\ s.commits = 0 /\ s.cch = NoText
         /\ PageKept(World(i), s)
<1> DEFINE w == World(i)
           m == w.mode \ {"SPACE", "WRONG"}
           s == Begin(i)
<1>1. Sound(w) /\ DOMAIN w = Fields /\ w.mode \in SUBSET Marks /\ w.keystroke \in Seq(Key)
  BY Zenon DEF GenInpInv, Sound, Typed
<1>2. /\ w.mode = inp[i].mode /\ w.spot = inp[i].spot /\ w.mkeys = inp[i].mkeys
      /\ w.keystroke = inp[i].keystroke /\ w.commits = 0 /\ w.cch = NoText
  BY WorldIs
<1>3. s = [w EXCEPT !.mode = m]
  BY Zenon DEF Begin
<1>4. m \in SUBSET Marks /\ ("INWILD" \in m <=> "INWILD" \in w.mode)
  BY <1>1, Zenon
<1>5. Len(inp[i].keystroke) <= MaxTyped
  BY Zenon DEF GenInpInv
<1> HIDE DEF w, m, s
<1>6. SameButMarks(w, [w EXCEPT !.mode = m])
  BY <1>1, <1>4, MarkSets
<1>7. /\ DOMAIN s = Fields /\ s.mode = m /\ s.spot = w.spot /\ s.mkeys = w.mkeys
      /\ s.keystroke = w.keystroke /\ s.commits = w.commits /\ s.cch = w.cch
  BY <1>1, <1>3, Zenon DEF Fields
<1>8. After(w, s)
  BY <1>1, <1>3, <1>6, MarksAfter
<1>9. Sound(s) /\ PageKept(w, s)
  BY <1>8, Zenon DEF After
<1>10. s.mode = inp[i].mode \ {"SPACE", "WRONG"}
  BY <1>2, <1>7 DEF m
<1>11. SameButMarks(w, s)
  BY <1>3, <1>6
<1>12. /\ s.spot = inp[i].spot /\ s.mkeys = inp[i].mkeys
       /\ s.keystroke = inp[i].keystroke /\ s.keystroke \in Seq(Key)
       /\ s.commits = 0 /\ s.cch = NoText /\ Len(s.keystroke) <= MaxTyped
  BY <1>1, <1>2, <1>5, <1>7
<1> QED
  BY <1>7, <1>9, <1>10, <1>11, <1>12, Zenon DEF w, s

\* A handler that keeps or clears the keystroke ends well,
LEMMA KeepsBound ==
  ASSUME NEW i \in IC, GenInpInv, NEW r, Outcome(Begin(i), r), Finish(i, r)
  PROVE  Handled(i, r)
<1> DEFINE s == Begin(i)
<1>1. /\ s.commits = 0 /\ Len(s.keystroke) <= MaxTyped
      /\ PageKept(World(i), s)
  BY BeginAfter
<1> HIDE DEF s
<1>2. After(s, r.s) /\ r.ret \in SUBSET Flags
  BY Zenon DEF Outcome, s
<1>3. r.s.commits = 0 \/ r.s.commits = 0 + 1
  BY <1>1, <1>2 DEF After
<1>4. r.s.commits \in 0 .. 2
  BY <1>3
<1>5. Len(r.s.keystroke) <= MaxTyped
  <2>1. Len(<<>>) <= MaxTyped
    BY ConstantsOK, EmptySeq
  <2> QED
    BY <1>1, <1>2, <2>1, Zenon DEF After
<1> QED
  BY <1>1, <1>2, <1>4, <1>5, PageKeptThen, Zenon DEF Handled, After

\* and so does one after the other.
LEMMA ThenAfter ==
  ASSUME NEW s, NEW u, NEW t, After(s, u), After(u, t), t.commits = u.commits
  PROVE  After(s, t)
<1>1. PageKept(s, t)
  BY PageKeptThen DEF After
<1> QED
  BY <1>1, Zenon DEF After

\* What XK_space falls through to.
LEMMA SpaceRestOut ==
  ASSUME NEW s, Sound(s), NEW last
  PROVE  Outcome(s, SpaceRest(s, last))
<1>1. \/ SpaceRest(s, last) = NextPage(s, " ")
      \/ SpaceRest(s, last) = [s |-> Reset(s), ret |-> {}]
      \/ SpaceRest(s, last) = [s |-> s, ret |-> {}]
      \/ SpaceRest(s, last) = CommitKeystroke(s)
      \/ SpaceRest(s, last) = [s |-> s, ret |-> {"IGNORE"}]
  BY Zenon DEF SpaceRest
<1>2. Outcome(s, NextPage(s, " "))
  BY NextPageOut
<1>3. Outcome(s, CommitKeystroke(s))
  BY CommitKeystrokeOut
<1>4. Outcome(s, [s |-> Reset(s), ret |-> {}])
  BY ResetAfter, OutcomeOf, FlagSets
<1>5. Outcome(s, [s |-> s, ret |-> {}]) /\ Outcome(s, [s |-> s, ret |-> {"IGNORE"}])
  BY StaysAfter, OutcomeOf, FlagSets
<1> QED
  BY <1>1, <1>2, <1>3, <1>4, <1>5, Zenon

\* XK_space.
LEMMA SpaceKeyHandled ==
  ASSUME NEW i \in IC, GenInpInv, SpaceKey(i)
  PROVE  \E r : Handled(i, r)
<1> DEFINE s == Begin(i)
           c == Choose(s, -1)
           last == inp[i].mode
<1>1. Sound(s)
  BY BeginAfter
<1>2. \/ Finish(i, [s |-> c.s, ret |-> {"COMMIT"}])
      \/ Finish(i, [s |-> Wrong(c.s), ret |-> {}])
      \/ Finish(i, SpaceRest(s, last))
  BY Zenon DEF SpaceKey
<1> HIDE DEF last
<1>3. Outcome(s, SpaceRest(s, last))
  BY <1>1, SpaceRestOut
<1>4. After(s, c.s)
  BY <1>1, ChooseAfter
<1>5. After(s, Wrong(c.s))
  <2>1. Sound(c.s)
    BY <1>4, Zenon DEF After
  <2>2. After(c.s, Wrong(c.s)) /\ Wrong(c.s).commits = c.s.commits
    BY <2>1, WrongAfter
  <2> QED
    BY <1>4, <2>2, ThenAfter
<1> HIDE DEF c
<1>6. Outcome(s, [s |-> c.s, ret |-> {"COMMIT"}]) /\ Outcome(s, [s |-> Wrong(c.s), ret |-> {}])
  BY <1>4, <1>5, OutcomeOf, FlagSets
<1>7. ASSUME NEW r, Outcome(s, r), Finish(i, r)
      PROVE  \E q : Handled(i, q)
  BY <1>7, KeepsBound
<1> HIDE DEF s
<1> QED
  BY <1>2, <1>3, <1>6, <1>7

\* XK_Tab, and the keys that are ignored.
LEMMA TabKeyHandled ==
  ASSUME NEW i \in IC, GenInpInv, TabKey(i) \/ IgnoredKey(i)
  PROVE  \E r : Handled(i, r)
<1> DEFINE s == Begin(i)
<1>1. Sound(s)
  BY BeginAfter
<1>2. \/ Finish(i, NextPage(s, " "))
      \/ Finish(i, [s |-> s, ret |-> {"IGNORE"}])
  BY Zenon DEF TabKey, IgnoredKey
<1>3. Outcome(s, NextPage(s, " "))
  BY <1>1, NextPageOut
<1>4. Outcome(s, [s |-> s, ret |-> {"IGNORE"}])
  BY <1>1, StaysAfter, OutcomeOf, FlagSets
<1>5. ASSUME NEW r, Outcome(s, r), Finish(i, r)
      PROVE  \E q : Handled(i, q)
  BY <1>5, KeepsBound
<1> HIDE DEF s
<1> QED
  BY <1>2, <1>3, <1>4, <1>5

\* XK_Escape.
LEMMA EscapeKeyHandled ==
  ASSUME NEW i \in IC, GenInpInv, EscapeKey(i)
  PROVE  \E r : Handled(i, r)
<1> DEFINE s == Begin(i)
           u == Reset(s)
           t == [u EXCEPT !.spot = FALSE]
<1>1. Sound(s)
  BY BeginAfter
<1>2. Finish(i, [s |-> t, ret |-> {}])
  BY Zenon DEF EscapeKey
<1>3. After(s, u)
  BY <1>1, ResetAfter
<1>4. After(s, t)
  <2>1. Sound(u) /\ DOMAIN u = Fields /\ u.mode \in SUBSET Marks
    BY <1>3, Zenon DEF After, Sound, Typed
  <2> HIDE DEF u
  <2>2. SameButMarks(u, t)
    BY <2>1, Zenon DEF SameButMarks, Fields
  <2>3. After(u, t) /\ t.commits = u.commits
    BY <2>1, <2>2, MarksAfter, Zenon DEF SameButMarks
  <2> QED
    BY <1>3, <2>3, ThenAfter
<1> HIDE DEF t, s
<1>5. Outcome(s, [s |-> t, ret |-> {}])
  BY <1>4, OutcomeOf, FlagSets
<1> QED
  BY <1>2, <1>5, KeepsBound DEF s

\* A keystroke without its last key.
LEMMA FrontIs ==
  ASSUME NEW ks \in Seq(Key), ks # <<>>
  PROVE  Front(ks) \in Seq(Key) /\ Len(Front(ks)) = Len(ks) - 1
<1>1. Len(ks) \in Nat /\ Len(ks) # 0
  BY EmptySeq, LenProperties
<1>2. 1 \in Int /\ 1 <= 1 /\ Len(ks) - 1 \in Int /\ Len(ks) - 1 <= Len(ks)
  BY <1>1
<1>3. Front(ks) = SubSeq(ks, 1, Len(ks) - 1)
  BY Zenon DEF Front
<1> DEFINE b == Len(ks) - 1
<1>4. /\ SubSeq(ks, 1, b) \in Seq(Key)
      /\ Len(SubSeq(ks, 1, b)) = IF 1 <= b THEN (b - 1) + 1 ELSE 0
  <2> HIDE DEF b
  <2>1. b \in Int /\ b <= Len(ks)
    BY <1>2 DEF b
  <2> QED
    BY <1>2, <2>1, Part
<1>5. b \in Nat
  BY <1>1
<1> HIDE DEF b
<1>6. Len(SubSeq(ks, 1, b)) = b
  BY <1>4, <1>5, SMT
<1> QED
  BY <1>3, <1>4, <1>6 DEF b

\* XK_BackSpace: the shortened keystroke has no page yet.
Shortened(s, m) ==
    [s EXCEPT !.keystroke = Front(s.keystroke), !.mcch = <<>>, !.pgstate = "ONEPG",
              !.spot = FALSE, !.mode = m]

\* It is as sound as the longer one.
LEMMA ShortenedSets ==
  ASSUME NEW s, Sound(s), s.keystroke # <<>>, NEW m \in SUBSET Marks
  PROVE  LET t == Shortened(s, m)
         IN  /\ Sound(t) /\ Grouped(t)
             /\ t.keystroke = Front(s.keystroke) /\ t.mcch = <<>> /\ t.pgstate = "ONEPG"
             /\ t.spot = FALSE /\ t.mode = m
             /\ t.cch = s.cch /\ t.commits = s.commits
<1> DEFINE t == Shortened(s, m)
           ks == Front(s.keystroke)
<1>1. Typed(s) /\ DOMAIN s = Fields
  BY Zenon DEF Sound, Typed
<1>2. ks \in Seq(Key)
  BY <1>1, FrontIs DEF Typed
<1> HIDE DEF ks
<1>3. /\ DOMAIN t = Fields
      /\ t.keystroke = ks /\ t.mcch = <<>> /\ t.mode = m /\ t.pgstate = "ONEPG"
      /\ t.spot = FALSE
      /\ t.grouping = s.grouping /\ t.all = s.all /\ t.hidx = s.hidx /\ t.eidx = s.eidx
      /\ t.has_tsi = s.has_tsi /\ t.normal = s.normal /\ t.wild = s.wild
      /\ t.cch = s.cch /\ t.commits = s.commits
  BY <1>1, Zenon DEF Shortened, Fields, ks
<1> HIDE DEF t
<1>4. Typed(t)
  <2>1. <<>> \in Seq(Cand) /\ Len(<<>>) <= NSelkey
    BY NSelkeyType, Empty
  <2>2. "ONEPG" \in PageState
    BY DEF PageState
  <2> QED
    BY <1>1, <1>2, <1>3, <2>1, <2>2, Zenon DEF Typed
<1>5. Plain(t)
  <2>1. Len(t.mcch) = 0
    BY <1>3, Empty
  <2>2. 1 .. 0 = {}
    OBVIOUS
  <2> QED
    BY <1>3, <2>1, <2>2, Zenon DEF Plain
<1>6. Grouped(t)
  BY <1>3, EmptyPage
<1> QED
  BY <1>3, <1>4, <1>5, <1>6, Zenon DEF Sound, t, ks

\* XK_BackSpace and XK_Delete.
LEMMA BackSpaceKeyHandled ==
  ASSUME NEW i \in IC, GenInpInv, BackSpaceKey(i)
  PROVE  \E r : Handled(i, r)
<1> DEFINE s == Begin(i)
           m == IF On("WILDON") /\ \E k \in DOMAIN Front(s.keystroke) : IsWild(Front(s.keystroke)[k])
                  THEN {"INWILD"} ELSE {}
           a == Shortened(s, m)
           t == IF Front(s.keystroke) # <<>> /\ On("AUTOCOMPOSE") THEN Match(a) ELSE a
           r == [s |-> t, ret |-> {}]
<1>1. /\ Sound(s) /\ s.keystroke \in Seq(Key) /\ Len(s.keystroke) <= MaxTyped
      /\ s.commits = 0
  BY BeginAfter
<1>2. s.keystroke # <<>> /\ Finish(i, r)
  BY Zenon DEF BackSpaceKey, Shortened
<1>3. m \in SUBSET Marks
  BY Zenon DEF Marks
<1> HIDE DEF m, s
<1>4. /\ Sound(a) /\ Grouped(a) /\ a.keystroke = Front(s.keystroke)
      /\ a.commits = 0
  BY <1>1, <1>2, <1>3, ShortenedSets
<1>5. Len(a.keystroke) <= MaxTyped
  <2>1. Len(a.keystroke) = Len(s.keystroke) - 1 /\ Len(s.keystroke) \in Nat
    BY <1>1, <1>2, <1>4, FrontIs, LenProperties
  <2>2. MaxTyped \in Nat
    BY ConstantsOK
  <2> QED
    BY <1>1, <2>1, <2>2, SMT
<1> HIDE DEF a
<1>6. Sound(t) /\ Grouped(t) /\ t.keystroke = a.keystroke /\ t.commits = a.commits
  <2>1. Sound(Match(a)) /\ Grouped(Match(a)) /\ Searched(a, Match(a))
    BY <1>4, MatchAfter
  <2> QED
    BY <1>4, <2>1, Zenon DEF Searched
<1> HIDE DEF t
<1>7. r.s = t /\ r.ret = {}
  OBVIOUS
<1> HIDE DEF r
<1>8. r.s.commits \in 0 .. 2
  BY <1>4, <1>6, <1>7
<1>9. Handled(i, r)
  BY <1>2, <1>5, <1>6, <1>7, <1>8, FlagSets, Zenon DEF Handled, PageKept
<1> QED
  BY <1>9

\* A key of one character.
LEMMA CharKeyHandled ==
  ASSUME NEW i \in IC, GenInpInv, NEW key \in TypedKey, NEW mod, CharKey(i, key, mod)
  PROVE  \E r : Handled(i, r)
<1> DEFINE s == Begin(i)
           c == Choose(s, -1)
           named == key \in Keyname
           done(r) == Len(r.s.keystroke) <= MaxTyped /\ Finish(i, r)
<1>1. Sound(s) /\ s.commits = 0 /\ PageKept(World(i), s)
  BY BeginAfter
<1>2. \/ \E n : done(Type(s, key, mod, n, {}))
      \/ \E k : done(Select(s, k))
      \/ done(NextPage(s, key))
      \/ done([s |-> s, ret |-> {}])
      \/ done(Type(c.s, key, mod, named, {"COMMIT"}))
      \/ done([s |-> c.s, ret |-> {}])
  BY Zenon DEF CharKey
<1>3. key \in Key
  BY DEF Key
<1> HIDE DEF named
<1>4. ASSUME NEW r, done(r), Result(s, r) \/ Result(c.s, r)
      PROVE  Handled(i, r)
  <2>1. After(s, c.s)
    BY <1>1, ChooseAfter
  <2> HIDE DEF s, c
  <2>2. c.s.commits = 0 \/ c.s.commits = 0 + 1
    BY <1>1, <2>1 DEF After
  <2>3. PageKept(s, c.s)
    BY <2>1 DEF After
  <2>4. \/ r.s.commits = 0 \/ r.s.commits = 0 + 1
        \/ r.s.commits = c.s.commits \/ r.s.commits = c.s.commits + 1
    BY <1>1, <1>4, Zenon DEF Result
  <2>5. r.s.commits \in 0 .. 2
    BY <2>2, <2>4
  <2>6. Sound(r.s) /\ r.ret \in SUBSET Flags /\ PageKept(World(i), r.s)
    BY <1>1, <1>4, <2>3, PageKeptThen, Zenon DEF Result
  <2> QED
    BY <1>4, <2>5, <2>6, Zenon DEF Handled
<1>5. \A n : Result(s, Type(s, key, mod, n, {}))
  BY <1>1, <1>3, TypeResult, FlagSets
<1>6. \A k : Result(s, Select(s, k))
  BY <1>1, SelectOut, OutcomeResult
<1>7. Result(s, NextPage(s, key))
  BY <1>1, NextPageOut, OutcomeResult
<1>8. Result(s, [s |-> s, ret |-> {}])
  BY <1>1, StaysAfter, OutcomeOf, OutcomeResult, FlagSets
<1>9. After(s, c.s)
  BY <1>1, ChooseAfter
<1> HIDE DEF c
<1>10. Result(s, [s |-> c.s, ret |-> {}])
  BY <1>9, OutcomeOf, OutcomeResult, FlagSets
<1>11. Result(c.s, Type(c.s, key, mod, named, {"COMMIT"}))
  <2>1. Sound(c.s)
    BY <1>9, Zenon DEF After
  <2> QED
    BY <1>3, <2>1, TypeResult, FlagSets
<1> HIDE DEF s, done
<1> QED
  BY <1>2, <1>4, <1>5, <1>6, <1>7, <1>8, <1>10, <1>11, Zenon

\* A step is a key that a handler takes.
LEMMA StepHandled ==
  ASSUME GenInpInv, Next
  PROVE  \E i \in IC : \E r : Handled(i, r)
BY BackSpaceKeyHandled, EscapeKeyHandled, SpaceKeyHandled, TabKeyHandled, CharKeyHandled
   DEF Next, Keystroke

----------------------------------------------------------------------------
(* The contexts.                                                           *)

\* What a handler leaves is what the context and the shared buffers have.
LEMMA FinishSets ==
  ASSUME NEW i \in IC, GenInpInv, NEW r, Finish(i, r)
  PROVE  /\ cfmode' = cfmode /\ ret' = r.ret /\ cch' = r.s.cch /\ commits' = r.s.commits
         /\ inp' = [j \in IC |-> inp'[j]]
         /\ DOMAIN static' = {"normal", "wild"}
         /\ static'.normal = r.s.normal /\ static'.wild = r.s.wild
         /\ filled' \in [{"normal", "wild"} -> SUBSET IC]
         /\ \A f \in {"normal", "wild"} :
               filled'[f] = IF r.s[f] # static[f] THEN {i} ELSE filled[f]
         /\ \A j \in IC \ {i} : inp'[j] = inp[j]
         /\ DOMAIN inp'[i] = ICFields
         /\ \A f \in ICFields : inp'[i][f] = r.s[f]
<1>1. /\ inp = [j \in IC |-> inp[j]] /\ DOMAIN inp[i] = ICFields
      /\ DOMAIN static = {"normal", "wild"}
  BY Zenon DEF GenInpInv
<1>2. /\ inp' = [inp EXCEPT ![i] = [f \in ICFields |-> r.s[f]]]
      /\ static' = [f \in {"normal", "wild"} |-> r.s[f]]
      /\ cfmode' = cfmode /\ ret' = r.ret /\ cch' = r.s.cch /\ commits' = r.s.commits
  BY <1>1, Zenon DEF Finish
<1>3. DOMAIN inp = IC
  BY <1>1, Zenon
<1>4. /\ inp'[i] = [f \in ICFields |-> r.s[f]]
      /\ \A j \in IC \ {i} : inp'[j] = inp[j]
      /\ inp' = [j \in IC |-> inp'[j]]
  BY <1>2, <1>3, Zenon
<1>5. DOMAIN inp'[i] = ICFields /\ \A f \in ICFields : inp'[i][f] = r.s[f]
  BY <1>4, Zenon
<1>6. DOMAIN static' = {"normal", "wild"}
      /\ static'.normal = r.s.normal /\ static'.wild = r.s.wild
  BY <1>2
<1>7. /\ filled' \in [{"normal", "wild"} -> SUBSET IC]
      /\ \A f \in {"normal", "wild"} :
            filled'[f] = IF r.s[f] # static[f] THEN {i} ELSE filled[f]
  <2>1. filled \in [{"normal", "wild"} -> SUBSET IC]
    BY Zenon DEF GenInpInv
  <2>2. filled' = [f \in DOMAIN filled |->
                     IF r.s[f] # static[f] THEN {i} ELSE filled[f]]
    BY Zenon DEF Finish
  <2> QED
    BY <2>1, <2>2
<1> QED
  BY <1>2, <1>4, <1>5, <1>6, <1>7

\* Worlds that are the same to a context, but for the texts of the last key.
SameContext(s, t) ==
    /\ DOMAIN t = Fields
    /\ t.keystroke = s.keystroke /\ t.mode = s.mode /\ t.spot = s.spot
    /\ t.mcch = s.mcch /\ t.grouping = s.grouping
    /\ t.pgstate = s.pgstate /\ t.all = s.all /\ t.hidx = s.hidx /\ t.eidx = s.eidx
    /\ t.mkeys = s.mkeys /\ t.has_tsi = s.has_tsi
    /\ t.normal \in Seq(Nat) /\ t.wild \in Seq(Nat) /\ t.commits = 0

\* The world of a context after a step.
LEMMA WorldThen ==
  ASSUME NEW i \in IC, GenInpInv, NEW r, Finish(i, r), Sound(r.s)
  PROVE  /\ SameContext(r.s, World(i)')
         /\ World(i)'.normal = r.s.normal /\ World(i)'.wild = r.s.wild
         /\ \A j \in IC \ {i} : SameContext(World(j), World(j)')
<1>1. /\ static'.normal = r.s.normal /\ static'.wild = r.s.wild
      /\ \A j \in IC \ {i} : inp'[j] = inp[j]
      /\ \A f \in ICFields : inp'[i][f] = r.s[f]
  BY FinishSets
<1>2. \A j : LET t == World(j)' IN
         /\ DOMAIN t = Fields
         /\ t.keystroke = inp'[j].keystroke /\ t.mode = inp'[j].mode /\ t.spot = inp'[j].spot
         /\ t.mcch = inp'[j].mcch /\ t.grouping = inp'[j].grouping
         /\ t.pgstate = inp'[j].pgstate /\ t.all = inp'[j].all /\ t.hidx = inp'[j].hidx
         /\ t.eidx = inp'[j].eidx /\ t.mkeys = inp'[j].mkeys /\ t.has_tsi = inp'[j].has_tsi
         /\ t.normal = static'.normal /\ t.wild = static'.wild /\ t.commits = 0
  BY SMT DEF World, Fields
<1>3. r.s.normal \in Seq(Nat) /\ r.s.wild \in Seq(Nat)
  BY Zenon DEF Sound, Typed
<1>4. SameContext(r.s, World(i)') /\ World(i)'.normal = r.s.normal /\ World(i)'.wild = r.s.wild
  <2>1. /\ inp'[i].keystroke = r.s.keystroke /\ inp'[i].mode = r.s.mode
        /\ inp'[i].spot = r.s.spot /\ inp'[i].mcch = r.s.mcch
        /\ inp'[i].grouping = r.s.grouping /\ inp'[i].pgstate = r.s.pgstate
        /\ inp'[i].all = r.s.all /\ inp'[i].hidx = r.s.hidx /\ inp'[i].eidx = r.s.eidx
        /\ inp'[i].mkeys = r.s.mkeys /\ inp'[i].has_tsi = r.s.has_tsi
    BY <1>1, Zenon DEF ICFields
  <2> QED
    BY <1>1, <1>2, <1>3, <2>1, Zenon DEF SameContext
<1>5. ASSUME NEW j \in IC \ {i}
      PROVE  SameContext(World(j), World(j)')
  <2>1. inp'[j] = inp[j]
    BY <1>1
  <2>2. LET s == World(j) IN
         /\ s.keystroke = inp[j].keystroke /\ s.mode = inp[j].mode /\ s.spot = inp[j].spot
         /\ s.mcch = inp[j].mcch /\ s.grouping = inp[j].grouping
         /\ s.pgstate = inp[j].pgstate /\ s.all = inp[j].all /\ s.hidx = inp[j].hidx
         /\ s.eidx = inp[j].eidx /\ s.mkeys = inp[j].mkeys /\ s.has_tsi = inp[j].has_tsi
    BY WorldIs
  <2> DEFINE t == World(j)'
  <2>3. /\ DOMAIN t = Fields
        /\ t.keystroke = inp[j].keystroke /\ t.mode = inp[j].mode /\ t.spot = inp[j].spot
        /\ t.mcch = inp[j].mcch /\ t.grouping = inp[j].grouping
        /\ t.pgstate = inp[j].pgstate /\ t.all = inp[j].all /\ t.hidx = inp[j].hidx
        /\ t.eidx = inp[j].eidx /\ t.mkeys = inp[j].mkeys /\ t.has_tsi = inp[j].has_tsi
        /\ t.normal \in Seq(Nat) /\ t.wild \in Seq(Nat) /\ t.commits = 0
    BY <1>1, <1>2, <1>3, <2>1
  <2> HIDE DEF t
  <2> DEFINE s == World(j)
  <2> HIDE DEF s
  <2>4. SameContext(s, t)
    BY <2>2, <2>3, Zenon DEF SameContext, s
  <2> QED
    BY <2>4 DEF s, t
<1> QED
  BY <1>4, <1>5

\* They are as sound as each other, also when the options are primed.
LEMMA SameContextSound ==
  ASSUME NEW s, NEW t, Sound(s), SameContext(s, t)
  PROVE  Sound(t)
<1>1. Typed(s) /\ Plain(s)
  BY DEF Sound
<1>2. Typed(t)
  <2>1. t.commits \in Nat
    BY DEF SameContext
  <2> QED
    BY <1>1, <2>1, Zenon DEF Typed, SameContext
<1>3. Plain(t)
  BY <1>1, Zenon DEF Plain, SameContext
<1> QED
  BY <1>2, <1>3 DEF Sound

\* A key that is handled keeps what is always so,
LEMMA HandledInv ==
  ASSUME NEW i \in IC, GenInpInv, NEW r, Handled(i, r)
  PROVE  GenInpInv'
<1>1. /\ Finish(i, r) /\ Sound(r.s) /\ r.ret \in SUBSET Flags
      /\ r.s.commits \in 0 .. 2 /\ Len(r.s.keystroke) <= MaxTyped
  BY Zenon DEF Handled
<1>2. /\ cfmode' = cfmode /\ ret' = r.ret /\ commits' = r.s.commits
      /\ inp' = [j \in IC |-> inp'[j]]
      /\ DOMAIN static' = {"normal", "wild"}
      /\ \A j \in IC \ {i} : inp'[j] = inp[j]
      /\ DOMAIN inp'[i] = ICFields
      /\ \A f \in ICFields : inp'[i][f] = r.s[f]
      /\ filled' \in [{"normal", "wild"} -> SUBSET IC]
  BY <1>1, FinishSets
<1>3. NSelkey' = NSelkey
  BY <1>2, Zenon DEF NSelkey, On
<1>4. ASSUME NEW j \in IC
      PROVE  /\ DOMAIN inp'[j] = ICFields
             /\ Sound(World(j))'
             /\ Len(inp'[j].keystroke) <= MaxTyped
  <2>1. Sound(World(j)) /\ DOMAIN inp[j] = ICFields /\ Len(inp[j].keystroke) <= MaxTyped
    BY Zenon DEF GenInpInv
  <2>2. \E t : t = World(j)' /\ Sound(t)
    <3>1. CASE j = i
      BY <1>1, <3>1, WorldThen, SameContextSound
    <3>2. CASE j # i
      <4>1. SameContext(World(j), World(j)')
        BY <1>1, <3>2, WorldThen
      <4> QED
        BY <2>1, <4>1, SameContextSound
    <3> QED
      BY <3>1, <3>2
  <2>3. PICK t : t = World(j)' /\ Sound(t)
    BY <2>2
  <2>4. Sound(World(j))'
    BY <1>3, <2>3, Zenon DEF Sound, Typed, Plain
  <2>5. inp'[i].keystroke = r.s.keystroke
    BY <1>2 DEF ICFields
  <2> QED
    BY <1>1, <1>2, <2>1, <2>4, <2>5, Zenon
<1>5. cfmode \in SUBSET AllModes
  BY Zenon DEF GenInpInv
<1> QED
  BY <1>1, <1>2, <1>4, <1>5, Zenon DEF GenInpInv

\* nothing happens,
LEMMA InvStays ==
  ASSUME GenInpInv, UNCHANGED vars
  PROVE  GenInpInv'
<1>1. cfmode' = cfmode /\ inp' = inp /\ static' = static /\ ret' = ret /\ commits' = commits
      /\ filled' = filled
  BY Zenon DEF vars
<1>2. NSelkey' = NSelkey
  BY <1>1, Zenon DEF NSelkey, On
<1>3. \A i : World(i)' = World(i)
  BY <1>1, Zenon DEF World
<1>4. \A i : Sound(World(i)) => Sound(World(i))'
  BY <1>2, <1>3, Zenon DEF Sound, Typed, Plain
<1> QED
  BY <1>1, <1>4, Zenon DEF GenInpInv

\* as it is in the beginning.
LEMMA InitInv ==
  ASSUME Init
  PROVE  GenInpInv
<1>1. cfmode \in SUBSET AllModes
  BY DEF Init, EffectiveMode, AllModes
<1>2. inp = [i \in IC |-> FreshIC] /\ static = [normal |-> <<>>, wild |-> <<>>]
      /\ ret = {} /\ commits = 0
  BY DEF Init
<1>3. inp = [i \in IC |-> inp[i]] /\ DOMAIN static = {"normal", "wild"}
      /\ static.normal = <<>> /\ static.wild = <<>>
  BY <1>2
<1>4. /\ ret \in SUBSET Flags /\ commits \in 0 .. 2
      /\ filled \in [{"normal", "wild"} -> SUBSET IC]
  BY <1>2, FlagSets DEF Init
<1>5. ASSUME NEW i \in IC
      PROVE  /\ DOMAIN inp[i] = ICFields
             /\ Sound(World(i))
             /\ Len(inp[i].keystroke) <= MaxTyped
  <2> DEFINE s == World(i)
  <2>1. inp[i] = FreshIC
    BY <1>2
  <2>2. DOMAIN inp[i] = ICFields /\ inp[i].keystroke = <<>>
    BY <2>1 DEF FreshIC, ICFields
  <2>3. /\ DOMAIN s = Fields
        /\ s.keystroke = <<>> /\ s.mode = {} /\ s.spot = FALSE
        /\ s.mcch = <<>> /\ s.grouping = "none"
        /\ s.pgstate = "ONEPG" /\ s.all = <<>> /\ s.hidx = 0
        /\ s.eidx = 0 /\ s.has_tsi = FALSE
        /\ s.normal = <<>> /\ s.wild = <<>> /\ s.commits = 0
    <3>1. /\ FreshIC.keystroke = <<>> /\ FreshIC.mode = {} /\ FreshIC.spot = FALSE
          /\ FreshIC.mcch = <<>> /\ FreshIC.grouping = "none"
          /\ FreshIC.pgstate = "ONEPG" /\ FreshIC.all = <<>> /\ FreshIC.hidx = 0
          /\ FreshIC.eidx = 0 /\ FreshIC.has_tsi = FALSE
      BY DEF FreshIC
    <3> QED
      BY <1>3, <2>1, <3>1, WorldIs
  <2> HIDE DEF s
  <2>4. Len(<<>>) <= NSelkey /\ Len(<<>>) <= MaxTyped
    BY NSelkeyType, ConstantsOK, Empty
  <2>5. Typed(s)
    <3>1. s.mode \in SUBSET Marks /\ s.has_tsi \in BOOLEAN /\ s.pgstate \in PageState
          /\ s.grouping \in {"none", "normal", "own", "wild"}
      BY <2>3, Zenon DEF PageState
    <3>2. s.hidx \in Int /\ s.eidx \in Int /\ s.commits \in Nat
      BY <2>3
    <3> QED
      BY <2>3, <2>4, <3>1, <3>2, Empty, Zenon DEF Typed
  <2>6. Plain(s)
    <3>1. 1 .. Len(s.mcch) = {}
      BY <2>3, Empty
    <3> QED
      BY <2>3, <3>1, Zenon DEF Plain
  <2> QED
    BY <2>2, <2>4, <2>5, <2>6 DEF Sound, s
<1> QED
  BY <1>1, <1>3, <1>4, <1>5, Zenon DEF GenInpInv

\* It is so in every state.
THEOREM GenInpInvAlways == Spec => []GenInpInv
<1>1. Init => GenInpInv
  BY InitInv
<1>2. GenInpInv /\ [Next]_vars => GenInpInv'
  <2>1. CASE Next
    BY <2>1, StepHandled, HandledInv
  <2>2. CASE UNCHANGED vars
    BY <2>2, InvStays
  <2> QED
    BY <2>1, <2>2
<1> QED
  BY <1>1, <1>2, PTL DEF Spec

\* The types of the variables, whatever the table, the rcfile and the keys are.
THEOREM TypeCorrect == Spec => []TypeOK
<1>1. GenInpInv => TypeOK
  <2> SUFFICES ASSUME GenInpInv
               PROVE  TypeOK
    OBVIOUS
  <2>1. ASSUME NEW i \in IC
        PROVE  /\ inp[i].mode \subseteq {"MCCH", "SPACE", "INWILD", "WRONG"}
               /\ inp[i].pgstate \in {"ONEPG", "BEGIN", "MIDDLE", "END"}
               /\ inp[i].grouping \in {"none", "normal", "own", "wild"}
               /\ Len(inp[i].keystroke) \in 0 .. MaxTyped
               /\ Len(inp[i].mcch) \in 0 .. NSelkey
    <3> DEFINE s == World(i)
    <3>1. Typed(s) /\ Len(inp[i].keystroke) <= MaxTyped
      BY DEF GenInpInv, Sound
    <3>2. /\ s.keystroke = inp[i].keystroke /\ s.mode = inp[i].mode
          /\ s.mcch = inp[i].mcch /\ s.grouping = inp[i].grouping
          /\ s.pgstate = inp[i].pgstate
      BY WorldIs
    <3> HIDE DEF s
    <3>3. /\ s.keystroke \in Seq(Key) /\ s.mode \in SUBSET Marks
          /\ s.mcch \in Seq(Cand) /\ Len(s.mcch) <= NSelkey
          /\ s.grouping \in {"none", "normal", "own", "wild"}
          /\ s.pgstate \in PageState
      BY <3>1, Zenon DEF Typed
    <3>4. Len(s.keystroke) \in Nat /\ Len(s.mcch) \in Nat /\ MaxTyped \in Nat /\ NSelkey \in Nat
      BY <3>3, LenProperties, ConstantsOK, NSelkeyType
    <3>5. Len(inp[i].keystroke) \in 0 .. MaxTyped /\ Len(inp[i].mcch) \in 0 .. NSelkey
      BY <3>1, <3>2, <3>3, <3>4
    <3> QED
      BY <3>2, <3>3, <3>5, Zenon DEF Marks, PageState
  <2>2. /\ cfmode \subseteq AllModes /\ ret \subseteq Flags /\ commits \in 0 .. 2
        /\ filled \in [{"normal", "wild"} -> SUBSET IC]
    BY Zenon DEF GenInpInv
  <2> QED
    BY <2>1, <2>2, Zenon DEF TypeOK, Flags
<1> QED
  BY <1>1, GenInpInvAlways, PTL

\* A keystroke with wild cards shows nothing that it does not spell, whatever the table
\* and the keys are.
THEOREM WildWithinGlobAlways == Spec => []WildWithinGlob
<1>1. GenInpInv => WildWithinGlob
  <2> SUFFICES ASSUME GenInpInv, NEW i \in IC, NEW k \in DOMAIN Table,
                      WildMatch(inp[i].keystroke, Table[k].ks)
               PROVE  Glob(inp[i].keystroke, Table[k].ks)
    BY DEF WildWithinGlob
  <2>1. inp[i].keystroke \in Seq(Key)
    <3>1. World(i).keystroke \in Seq(Key)
      BY Zenon DEF GenInpInv, Sound, Typed
    <3> QED
      BY <3>1, WorldIs
  <2>2. Table[k].ks \in Seq(Key)
    <3>1. DOMAIN Table = 1 .. Len(Table) /\ Len(Table) \in Nat
      BY EntryType
    <3>2. k - 1 \in Place /\ (k - 1) + 1 = k
      BY <3>1 DEF Place
    <3>3. Entry(k - 1).ks \in Seq(Key)
      BY <3>2, EntryType
    <3> QED
      BY <3>2, <3>3 DEF Entry
  <2> QED
    BY <2>1, <2>2, MatchWithinGlob
<1> QED
  BY <1>1, GenInpInvAlways, PTL

\* The page of the context that took the key, if it may claim its grouping then,
LEMMA OwnPageKept ==
  ASSUME NEW i \in IC, GenInpInv, NEW r, Handled(i, r),
         OwnsGrouping(i) => Grouped(World(i)), OwnsGrouping(i)'
  PROVE  Grouped(World(i)')
<1> DEFINE w == World(i)
           t == World(i)'
<1>1. Finish(i, r) /\ Sound(r.s) /\ PageKept(w, r.s)
  BY Zenon DEF Handled
<1>2. SameContext(r.s, t) /\ t.normal = r.s.normal /\ t.wild = r.s.wild
  BY <1>1, WorldThen
<1>3. /\ w.grouping = inp[i].grouping /\ w.normal = static.normal /\ w.wild = static.wild
  BY WorldIs
<1>4. /\ filled' \in [{"normal", "wild"} -> SUBSET IC]
      /\ \A f \in {"normal", "wild"} :
            filled'[f] = IF r.s[f] # static[f] THEN {i} ELSE filled[f]
      /\ inp'[i].grouping = r.s.grouping
  BY <1>1, FinishSets DEF ICFields
<1>5. filled \in [{"normal", "wild"} -> SUBSET IC]
  BY Zenon DEF GenInpInv
<1> HIDE DEF w, t
<1>6. Grouped(r.s)
  <2>1. CASE Grouped(r.s)
    BY <2>1
  <2>2. CASE Unturned(w, r.s)
    <3>1. inp'[i].grouping = inp[i].grouping
      BY <1>3, <1>4, <2>2 DEF Unturned
    <3>2. filled' = filled
      <4>1. r.s.normal = static.normal /\ r.s.wild = static.wild
        BY <1>3, <2>2 DEF Unturned
      <4>2. filled'["normal"] = filled["normal"] /\ filled'["wild"] = filled["wild"]
        BY <1>4, <4>1
      <4> QED
        BY <1>4, <1>5, <4>2
    <3>3. OwnsGrouping(i)
      BY <3>1, <3>2 DEF OwnsGrouping
    <3> QED
      BY <2>2, <3>3, UnturnedGrouped DEF w
  <2> QED
    BY <1>1, <2>1, <2>2 DEF PageKept
<1>7. Unturned(r.s, t)
  BY <1>2, Zenon DEF Unturned, SameContext
<1> QED
  BY <1>6, <1>7, UnturnedGrouped DEF t

\* and that of any other context.
LEMMA OtherPageKept ==
  ASSUME NEW i \in IC, GenInpInv, NEW r, Handled(i, r), NEW j \in IC, j # i,
         OwnsGrouping(j) => Grouped(World(j)), OwnsGrouping(j)'
  PROVE  Grouped(World(j)')
<1> DEFINE w == World(j)
           t == World(j)'
<1>1. Finish(i, r) /\ Sound(r.s)
  BY Zenon DEF Handled
<1>2. SameContext(w, t)
  BY <1>1, WorldThen
<1>3. /\ filled' \in [{"normal", "wild"} -> SUBSET IC]
      /\ \A f \in {"normal", "wild"} :
            filled'[f] = IF r.s[f] # static[f] THEN {i} ELSE filled[f]
      /\ inp'[j] = inp[j]
      /\ static'.normal = r.s.normal /\ static'.wild = r.s.wild
  BY <1>1, FinishSets
<1>4. filled \in [{"normal", "wild"} -> SUBSET IC]
  BY Zenon DEF GenInpInv
<1>5. /\ w.grouping = inp[j].grouping /\ w.normal = static.normal /\ w.wild = static.wild
  BY WorldIs
<1>6. t.normal = static'.normal /\ t.wild = static'.wild
  BY SMT DEF World
<1> HIDE DEF w, t
<1>7. \A f \in {"normal", "wild"} :
        w.grouping = f => j \in filled[f] /\ r.s[f] = static[f]
  <2> SUFFICES ASSUME NEW f \in {"normal", "wild"}, w.grouping = f
               PROVE  j \in filled[f] /\ r.s[f] = static[f]
    OBVIOUS
  <2>1. j \in filled'[f]
    BY <1>3, <1>5 DEF OwnsGrouping
  <2> QED
    BY <1>3, <2>1
<1>8. OwnsGrouping(j)
  BY <1>4, <1>5, <1>7 DEF OwnsGrouping
<1>9. Grouped(w)
  BY <1>8 DEF w
<1>10. /\ w.grouping = "normal" => t.normal = w.normal
       /\ w.grouping = "wild" => t.wild = w.wild
  BY <1>3, <1>5, <1>6, <1>7
<1>11. \A k : Grouping(t, k) = Grouping(w, k)
  BY <1>2, <1>10 DEF Grouping, SameContext
<1>12. Grouped(t)
  BY <1>2, <1>9, <1>11, Zenon DEF Grouped, SameContext
<1> QED
  BY <1>12 DEF t

\* The same with the grouping of the page.
GroupedInv == GenInpInv /\ \A i \in IC : OwnsGrouping(i) => Grouped(World(i))

\* However many contexts take turns in typing, the windows and a commit of each read
\* the grouping of its page, as long as no other context was the last to change the
\* array it stands in.
THEOREM GroupingOfPageAlways == Spec => []GroupingOfPage
<1>1. Init => GroupedInv
  <2> SUFFICES ASSUME Init
               PROVE  GroupedInv
    OBVIOUS
  <2>1. ASSUME NEW i \in IC
        PROVE  Grouped(World(i))
    <3>1. World(i).mcch = inp[i].mcch
      BY WorldIs
    <3>2. inp[i].mcch = <<>>
      BY DEF Init, FreshIC
    <3> QED
      BY <3>1, <3>2, EmptyPage
  <2> QED
    BY <2>1, InitInv DEF GroupedInv
<1>2. GroupedInv /\ [Next]_vars => GroupedInv'
  <2> SUFFICES ASSUME GroupedInv, [Next]_vars
               PROVE  GroupedInv'
    OBVIOUS
  <2>1. GenInpInv /\ \A i \in IC : OwnsGrouping(i) => Grouped(World(i))
    BY DEF GroupedInv
  <2>2. CASE Next
    <3>1. PICK i \in IC : \E r : Handled(i, r)
      BY <2>1, <2>2, StepHandled
    <3>2. PICK r : Handled(i, r)
      BY <3>1
    <3>3. GenInpInv'
      BY <2>1, <3>2, HandledInv
    <3>4. \A j \in IC : OwnsGrouping(j)' => Grouped(World(j)')
      BY <2>1, <3>2, OwnPageKept, OtherPageKept
    <3> QED
      BY <3>3, <3>4, Zenon DEF GroupedInv, Grouped, Grouping
  <2>3. CASE UNCHANGED vars
    <3>1. GenInpInv'
      BY <2>1, <2>3, InvStays
    <3>2. \A i : World(i)' = World(i) /\ OwnsGrouping(i)' = OwnsGrouping(i)
      BY <2>3, Zenon DEF vars, World, OwnsGrouping
    <3> QED
      BY <2>1, <3>1, <3>2, Zenon DEF GroupedInv, Grouped, Grouping
  <2> QED
    BY <2>2, <2>3
<1>3. GroupedInv => GroupingOfPage
  <2> SUFFICES ASSUME GroupedInv, NEW i \in IC, OwnsGrouping(i)
               PROVE  LET w == World(i)
                      IN  \A k \in DOMAIN w.mcch :
                            Len(w.mcch[k]) = IF w.grouping = "none" THEN 1 ELSE Grouping(w, k)
    BY Zenon DEF GroupingOfPage
  <2> DEFINE w == World(i)
  <2>1. Sound(w) /\ Grouped(w)
    BY Zenon DEF GroupedInv, GenInpInv
  <2> HIDE DEF w
  <2>2. w.mcch \in Seq(Cand)
    BY <2>1, Zenon DEF Sound, Typed
  <2>3. DOMAIN w.mcch = 1 .. Len(w.mcch)
    BY <2>2, LenProperties
  <2>4. \A k \in DOMAIN w.mcch : Len(w.mcch[k]) = IF w.grouping = "none" THEN 1 ELSE Grouping(w, k)
    BY <2>1, <2>3, Zenon DEF Grouped
  <2> QED
    BY <2>4 DEF w
<1> QED
  BY <1>1, <1>2, <1>3, PTL DEF Spec

----------------------------------------------------------------------------
(* Multiples of the number of selection keys.                              *)

\* Division with a rest.
LEMMA Divided ==
  ASSUME NEW n \in Nat \ {0}, NEW p \in Nat
  PROVE  p = n * (p \div n) + (p % n) /\ p % n \in 0 .. n - 1 /\ p \div n \in Int
BY SMT

\* A multiple of n between 0 and n is 0.
LEMMA NoneBetween ==
  ASSUME NEW n \in Nat \ {0}, NEW x \in Int, n * x < n, n * x >= 0
  PROVE  x = 0
<1>1. CASE x >= 1
  BY <1>1, SMT
<1>2. CASE x <= -1
  BY <1>2, SMT
<1> QED
  BY <1>1, <1>2, SMT

\* A multiple leaves no rest,
LEMMA MultipleIs ==
  ASSUME NEW n \in Nat \ {0}, NEW p \in Nat, NEW q \in Int, p = n * q
  PROVE  p % n = 0
<1> DEFINE d == p \div n
           r == p % n
<1>1. p = n * d + r /\ r \in 0 .. n - 1 /\ d \in Int
  BY Divided
<1> HIDE DEF d, r
<1>2. n * (q - d) = r
  BY <1>1, SMT
<1>3. q - d = 0
  BY <1>1, <1>2, NoneBetween
<1>4. n * (q - d) = 0
  BY <1>3, SMT
<1> QED
  BY <1>2, <1>4 DEF r

\* and neither do the next one and the one before.
LEMMA MultiplesNear ==
  ASSUME NEW n \in Nat \ {0}, NEW p \in Nat, p % n = 0
  PROVE  /\ 0 % n = 0
         /\ (p + n) % n = 0
         /\ p # 0 => p - n \in Nat /\ (p - n) % n = 0
<1> DEFINE d == p \div n
<1>1. p = n * d + 0 /\ d \in Int
  BY Divided
<1> HIDE DEF d
<1>2. p + n = n * (d + 1) /\ p - n = n * (d - 1) /\ 0 = n * 0
  BY <1>1, SMT
<1>3. p + n \in Nat /\ d + 1 \in Int /\ d - 1 \in Int /\ 0 \in Nat /\ 0 \in Int
  BY <1>1
<1>4. 0 % n = 0 /\ (p + n) % n = 0
  BY <1>2, <1>3, MultipleIs
<1>5. ASSUME p # 0
      PROVE  p - n \in Nat /\ (p - n) % n = 0
  <2>1. ~(p < n)
    BY <1>5, SMT
  <2>2. p - n \in Nat
    BY <2>1, SMT
  <2> QED
    BY <1>2, <1>3, <2>2, MultipleIs
<1> QED
  BY <1>4, <1>5

----------------------------------------------------------------------------
(* What is shown is a page of what was found.                              *)

\* The places that answer a keystroke.
Matching(s) == IF "INWILD" \in s.mode THEN Spelt(s.keystroke) ELSE Exact(s.keystroke)
Found(s)    == Kept(Places, Matching(s))

\* The page mark of the page behind p, of L candidates.
Mark(p, L) == IF L <= NSelkey THEN "ONEPG"
              ELSE IF p = 0 THEN "BEGIN"
              ELSE IF p + NSelkey < L THEN "MIDDLE" ELSE "END"

\* The page behind p, cut out of what was found, as the windows show it,
Slice(q, p, page, mark) ==
    /\ p < Len(q) /\ p % NSelkey = 0
    /\ page = SubSeq(Zis(q), p + 1, Least(p + NSelkey, Len(q)))
    /\ mark = Mark(p, Len(q))

\* and as fillpage() finds its way from it: by the first candidate, or by the first and
\* the last place in the table.
Ends(q, p, h, e) ==
    \A k \in 1 .. Len(q) : /\ (k <= p) <=> (q[k] < h)
                           /\ (k <= Least(p + NSelkey, Len(q))) <=> (q[k] <= e)

PageAt(s, p) ==
    /\ Slice(Found(s), p, s.mcch, s.pgstate)
    /\ "INWILD" \notin s.mode =>
         s.all = Zis(Found(s)) /\ (s.pgstate # "ONEPG" => s.hidx = p)
    /\ ("INWILD" \in s.mode /\ s.pgstate # "ONEPG") =>
         Ends(Found(s), p, s.hidx, s.eidx)

Shown(s) == IF Found(s) = <<>> THEN s.mcch = <<>> ELSE \E p \in Nat : PageAt(s, p)

\* What was found.
LEMMA FoundIs ==
  ASSUME NEW s
  PROVE  LET q == Found(s) IN
         /\ InOrder(q, Matching(s)) /\ AtPlaces(q) /\ Rising(q)
         /\ q \in Seq(Nat) /\ Len(q) \in Nat
         /\ q = <<>> <=> Len(q) = 0
         /\ Zis(q) \in Seq(Cand) /\ Len(Zis(q)) = Len(q)
<1> DEFINE q == Found(s)
<1>1. InOrder(q, Matching(s))
  BY KeptInOrder DEF Found
<1> HIDE DEF q
<1>2. AtPlaces(q) /\ Rising(q) /\ q \in Seq(Nat)
  BY <1>1, InOrderAtPlaces DEF InOrder
<1>3. Len(q) \in Nat /\ (q = <<>> <=> Len(q) = 0)
  BY <1>2, EmptySeq, LenProperties
<1>4. Zis(q) \in Seq(Cand) /\ Len(Zis(q)) = Len(q)
  BY <1>2, ZisAre
<1> QED
  BY <1>1, <1>2, <1>3, <1>4 DEF q

\* A page has something on it.
LEMMA PageHolds ==
  ASSUME NEW s, NEW p \in Nat, PageAt(s, p)
  PROVE  /\ Shown(s) /\ s.mcch # <<>> /\ Found(s) # <<>>
         /\ Len(s.mcch) = Least(p + NSelkey, Len(Found(s))) - p
         /\ Len(s.mcch) \in Nat
         /\ \A k \in 1 .. Len(s.mcch) : /\ p + k \in 1 .. Len(Found(s))
                                        /\ s.mcch[k] = Zis(Found(s))[p + k]
<1> DEFINE q == Found(s)
           L == Len(q)
           n == NSelkey
           b == Least(p + n, L)
<1>1. /\ q \in Seq(Nat) /\ L \in Nat /\ (q = <<>> <=> L = 0)
      /\ Zis(q) \in Seq(Cand) /\ Len(Zis(q)) = L
  BY FoundIs
<1>2. n \in Nat \ {0}
  BY NSelkeyType
<1>3. p < L /\ s.mcch = SubSeq(Zis(q), p + 1, b)
  BY Zenon DEF PageAt, Slice
<1> HIDE DEF q, n, L
<1>4. b \in Int /\ b <= L /\ p < b /\ 1 <= p + 1 /\ p + 1 \in Int
  BY <1>1, <1>2, <1>3, SMT DEF Least
<1> HIDE DEF b
<1>5. /\ Len(s.mcch) = IF p + 1 <= b THEN (b - (p + 1)) + 1 ELSE 0
      /\ Len(s.mcch) \in Nat
      /\ \A k \in 1 .. Len(s.mcch) :
           /\ s.mcch[k] = Zis(q)[((p + 1) + k) - 1]
           /\ ((p + 1) + k) - 1 \in 1 .. L
  BY <1>1, <1>3, <1>4, Part
<1>6. Len(s.mcch) = b - p /\ Len(s.mcch) # 0
  BY <1>4, <1>5, SMT
<1>7. s.mcch # <<>>
  BY <1>6, EmptySeq
<1>8. \A k \in Nat : ((p + 1) + k) - 1 = p + k
  BY SMT
<1>9. \A k \in 1 .. Len(s.mcch) : s.mcch[k] = Zis(q)[p + k] /\ p + k \in 1 .. L
  BY <1>5, <1>8
<1>10. q # <<>>
  BY <1>1, <1>3, SMT
<1>11. Shown(s)
  BY <1>10, Zenon DEF Shown, q
<1> QED
  BY <1>5, <1>6, <1>7, <1>9, <1>10, <1>11 DEF q, L, n, b

\* What is shown is found under the keystroke.
LEMMA ShownAnswers ==
  ASSUME NEW s, Shown(s), NEW k \in 1 .. Len(s.mcch)
  PROVE  \E x \in Place : x \in Matching(s) /\ Entry(x).zi = s.mcch[k]
<1>1. s.mcch # <<>>
  <2>1. 1 .. 0 = {}
    OBVIOUS
  <2> QED
    BY <2>1, EmptySeq
<1>2. \E p \in Nat : PageAt(s, p)
  BY <1>1, Zenon DEF Shown
<1>3. PICK p \in Nat : PageAt(s, p)
  BY <1>2
<1> DEFINE q == Found(s)
<1>4. p + k \in 1 .. Len(q) /\ s.mcch[k] = Zis(q)[p + k]
  BY <1>3, PageHolds
<1>5. InOrder(q, Matching(s)) /\ AtPlaces(q)
  BY FoundIs
<1> HIDE DEF q
<1>6. Zis(q)[p + k] = Entry(q[p + k]).zi
  BY <1>4, <1>5, ZisAre
<1>7. Has(q, q[p + k])
  BY <1>4, Zenon DEF Has
<1>8. q[p + k] \in Place /\ q[p + k] \in Matching(s)
  BY <1>5, <1>7, Zenon DEF InOrder
<1> QED
  BY <1>4, <1>6, <1>8

\* It depends on the keystroke, wild cards and the page only.
LEMMA ShownSame ==
  ASSUME NEW s, NEW t, Shown(s),
         t.keystroke = s.keystroke, "INWILD" \in t.mode <=> "INWILD" \in s.mode,
         t.mcch = s.mcch, t.pgstate = s.pgstate, t.all = s.all, t.hidx = s.hidx,
         t.eidx = s.eidx
  PROVE  Shown(t)
<1>1. Found(t) = Found(s)
  BY Zenon DEF Found, Matching
<1> QED
  BY <1>1, Zenon DEF Shown, PageAt

----------------------------------------------------------------------------
(* A search shows the first page.                                          *)

\* The page mark, case by case.
LEMMA MarkIs ==
  ASSUME NEW p \in Nat, NEW L \in Nat
  PROVE  /\ L <= NSelkey => Mark(p, L) = "ONEPG"
         /\ (L > NSelkey /\ p = 0) => Mark(p, L) = "BEGIN"
         /\ (L > NSelkey /\ p # 0 /\ p + NSelkey < L) => Mark(p, L) = "MIDDLE"
         /\ (L > NSelkey /\ p # 0 /\ ~(p + NSelkey < L)) => Mark(p, L) = "END"
         /\ Mark(p, L) # "ONEPG" => L > NSelkey
<1>1. NSelkey \in Nat
  BY NSelkeyType
<1> DEFINE n == NSelkey
<1> HIDE DEF n
<1>2. n = NSelkey /\ n \in Nat
  BY <1>1 DEF n
<1>3. L > n <=> ~(L <= n)
  BY <1>2, SMT
<1> QED
  BY <1>2, <1>3, Zenon DEF Mark

\* match_keystroke_normal(),
LEMMA MatchNormalShown ==
  ASSUME NEW s, DOMAIN s = Fields, "INWILD" \notin s.mode, s.mcch = <<>>
  PROVE  Shown(MatchNormal(s))
<1> DEFINE t    == MatchNormal(s)
           q    == Found(t)
           all  == Zis(Kept(Places, Exact(s.keystroke)))
           page == SubSeq(all, 1, Least(NSelkey, Len(all)))
           L    == Len(q)
<1>1. NormalSets(s, t, all, page)
  BY MatchNormalSets
<1> HIDE DEF t
<1>2. t.keystroke = s.keystroke /\ t.mode = s.mode
  BY <1>1, Zenon DEF NormalSets
<1>3. all = Zis(q)
  BY <1>2, Zenon DEF Found, Matching
<1>4. L \in Nat /\ (q = <<>> <=> L = 0) /\ Zis(q) \in Seq(Cand) /\ Len(Zis(q)) = L
  BY FoundIs
<1>5. NSelkey \in Nat \ {0}
  BY NSelkeyType
<1> HIDE DEF q
<1>6. Len(page) = Least(NSelkey, L)
  BY <1>3, <1>4, FirstPage
<1> HIDE DEF all, page
<1>7. all = <<>> <=> q = <<>>
  BY <1>3, <1>4, EmptySeq
<1>8. CASE q = <<>>
  <2>1. t.mcch = <<>>
    BY <1>1, <1>7, <1>8, Zenon DEF NormalSets
  <2> QED
    BY <1>8, <2>1 DEF Shown, t, q
<1>9. CASE q # <<>>
  <2>1. /\ t.all = all /\ t.mcch = page
        /\ t.pgstate = IF Len(all) > Len(page) THEN "BEGIN" ELSE "ONEPG"
        /\ t.hidx = IF Len(all) > Len(page) THEN 0 ELSE s.hidx
    BY <1>1, <1>7, <1>9, Zenon DEF NormalSets
  <2>2. Len(all) > Len(page) <=> L > NSelkey
    BY <1>3, <1>4, <1>5, <1>6, SMT DEF Least
  <2>3. 0 < L /\ 0 % NSelkey = 0 /\ 0 + NSelkey = NSelkey
    BY <1>4, <1>5, <1>9, MultiplesNear
  <2>4. t.mcch = SubSeq(Zis(q), 0 + 1, Least(0 + NSelkey, L))
    <3>1. 0 + 1 = 1 /\ 0 + NSelkey = NSelkey /\ Len(all) = L
      BY <1>3, <1>4, <2>3
    <3> QED
      BY <1>3, <2>1, <3>1, Zenon DEF page
  <2>5. t.pgstate = Mark(0, L)
    BY <1>4, <1>5, <2>1, <2>2, MarkIs
  <2>6. Slice(q, 0, t.mcch, t.pgstate)
    BY <2>3, <2>4, <2>5, Zenon DEF Slice, L
  <2>7. t.pgstate # "ONEPG" => t.hidx = 0
    BY <2>1, Zenon
  <2>8. PageAt(t, 0)
    BY <1>2, <1>3, <2>1, <2>6, <2>7, Zenon DEF PageAt, q
  <2> QED
    BY <1>9, <2>8 DEF Shown, q, t
<1> QED
  BY <1>8, <1>9

\* The first and the last place of a page tell what lies before and behind it.
LEMMA EndsOf ==
  ASSUME NEW q \in Seq(Nat), Rising(q), NEW p \in Nat, p < Len(q),
         NEW h \in Int, NEW e \in Int,
         \/ h = q[p + 1]
         \/ \A k \in 1 .. Len(q) : (k <= p) <=> (q[k] < h),
         \/ e = q[Least(p + NSelkey, Len(q))]
         \/ \A k \in 1 .. Len(q) : (k <= Least(p + NSelkey, Len(q))) <=> (q[k] <= e)
  PROVE  Ends(q, p, h, e)
<1> DEFINE L == Len(q)
           b == Least(p + NSelkey, L)
<1>1. L \in Nat /\ \A k \in 1 .. L : q[k] \in Nat
  BY ElementOfSeq, LenProperties
<1>2. NSelkey \in Nat \ {0}
  BY NSelkeyType
<1> HIDE DEF L
<1>3. p < L
  BY DEF L
<1>4. b \in 1 .. L /\ p + 1 \in 1 .. L
  BY <1>1, <1>2, <1>3, SMT DEF Least
<1> HIDE DEF b
<1>5. \A i, j \in 1 .. L : i < j => q[i] < q[j]
  BY DEF Rising, L
<1>6. \A c \in 1 .. L : \A k \in 1 .. L : (k <= c) <=> (q[k] <= q[c])
  <2> SUFFICES ASSUME NEW c \in 1 .. L, NEW k \in 1 .. L
               PROVE  (k <= c) <=> (q[k] <= q[c])
    OBVIOUS
  <2>1. q[k] \in Nat /\ q[c] \in Nat
    BY <1>1
  <2>2. k < c => q[k] < q[c]
    BY <1>5
  <2>3. c < k => q[c] < q[k]
    BY <1>5
  <2>4. k = c => q[k] = q[c]
    OBVIOUS
  <2> DEFINE x == q[k]
             y == q[c]
  <2> HIDE DEF x, y
  <2>5. /\ x \in Nat /\ y \in Nat
        /\ k < c => x < y
        /\ c < k => y < x
        /\ k = c => x = y
    BY <2>1, <2>2, <2>3, <2>4 DEF x, y
  <2>6. (k <= c) <=> (x <= y)
    BY <1>1, <2>5, SMT
  <2> QED
    BY <2>6 DEF x, y
<1>7. \A k \in 1 .. L : (k <= p) <=> (q[k] < q[p + 1])
  <2> SUFFICES ASSUME NEW k \in 1 .. L
               PROVE  (k <= p) <=> (q[k] < q[p + 1])
    OBVIOUS
  <2>1. q[k] \in Nat /\ q[p + 1] \in Nat
    BY <1>1, <1>4
  <2>2. (p + 1 <= k) <=> (q[p + 1] <= q[k])
    BY <1>4, <1>6
  <2> DEFINE x == q[k]
             y == q[p + 1]
  <2> HIDE DEF x, y
  <2>3. x \in Nat /\ y \in Nat /\ ((p + 1 <= k) <=> (y <= x))
    BY <2>1, <2>2 DEF x, y
  <2>4. (k <= p) <=> (x < y)
    BY <1>1, <2>3, SMT
  <2> QED
    BY <2>4 DEF x, y
<1>8. \A k \in 1 .. L : (k <= p) <=> (q[k] < h)
  <2>1. h = q[p + 1] \/ \A k \in 1 .. L : (k <= p) <=> (q[k] < h)
    BY DEF L
  <2> QED
    BY <1>7, <2>1, Zenon
<1>9. \A k \in 1 .. L : (k <= b) <=> (q[k] <= e)
  <2>1. e = q[b] \/ \A k \in 1 .. L : (k <= b) <=> (q[k] <= e)
    BY DEF L, b
  <2>2. \A k \in 1 .. L : (k <= b) <=> (q[k] <= q[b])
    BY <1>4, <1>6
  <2>3. CASE e = q[b]
    BY <2>2, <2>3, Zenon
  <2> QED
    BY <2>1, <2>3, Zenon
<1> QED
  BY <1>8, <1>9, Zenon DEF Ends, L, b

\* and match_keystroke_wild().
LEMMA MatchWildShown ==
  ASSUME NEW s, DOMAIN s = Fields, "INWILD" \in s.mode, s.keystroke \in Seq(Key)
  PROVE  Shown(MatchWild(s))
<1> DEFINE u    == SubSeq(s.keystroke, 1, NextWild(s.keystroke, 1) - 1)
           head == LowerBound(u)
           pick == PickWild(s, head, 1)
           run  == Hits(s, head, 1)
           m    == Least(NSelkey, Len(run))
           t    == MatchWild(s)
           q    == Found(t)
           L    == Len(q)
<1>1. /\ t.keystroke = s.keystroke /\ t.mode = s.mode
      /\ t.mcch = pick.cands
      /\ t.pgstate = IF pick.more THEN "BEGIN" ELSE "ONEPG"
      /\ t.hidx = head /\ t.eidx = pick.last
  BY MatchWildSets
<1> HIDE DEF t
<1>2. head \in Nat /\ \A x \in Spelt(s.keystroke) : x >= head
  BY NoneBelow
<1>3. run = q
  <2>1. {x \in Spelt(s.keystroke) : x >= head} = Spelt(s.keystroke)
    <3> HIDE DEF head
    <3> QED
      BY <1>2, Zenon
  <2>2. run = Kept(Places, {x \in Spelt(s.keystroke) : x >= head})
    BY Zenon DEF Hits
  <2>3. q = Kept(Places, Spelt(s.keystroke))
    BY <1>1, Zenon DEF Found, Matching
  <2> QED
    BY <2>1, <2>2, <2>3, Zenon
<1>4. /\ L \in Nat /\ (q = <<>> <=> L = 0) /\ Zis(q) \in Seq(Cand) /\ Len(Zis(q)) = L
      /\ q \in Seq(Nat) /\ Rising(q)
  BY FoundIs
<1>5. NSelkey \in Nat \ {0}
  BY NSelkeyType
<1>6. /\ m \in Nat /\ m <= NSelkey /\ m <= Len(run)
      /\ pick.more <=> Len(run) > NSelkey
      /\ pick.cands = SubSeq(Zis(run), 1, m)
      /\ pick.cands \in Seq(Cand) /\ Len(pick.cands) = m
      /\ pick.last \in Int
      /\ m # 0 => pick.last = run[m]
  <2> HIDE DEF head
  <2>1. head \in Int
    BY <1>2
  <2> QED
    BY <2>1, PickIs
<1> HIDE DEF run, q, head, pick
<1>7. m = Least(NSelkey, L)
  BY <1>3
<1>8. CASE q = <<>>
  <2>1. m = 0
    BY <1>4, <1>5, <1>7, <1>8, SMT DEF Least
  <2>2. pick.cands = <<>>
    BY <1>6, <2>1, EmptySeq
  <2> QED
    BY <1>1, <1>8, <2>2 DEF Shown, q, t
<1>9. CASE q # <<>>
  <2>1. 0 < L /\ 0 % NSelkey = 0 /\ 0 + NSelkey = NSelkey /\ m # 0
    <3>1. 0 < L
      BY <1>4, <1>9
    <3>2. m # 0
      BY <1>4, <1>5, <1>7, <3>1, SMT DEF Least
    <3> QED
      BY <1>5, <3>1, <3>2, MultiplesNear
  <2>2. t.mcch = SubSeq(Zis(q), 0 + 1, Least(0 + NSelkey, L))
    <3>1. t.mcch = SubSeq(Zis(q), 1, m)
      BY <1>1, <1>3, <1>6
    <3>2. 0 + 1 = 1
      OBVIOUS
    <3> QED
      BY <1>7, <2>1, <3>1, <3>2, Zenon
  <2>3. t.pgstate = Mark(0, L)
    <3>1. pick.more <=> L > NSelkey
      BY <1>3, <1>6
    <3>2. t.pgstate = IF L > NSelkey THEN "BEGIN" ELSE "ONEPG"
      BY <1>1, <3>1
    <3> QED
      BY <1>4, <1>5, <3>2, MarkIs
  <2>4. Slice(q, 0, t.mcch, t.pgstate)
    BY <2>1, <2>2, <2>3, Zenon DEF Slice, L
  <2>5. Ends(q, 0, t.hidx, t.eidx)
    <3>1. t.hidx \in Int /\ t.eidx \in Int
      BY <1>1, <1>2, <1>6
    <3>2. t.eidx = q[Least(0 + NSelkey, L)]
      BY <1>1, <1>3, <1>6, <1>7, <2>1
    <3>3. ASSUME NEW k \in 1 .. L
          PROVE  (k <= 0) <=> (q[k] < t.hidx)
      <4>1. InOrder(q, Matching(t))
        BY FoundIs DEF q
      <4>2. Has(q, q[k])
        BY Zenon DEF Has, L
      <4>3. q[k] \in Matching(t)
        BY <4>1, <4>2, Zenon DEF InOrder
      <4>4. Matching(t) = Spelt(s.keystroke)
        BY <1>1, Zenon DEF Matching
      <4>5. q[k] >= head /\ q[k] \in Nat
        BY <1>2, <1>4, <4>3, <4>4, ElementOfSeq
      <4> DEFINE x == q[k]
      <4> HIDE DEF x
      <4>6. x >= head /\ x \in Nat
        BY <4>5 DEF x
      <4>7. ~(x < head) /\ ~(k <= 0)
        BY <1>2, <1>4, <4>6, SMT
      <4> QED
        BY <1>1, <4>7, Zenon DEF x
    <3> QED
      BY <1>4, <2>1, <3>1, <3>2, <3>3, EndsOf
  <2>6. PageAt(t, 0)
    BY <1>1, <2>4, <2>5, Zenon DEF PageAt, q
  <2> QED
    BY <1>9, <2>6 DEF Shown, q, t
<1> QED
  BY <1>8, <1>9

\* match_keystroke(), with wild cards and without.
LEMMA MatchShown ==
  ASSUME NEW s, Sound(s)
  PROVE  Shown(Match(s))
<1> DEFINE c == [s EXCEPT !.mcch = <<>>]
           e == MatchEither(c)
           t == Match(s)
<1>1. Sound(c) /\ c.mcch = <<>>
  BY ClearedAfter
<1>2. t = Several(e)
  BY Zenon DEF Match
<1> HIDE DEF c, t
<1>3. DOMAIN c = Fields /\ c.keystroke \in Seq(Key)
  BY <1>1, Zenon DEF Sound, Typed
<1>4. Sound(e) /\ Shown(e)
  <2>1. CASE "INWILD" \in c.mode
    <3>1. e = MatchWild(c)
      BY <2>1, Zenon DEF MatchEither
    <3> QED
      BY <1>1, <1>3, <2>1, <3>1, MatchWildAfter, MatchWildShown
  <2>2. CASE "INWILD" \notin c.mode
    <3>1. e = MatchNormal(c)
      BY <2>2, Zenon DEF MatchEither
    <3> QED
      BY <1>1, <1>3, <2>2, <3>1, MatchNormalAfter, MatchNormalShown
  <2> QED
    BY <2>1, <2>2
<1> HIDE DEF e
<1>5. SameButMarks(e, t)
  BY <1>2, <1>4, SeveralSets
<1>6. Shown(t)
  BY <1>4, <1>5, ShownSame DEF SameButMarks
<1> QED
  BY <1>6 DEF t

----------------------------------------------------------------------------
(* fillpage() turns to the next page, or to the one before.                *)

\* The turns that mcch_nextpage() asks for.
Turns(s, dir) ==
    \/ dir = 1 /\ s.pgstate \in {"BEGIN", "MIDDLE"}
    \/ dir = -1 /\ s.pgstate \in {"END", "MIDDLE"}
    \/ dir = 0 /\ s.pgstate = "END"

\* Where a page that can be turned lies.
LEMMA TurnsFrom ==
  ASSUME NEW s, NEW p \in Nat, PageAt(s, p), s.pgstate # "ONEPG"
  PROVE  LET L == Len(Found(s)) IN
         /\ L \in Nat /\ L > NSelkey /\ p < L /\ p % NSelkey = 0 /\ NSelkey \in Nat \ {0}
         /\ s.pgstate \in {"BEGIN", "MIDDLE"} => p + NSelkey < L
         /\ s.pgstate \in {"END", "MIDDLE"} => p # 0
<1> DEFINE L == Len(Found(s))
           n == NSelkey
<1>1. L \in Nat
  BY FoundIs
<1>2. n \in Nat \ {0}
  BY NSelkeyType
<1>3. p < L /\ p % n = 0 /\ s.pgstate = Mark(p, L)
  BY Zenon DEF PageAt, Slice
<1> HIDE DEF L
<1>4. L > n
  BY <1>1, <1>3, MarkIs
<1>5. /\ p = 0 => s.pgstate = "BEGIN"
      /\ (p # 0 /\ p + n < L) => s.pgstate = "MIDDLE"
      /\ (p # 0 /\ ~(p + n < L)) => s.pgstate = "END"
  BY <1>1, <1>3, <1>4, MarkIs, Zenon
<1>6. p = 0 => p + n < L
  BY <1>1, <1>2, <1>4, SMT
<1>7. /\ s.pgstate \in {"BEGIN", "MIDDLE"} => p + n < L
      /\ s.pgstate \in {"END", "MIDDLE"} => p # 0
  BY <1>5, <1>6, Zenon
<1> QED
  BY <1>1, <1>2, <1>3, <1>4, <1>7 DEF L

\* Without wild cards it is the page before, behind, or the first one again.
LEMMA FillNormalShown ==
  ASSUME NEW s, DOMAIN s = Fields, NEW p \in Nat, PageAt(s, p), "INWILD" \notin s.mode,
         NEW dir, Turns(s, dir)
  PROVE  \E h \in Nat : PageAt(FillNormal(s, dir), h)
<1> DEFINE q == Found(s)
           L == Len(q)
           n == NSelkey
           h == FillAt(s, dir)
           page == SubSeq(s.all, h + 1, Least(h + n, Len(s.all)))
           t == FillNormal(s, dir)
<1>1. s.pgstate # "ONEPG"
  BY Zenon DEF Turns
<1>2. /\ L \in Nat /\ L > n /\ p < L /\ p % n = 0 /\ n \in Nat \ {0}
      /\ s.pgstate \in {"BEGIN", "MIDDLE"} => p + n < L
      /\ s.pgstate \in {"END", "MIDDLE"} => p # 0
  BY <1>1, TurnsFrom
<1>3. s.all = Zis(q) /\ s.hidx = p
  BY <1>1, Zenon DEF PageAt
<1>4. Zis(q) \in Seq(Cand) /\ Len(Zis(q)) = L
  BY FoundIs
<1> HIDE DEF L, n, q
<1>5. h \in Nat /\ h < L /\ h % n = 0
  <2>1. CASE dir = 1 /\ s.pgstate \in {"BEGIN", "MIDDLE"}
    <3>1. h = p + n
      <4>1. 0 # 1
        OBVIOUS
      <4> QED
        BY <1>3, <2>1, <4>1, Zenon DEF FillAt, n
    <3>2. (p + n) % n = 0
      BY <1>2, MultiplesNear
    <3>3. p + n \in Nat /\ p + n < L
      BY <1>2, <2>1
    <3> QED
      BY <3>1, <3>2, <3>3
  <2>2. CASE dir = -1 /\ s.pgstate \in {"END", "MIDDLE"}
    <3>1. h = p - n
      <4>1. 0 # -1 /\ 1 # -1
        OBVIOUS
      <4> QED
        BY <1>3, <2>2, <4>1, Zenon DEF FillAt, n
    <3>2. p - n \in Nat /\ (p - n) % n = 0
      BY <1>2, <2>2, MultiplesNear
    <3>3. p - n < L
      BY <1>2, SMT
    <3> QED
      BY <3>1, <3>2, <3>3
  <2>3. CASE dir = 0 /\ s.pgstate = "END"
    <3>1. h = 0
      <4>1. 0 # 1
        OBVIOUS
      <4> QED
        BY <2>3, <4>1, Zenon DEF FillAt
    <3>2. 0 % n = 0
      BY <1>2, MultiplesNear
    <3> QED
      BY <1>2, <3>1, <3>2
  <2> QED
    BY <2>1, <2>2, <2>3, Zenon DEF Turns
<1> HIDE DEF h
<1>6. ~Stopped(s, dir)
  <2>1. ~(h >= Len(s.all)) /\ ~(h < 0)
    BY <1>2, <1>3, <1>4, <1>5
  <2> QED
    BY <2>1, Zenon DEF Stopped, h
<1>7. FillSets(s, t, h, page)
  BY <1>6, FillNormalSets DEF h, n
<1> HIDE DEF t, page
<1>8. /\ t.keystroke = s.keystroke /\ t.mode = s.mode /\ t.all = s.all
      /\ t.hidx = h /\ t.mcch = page
  BY <1>7, Zenon DEF FillSets
<1>9. Found(t) = q
  BY <1>8, Zenon DEF Found, Matching, q
<1>10. page = SubSeq(Zis(q), h + 1, Least(h + n, L))
  BY <1>3, <1>4 DEF page
<1>11. t.pgstate = Mark(h, L)
  <2>1. CASE h = 0
    <3>1. Mark(h, L) = "BEGIN"
      BY <1>2, <2>1, MarkIs DEF n
    <3>2. 0 + 1 = 1 /\ 0 + n = n /\ Least(n, L) = n /\ n \in 1 .. L /\ n < L
      BY <1>2, SMT DEF Least
    <3>3. page = SubSeq(Zis(q), 1, n)
      BY <1>10, <2>1, <3>2, Zenon
    <3>4. Zis(q) \in Seq(Seq(Char)) /\ \A k \in 1 .. Len(Zis(q)) : Zis(q)[k] # <<>>
      <4>1. \A k \in 1 .. Len(Zis(q)) : Zis(q)[k] \in Cand
        BY <1>4, ElementOfSeq
      <4>2. Cand \subseteq Seq(Char)
        BY DEF Cand
      <4>3. Zis(q) \in Seq(Seq(Char))
        BY <1>4, <4>2, SeqMonotonic
      <4> QED
        BY <4>1, <4>3 DEF Cand
    <3>5. n \in 1 .. Len(Zis(q)) /\ n < Len(Zis(q))
      BY <1>4, <3>2
    <3>6. Len(Flat(page)) < Len(Flat(Zis(q)))
      BY <3>3, <3>4, <3>5, FlatGrows
    <3>7. t.pgstate = "BEGIN"
      BY <1>3, <1>7, <2>1, <3>6, Zenon DEF FillSets
    <3> QED
      BY <3>1, <3>7
  <2>2. CASE h # 0
    <3>1. h > 0
      BY <1>5, <2>2
    <3>2. /\ h + n < L => t.pgstate = "MIDDLE"
          /\ ~(h + n < L) => t.pgstate = "END"
      <4>1. Len(s.all) = L
        BY <1>3, <1>4
      <4> QED
        BY <1>7, <2>2, <3>1, <4>1, Zenon DEF FillSets, n
    <3> QED
      BY <1>2, <1>5, <2>2, <3>2, MarkIs DEF n
  <2> QED
    BY <2>1, <2>2
<1>12. Slice(q, h, t.mcch, t.pgstate)
  BY <1>5, <1>8, <1>10, <1>11, Zenon DEF Slice, L, n
<1>13. PageAt(t, h)
  BY <1>3, <1>8, <1>9, <1>12, Zenon DEF PageAt
<1> QED
  BY <1>5, <1>13 DEF t

\* With wild cards the next page is searched for behind the last place shown,
LEMMA FillOnShown ==
  ASSUME NEW s, Sound(s), NEW p \in Nat, PageAt(s, p), "INWILD" \in s.mode,
         NEW dir, Onward(s, dir)
  PROVE  \E h \in Nat : PageAt(FillWild(s, dir), h)
<1> DEFINE q == Found(s)
           S == Matching(s)
           L == Len(q)
           n == NSelkey
           a == p + n
           from == s.eidx + 1
           run == Hits(s, from, dir)
           m == Least(n, Len(run))
           pick == PickWild(s, from, dir)
           t == FillWild(s, dir)
<1>0. DOMAIN s = Fields /\ s.eidx \in Int
  BY Zenon DEF Sound, Typed
<1>1. s.pgstate # "ONEPG" /\ dir = 1 /\ s.pgstate \in {"BEGIN", "MIDDLE"}
  BY Zenon DEF Onward
<1>2. /\ L \in Nat /\ L > n /\ p < L /\ p % n = 0 /\ n \in Nat \ {0} /\ a < L
  BY <1>1, TurnsFrom
<1>3. /\ InOrder(q, S) /\ AtPlaces(q) /\ Rising(q) /\ q \in Seq(Nat)
      /\ Zis(q) \in Seq(Cand) /\ Len(Zis(q)) = L
  BY FoundIs
<1>4. Ends(q, p, s.hidx, s.eidx)
  BY <1>1, Zenon DEF PageAt
<1>5. WildSets(s, t, pick.cands, "own", s.wild, IF pick.more THEN "MIDDLE" ELSE "END",
               from, pick.last)
  BY <1>0, FillOnSets
<1>6. run = Kept(Places, {x \in S : x >= from})
  BY <1>1, Zenon DEF Hits, Matching
<1> HIDE DEF q, S, t, n
<1>7. a \in 0 .. L /\ a \in Nat /\ Least(a, L) = a /\ from \in Int
  BY <1>0, <1>2, SMT DEF Least
<1> HIDE DEF L
<1>8. \A k \in 1 .. L : (k <= a) <=> (q[k] < from)
  <2> SUFFICES ASSUME NEW k \in 1 .. L
               PROVE  (k <= a) <=> (q[k] < from)
    OBVIOUS
  <2>1. (k <= a) <=> (q[k] <= s.eidx)
    BY <1>4, <1>7, Zenon DEF Ends, L, n
  <2>2. q[k] \in Nat
    BY <1>3, ElementOfSeq DEF L
  <2> DEFINE x == q[k]
             e == s.eidx
  <2> HIDE DEF x, e
  <2>3. x \in Nat /\ e \in Int /\ ((k <= a) <=> (x <= e))
    BY <1>0, <2>1, <2>2 DEF x, e
  <2>4. (k <= a) <=> (x < e + 1)
    BY <2>3, SMT
  <2> QED
    BY <2>4 DEF x, e
<1> HIDE DEF from
<1>9. run = SubSeq(q, a + 1, L)
  <2>1. InOrder(q, S) /\ a \in 0 .. Len(q) /\ from \in Int
    BY <1>3, <1>7, Zenon DEF L
  <2>2. \A k \in 1 .. Len(q) : (k <= a) <=> (q[k] < from)
    BY <1>8, Zenon DEF L
  <2> HIDE DEF a
  <2>3. Kept(Places, {x \in S : x >= from}) = SubSeq(q, a + 1, Len(q))
    BY <2>1, <2>2, Zenon, FoundAbove
  <2> HIDE DEF run
  <2> QED
    BY <1>6, <2>3, Zenon DEF L
<1>10. /\ m \in Nat /\ m <= n /\ m <= Len(run)
       /\ pick.more <=> Len(run) > n
       /\ pick.cands = SubSeq(Zis(run), 1, m)
       /\ pick.last \in Int
       /\ m # 0 => pick.last = run[m]
  <2>1. from \in Int /\ n = NSelkey
    BY <1>7 DEF n
  <2>2. PickedOf(PickWild(s, from, dir), Hits(s, from, dir),
                 Least(NSelkey, Len(Hits(s, from, dir))))
    BY <2>1, PickedIs, Zenon
  <2>3. PickedOf(pick, run, m)
    BY <2>1, <2>2, Zenon
  <2> HIDE DEF run, m, pick
  <2> QED
    BY <2>1, <2>3, Zenon DEF PickedOf
<1>11. /\ Zis(run) = SubSeq(Zis(q), a + 1, L)
       /\ Len(run) = L - a
       /\ \A k \in 1 .. Len(run) : run[k] = q[((a + 1) + k) - 1]
  <2>1. a + 1 \in Int /\ L \in Int /\ 1 <= a + 1 /\ L <= L /\ a + 1 <= L
    BY <1>2, <1>7, SMT
  <2>2. /\ Len(run) = IF a + 1 <= L THEN (L - (a + 1)) + 1 ELSE 0
        /\ \A k \in 1 .. Len(run) : run[k] = q[((a + 1) + k) - 1]
    <3> HIDE DEF a
    <3>1. q \in Seq(Nat) /\ L <= Len(q)
      BY <1>3, <2>1 DEF L
    <3>2. /\ Len(SubSeq(q, a + 1, L)) = IF a + 1 <= L THEN (L - (a + 1)) + 1 ELSE 0
          /\ \A k \in 1 .. Len(SubSeq(q, a + 1, L)) :
                SubSeq(q, a + 1, L)[k] = q[((a + 1) + k) - 1]
      BY <2>1, <3>1, Part
    <3> QED
      BY <1>9, <3>2, Zenon
  <2>3. Len(run) = L - a
    BY <1>2, <1>7, <2>1, <2>2, SMT
  <2>4. Zis(run) = SubSeq(Zis(q), a + 1, L)
    <3> HIDE DEF a
    <3> QED
      BY <1>3, <1>9, <2>1, ZisPart DEF L
  <2> QED
    BY <2>2, <2>3, <2>4
<1> HIDE DEF run, pick
<1>12. m = Least(n, L - a)
  BY <1>11
<1> HIDE DEF m
<1>13. /\ m \in 1 .. n /\ a + m <= L /\ a + m \in 1 .. L /\ Least(a + n, L) = a + m
       /\ Len(run) > n <=> a + n < L
  BY <1>2, <1>7, <1>11, <1>12, SMT DEF Least
<1>14. pick.cands = SubSeq(Zis(q), a + 1, a + m)
  <2>1. m \in Nat /\ a + m <= Len(Zis(q)) /\ a \in 0 .. Len(Zis(q))
    BY <1>3, <1>7, <1>10, <1>13
  <2> HIDE DEF a
  <2>2. SubSeq(SubSeq(Zis(q), a + 1, Len(Zis(q))), 1, m) = SubSeq(Zis(q), a + 1, a + m)
    BY <1>3, <2>1, PartOfRest
  <2> QED
    BY <1>3, <1>10, <1>11, <2>2
<1>15. pick.last = q[a + m]
  <2>1. m \in 1 .. Len(run) /\ ((a + 1) + m) - 1 = a + m /\ m # 0
    BY <1>2, <1>7, <1>10, <1>13, SMT
  <2> QED
    BY <1>10, <1>11, <2>1
<1>16. /\ t.keystroke = s.keystroke /\ t.mode = s.mode
       /\ t.mcch = pick.cands /\ t.pgstate = IF pick.more THEN "MIDDLE" ELSE "END"
       /\ t.hidx = from /\ t.eidx = pick.last
  BY <1>5, Zenon DEF WildSets
<1>17. Found(t) = q
  BY <1>16, Zenon DEF Found, Matching, q
<1>18. t.pgstate = Mark(a, L)
  <2>1. a # 0 /\ L > NSelkey
    BY <1>2 DEF n
  <2>2. t.pgstate = IF a + NSelkey < L THEN "MIDDLE" ELSE "END"
    BY <1>10, <1>13, <1>16, Zenon DEF n
  <2> HIDE DEF a
  <2> QED
    BY <1>2, <1>7, <2>1, <2>2, MarkIs
<1>19. a % n = 0
  BY <1>2, MultiplesNear
<1> HIDE DEF a
<1>20. Slice(q, a, t.mcch, t.pgstate)
  BY <1>2, <1>13, <1>14, <1>16, <1>18, <1>19, Zenon DEF Slice, L, n
<1>21. Ends(q, a, t.hidx, t.eidx)
  <2>1. t.hidx \in Int /\ t.eidx \in Int
    BY <1>7, <1>10, <1>16
  <2>2. t.eidx = q[Least(a + NSelkey, Len(q))]
    BY <1>13, <1>15, <1>16 DEF n, L
  <2>3. \A k \in 1 .. Len(q) : (k <= a) <=> (q[k] < t.hidx)
    BY <1>8, <1>16 DEF L
  <2>4. a \in Nat /\ a < Len(q)
    BY <1>2, <1>7 DEF L
  <2> QED
    BY <1>3, <2>1, <2>2, <2>3, <2>4, EndsOf
<1>22. PageAt(t, a)
  BY <1>16, <1>17, <1>20, <1>21, Zenon DEF PageAt
<1> QED
  BY <1>7, <1>22 DEF t

\* and the page before it from the first place shown back.
LEMMA FillBackShown ==
  ASSUME NEW s, Sound(s), NEW p \in Nat, PageAt(s, p), "INWILD" \in s.mode,
         NEW dir, Backward(s, dir)
  PROVE  \E h \in Nat : PageAt(FillWild(s, dir), h)
<1> DEFINE q == Found(s)
           S == Matching(s)
           L == Len(q)
           n == NSelkey
           a == p - n
           from == s.hidx - 1
           run == Hits(s, from, dir)
           m == Least(n, Len(run))
           pick == PickWild(s, from, dir)
           page == Reverse(pick.cands)
           t == FillWild(s, dir)
<1>0. DOMAIN s = Fields /\ s.hidx \in Int
  BY Zenon DEF Sound, Typed
<1>1. s.pgstate # "ONEPG" /\ dir = -1 /\ s.pgstate \in {"END", "MIDDLE"}
  BY Zenon DEF Backward
<1>2. /\ L \in Nat /\ L > n /\ p < L /\ p % n = 0 /\ n \in Nat \ {0} /\ p # 0
  BY <1>1, TurnsFrom
<1>3. /\ InOrder(q, S) /\ AtPlaces(q) /\ Rising(q) /\ q \in Seq(Nat)
      /\ Zis(q) \in Seq(Cand) /\ Len(Zis(q)) = L
      /\ \A k \in 1 .. L : Zis(q)[k] = Entry(q[k]).zi
  BY FoundIs, ZisAre
<1>4. Ends(q, p, s.hidx, s.eidx)
  BY <1>1, Zenon DEF PageAt
<1>5. WildSets(s, t, page, "wild", Lengths(page), IF pick.more THEN "MIDDLE" ELSE "BEGIN",
               pick.last, from)
  BY <1>0, FillBackSets
<1>6. run = Kept(Reverse(Places), {x \in S : x <= from})
  <2>1. 1 # -1
    OBVIOUS
  <2> QED
    BY <1>1, <2>1, Zenon DEF Hits, Matching
<1> HIDE DEF q, S, t, n
<1>7. /\ a \in Nat /\ a % n = 0
  BY <1>2, MultiplesNear
<1>8. a + n = p /\ Least(a + n, L) = p /\ from \in Int /\ p \in 0 .. L
  BY <1>0, <1>2, SMT DEF Least
<1> HIDE DEF L, a
<1>9. \A k \in 1 .. L : (k <= p) <=> (q[k] <= from)
  <2> SUFFICES ASSUME NEW k \in 1 .. L
               PROVE  (k <= p) <=> (q[k] <= from)
    OBVIOUS
  <2>1. (k <= p) <=> (q[k] < s.hidx)
    BY <1>4, Zenon DEF Ends, L
  <2>2. q[k] \in Nat
    BY <1>3, ElementOfSeq DEF L
  <2> DEFINE x == q[k]
             e == s.hidx
  <2> HIDE DEF x, e
  <2>3. x \in Nat /\ e \in Int /\ ((k <= p) <=> (x < e))
    BY <1>0, <2>1, <2>2 DEF x, e
  <2>4. (k <= p) <=> (x <= e - 1)
    BY <2>3, SMT
  <2> QED
    BY <2>4 DEF x, e
<1> HIDE DEF from
<1>10. /\ run \in Seq(Nat) /\ Len(run) = p
       /\ \A k \in 1 .. p : run[k] = q[(p - k) + 1]
  <2>1. /\ InOrder(q, S) /\ p \in 0 .. Len(q) /\ from \in Int
        /\ \A k \in 1 .. Len(q) : (k <= p) <=> (q[k] <= from)
    BY <1>3, <1>8, <1>9, Zenon DEF L
  <2> DEFINE r == Kept(Reverse(Places), {x \in S : x <= from})
  <2>2. /\ r \in Seq(Nat) /\ Len(r) = p
        /\ \A k \in 1 .. p : r[k] = q[(p - k) + 1]
    BY <2>1, FoundBelow
  <2> HIDE DEF r
  <2>3. run = r
    BY <1>6 DEF r
  <2> QED
    BY <2>2, <2>3
<1>11. AtPlaces(run)
  BY HitsAre
<1>12. /\ m \in Nat /\ m <= n /\ m <= Len(run)
       /\ pick.more <=> Len(run) > n
       /\ pick.cands = SubSeq(Zis(run), 1, m)
       /\ pick.cands \in Seq(Cand) /\ Len(pick.cands) = m
       /\ pick.last \in Int
       /\ m # 0 => pick.last = run[m]
  <2>1. from \in Int /\ n = NSelkey
    BY <1>8 DEF n
  <2>2. PickedOf(PickWild(s, from, dir), Hits(s, from, dir),
                 Least(NSelkey, Len(Hits(s, from, dir))))
    BY <2>1, PickedIs, Zenon
  <2>3. PickedOf(pick, run, m)
    BY <2>1, <2>2, Zenon
  <2> HIDE DEF run, m, pick
  <2> QED
    BY <2>1, <2>3, Zenon DEF PickedOf
<1>13. /\ Zis(run) \in Seq(Cand) /\ Len(Zis(run)) = p
       /\ \A k \in 1 .. p : Zis(run)[k] = Entry(run[k]).zi
  BY <1>10, <1>11, ZisAre
<1> HIDE DEF run, pick
<1>14. m = n
  BY <1>2, <1>7, <1>8, <1>10, SMT DEF Least
<1> HIDE DEF m
<1>15. /\ page \in Seq(Cand) /\ Len(page) = n
       /\ \A k \in 1 .. n : page[k] = pick.cands[(n - k) + 1]
  <2> DEFINE c == pick.cands
  <2>1. c \in Seq(Cand) /\ Len(c) = n
    BY <1>12, <1>14
  <2> HIDE DEF c
  <2>2. /\ Reverse(c) \in Seq(Cand) /\ Len(Reverse(c)) = Len(c)
        /\ \A k \in 1 .. Len(c) : Reverse(c)[k] = c[(Len(c) - k) + 1]
    BY <2>1, ReversedPage
  <2>3. \A k \in 1 .. n : Reverse(c)[k] = c[(n - k) + 1]
    BY <2>1, <2>2, Zenon
  <2> QED
    BY <2>1, <2>2, <2>3, Zenon DEF c
<1> HIDE DEF page
<1>16. page = SubSeq(Zis(q), a + 1, a + n)
  <2> DEFINE u == SubSeq(Zis(q), a + 1, a + n)
  <2>1. /\ a + 1 \in Int /\ a + n \in Int /\ 1 <= a + 1 /\ a + n <= Len(Zis(q))
        /\ a + 1 <= a + n /\ ((a + n) - (a + 1)) + 1 = n
    BY <1>2, <1>3, <1>7, <1>8
  <2>2. /\ u \in Seq(Cand) /\ Len(u) = n
        /\ \A k \in 1 .. Len(u) : u[k] = Zis(q)[((a + 1) + k) - 1]
    <3> DEFINE z == Zis(q)
               b == a + 1
               e == a + n
    <3>1. /\ z \in Seq(Cand) /\ b \in Int /\ e \in Int /\ 1 <= b /\ e <= Len(z)
          /\ b <= e /\ (e - b) + 1 = n
      BY <1>3, <2>1, Zenon
    <3> HIDE DEF z, b, e
    <3>2. /\ SubSeq(z, b, e) \in Seq(Cand) /\ Len(SubSeq(z, b, e)) = n
          /\ \A k \in 1 .. Len(SubSeq(z, b, e)) : SubSeq(z, b, e)[k] = z[(b + k) - 1]
      BY <3>1, Part
    <3> QED
      BY <3>2, Zenon DEF z, b, e
  <2> HIDE DEF u
  <2>3. ASSUME NEW k \in 1 .. n
        PROVE  page[k] = u[k]
    <3> DEFINE j == (n - k) + 1
    <3>1. /\ j \in 1 .. n /\ j \in 1 .. p
          /\ (1 + j) - 1 = j /\ (p - j) + 1 = ((a + 1) + k) - 1
          /\ ((a + 1) + k) - 1 \in 1 .. L
      BY <1>2, <1>7, <1>8, SMT
    <3> HIDE DEF j
    <3>2. pick.cands[j] = Zis(run)[(1 + j) - 1]
      <4>1. 1 \in Int /\ m \in Int /\ 1 <= 1 /\ m <= Len(Zis(run))
        BY <1>2, <1>7, <1>8, <1>10, <1>12, <1>13
      <4>2. \A i \in 1 .. Len(SubSeq(Zis(run), 1, m)) :
              SubSeq(Zis(run), 1, m)[i] = Zis(run)[(1 + i) - 1]
        BY <1>13, <4>1, Part
      <4>3. j \in 1 .. Len(SubSeq(Zis(run), 1, m))
        BY <1>12, <1>14, <3>1
      <4> QED
        BY <1>12, <4>2, <4>3
    <3>3. pick.cands[j] = Entry(q[((a + 1) + k) - 1]).zi
      BY <1>10, <1>13, <3>1, <3>2
    <3>4. u[k] = Entry(q[((a + 1) + k) - 1]).zi
      BY <1>3, <2>2, <3>1
    <3> QED
      BY <1>15, <3>3, <3>4 DEF j
  <2>4. page \in Seq(Cand) /\ u \in Seq(Cand) /\ Len(page) = Len(u)
    BY <1>15, <2>2
  <2>5. \A k \in 1 .. Len(page) : page[k] = u[k]
    BY <1>15, <2>3
  <2>6. page = u
    BY <2>4, <2>5, SeqEqual
  <2> QED
    BY <2>6 DEF u
<1>17. pick.last = q[a + 1]
  <2>1. m # 0 /\ n \in 1 .. p /\ (p - n) + 1 = a + 1
    BY <1>2, <1>7, <1>8, <1>14
  <2> QED
    BY <1>10, <1>12, <1>14, <2>1
<1>18. /\ t.keystroke = s.keystroke /\ t.mode = s.mode
       /\ t.mcch = page /\ t.pgstate = IF pick.more THEN "MIDDLE" ELSE "BEGIN"
       /\ t.hidx = pick.last /\ t.eidx = from
  BY <1>5, Zenon DEF WildSets
<1>19. Found(t) = q
  BY <1>18, Zenon DEF Found, Matching, q
<1>20. t.pgstate = Mark(a, L) /\ a < L
  <2>1. (pick.more <=> a # 0) /\ a + n < L /\ a < L /\ L > n
    BY <1>2, <1>7, <1>8, <1>10, <1>12
  <2>2. t.pgstate = IF a # 0 THEN "MIDDLE" ELSE "BEGIN"
    BY <1>18, <2>1, Zenon
  <2> QED
    BY <1>2, <1>7, <2>1, <2>2, MarkIs DEF n
<1>21. Slice(q, a, t.mcch, t.pgstate)
  <2>1. Least(a + n, L) = a + n
    BY <1>8
  <2> QED
    BY <1>7, <1>16, <1>18, <1>20, <2>1, Zenon DEF Slice, L, n
<1>22. Ends(q, a, t.hidx, t.eidx)
  <2>1. t.hidx \in Int /\ t.eidx \in Int
    BY <1>8, <1>12, <1>18
  <2>2. t.hidx = q[a + 1]
    BY <1>17, <1>18
  <2>3. \A k \in 1 .. Len(q) : (k <= Least(a + NSelkey, Len(q))) <=> (q[k] <= t.eidx)
    BY <1>8, <1>9, <1>18, Zenon DEF L, n
  <2>4. a < Len(q)
    BY <1>20 DEF L
  <2> QED
    BY <1>3, <1>7, <2>1, <2>2, <2>3, <2>4, EndsOf
<1>23. PageAt(t, a)
  BY <1>18, <1>19, <1>21, <1>22, Zenon DEF PageAt
<1> QED
  BY <1>7, <1>23 DEF t

----------------------------------------------------------------------------
(* The page and the keystroke keep together.                               *)

\* While the user selects there is a page, and with nothing typed there is nothing.
Selected(s) ==
    /\ s.spot = IF "MCCH" \in s.mode THEN TRUE ELSE FALSE
    /\ "MCCH" \in s.mode => s.mcch # <<>>
    /\ s.keystroke = <<>> => /\ s.mcch = <<>> /\ s.pgstate = "ONEPG"
                             /\ "MCCH" \notin s.mode /\ "INWILD" \notin s.mode

\* When the page has to be one of the keystroke.
Synced(s) == (On("AUTOCOMPOSE") /\ s.keystroke # <<>>) \/ "MCCH" \in s.mode

Good(s) == Sound(s) /\ Selected(s) /\ (Synced(s) => Shown(s))

\* A text that is an answer, or a remap, of the keystroke it was assembled for.
AnsweredBy(c) ==
    \/ \E k \in DOMAIN Kremap : Kremap[k].ks = c.ks /\ Kremap[k].zi = c.text
    \/ \E k \in DOMAIN Table : Table[k].zi = c.text /\ WildMatch(c.ks, Table[k].ks)

TextAnswers(c) == (On("AUTOCOMPOSE") /\ c # NoText /\ ~c.tsi) => AnsweredBy(c)

\* No text yet; and the flags tell of the text there is.
Clear(s) == s.commits = 0 /\ TextAnswers(s.cch)
Told(r)  == /\ r.s.commits = IF "COMMIT" \in r.ret THEN 1 ELSE 0
            /\ TextAnswers(r.s.cch)

\* What a handler has to come to.
Fair(s, r) == Good(r.s) /\ (Clear(s) => Told(r))

\* An outcome is a world and its flags.
LEMMA FairOf ==
  ASSUME NEW s, NEW t, Good(t), NEW f,
         Clear(s) => /\ t.commits = IF "COMMIT" \in f THEN 1 ELSE 0
                     /\ TextAnswers(t.cch)
  PROVE  Fair(s, [s |-> t, ret |-> f])
<1>1. [s |-> t, ret |-> f].s = t /\ [s |-> t, ret |-> f].ret = f
  OBVIOUS
<1> QED
  BY <1>1, Zenon DEF Fair, Told

\* Marks other than MCCH do not matter,
LEMMA MarksGood ==
  ASSUME NEW s, NEW t, Good(s), SameButMarks(s, t), t.spot = s.spot,
         "MCCH" \in t.mode <=> "MCCH" \in s.mode
  PROVE  Good(t)
<1>1. After(s, t)
  BY MarksAfter DEF Good
<1>2. Sound(t)
  BY <1>1 DEF After
<1>3. Selected(t)
  BY Zenon DEF Good, Selected, SameButMarks
<1>4. Shown(s) => Shown(t)
  BY ShownSame DEF SameButMarks
<1>5. Synced(t) => Synced(s)
  BY Zenon DEF Synced, SameButMarks
<1> QED
  BY <1>2, <1>3, <1>4, <1>5, Zenon DEF Good

\* a cleared world is good,
LEMMA CleanGood ==
  ASSUME NEW s, Sound(s), s.keystroke = <<>>, s.mcch = <<>>, s.pgstate = "ONEPG",
         s.spot = FALSE, "MCCH" \notin s.mode, "INWILD" \notin s.mode
  PROVE  Good(s)
<1>1. Selected(s)
  BY Zenon DEF Selected
<1>2. ~Synced(s)
  BY Zenon DEF Synced
<1> QED
  BY <1>1, <1>2, Zenon DEF Good

\* by reset_keystroke(), where no window was open,
LEMMA ResetGood ==
  ASSUME NEW s, Sound(s), s.spot = FALSE
  PROVE  LET t == Reset(s) IN
         /\ Good(t) /\ t.commits = s.commits /\ t.cch = s.cch
         /\ t.keystroke = <<>> /\ t.mode = {} /\ t.spot = FALSE
<1> DEFINE t == Reset(s)
<1>1. DOMAIN s = Fields
  BY Zenon DEF Sound, Typed
<1>2. /\ t.keystroke = <<>> /\ t.mcch = <<>> /\ t.pgstate = "ONEPG" /\ t.mode = {}
      /\ t.spot = s.spot /\ t.commits = s.commits /\ t.cch = s.cch
  BY <1>1, Zenon DEF Reset, Fields
<1>3. Sound(t)
  BY ResetAfter DEF After
<1> HIDE DEF t
<1>4. Good(t)
  BY <1>2, <1>3, CleanGood
<1> QED
  BY <1>2, <1>4 DEF t

\* or by commit_char().
Committed(s, t, text) ==
    /\ Good(t) /\ t.commits = s.commits + 1 /\ t.spot = FALSE
    /\ t.cch.ks = s.keystroke /\ t.cch.text = text /\ t.cch.tsi = s.has_tsi

\* It is what commit_char() makes of any world.
LEMMA CommitCharGood ==
  ASSUME NEW s, Sound(s), NEW idx, NEW text
  PROVE  Committed(s, CommitChar(s, idx, text), text)
<1> DEFINE t == CommitChar(s, idx, text)
           c == [ks |-> s.keystroke, text |-> text, suggest |-> Suggest(s, idx),
                 tsi |-> s.has_tsi]
<1>1. DOMAIN s = Fields
  BY Zenon DEF Sound, Typed
<1>2. /\ t.keystroke = <<>> /\ t.mcch = <<>> /\ t.pgstate = "ONEPG"
      /\ t.mode = s.mode \ {"MCCH", "INWILD"} /\ t.spot = FALSE /\ t.cch = c
  <2> HIDE DEF c
  <2>1. CommitChar(s, idx, text) =
          [s EXCEPT !.cch = c, !.commits = @ + 1,
              !.keystroke = <<>>, !.mcch = <<>>, !.pgstate = "ONEPG",
              !.mode = @ \ {"MCCH", "INWILD"}, !.has_tsi = FALSE, !.spot = FALSE]
    BY Zenon DEF CommitChar, c
  <2> QED
    BY <1>1, <2>1, Zenon DEF Fields
<1>3. Sound(t) /\ t.commits = s.commits + 1
  BY CommitCharAfter DEF After
<1> HIDE DEF t
<1>4. Good(t)
  <2>1. "MCCH" \notin t.mode /\ "INWILD" \notin t.mode
    BY <1>2, Zenon
  <2> QED
    BY <1>2, <1>3, <2>1, CleanGood
<1>5. c.ks = s.keystroke /\ c.text = text /\ c.tsi = s.has_tsi
  OBVIOUS
<1> HIDE DEF c
<1> QED
  BY <1>2, <1>3, <1>4, <1>5, Zenon DEF Committed, t

\* A wrong keystroke is marked or given up.
LEMMA WrongGood ==
  ASSUME NEW s, Good(s), "MCCH" \notin s.mode
  PROVE  Good(Wrong(s)) /\ Wrong(s).commits = s.commits /\ Wrong(s).cch = s.cch
<1>1. DOMAIN s = Fields /\ s.mode \in SUBSET Marks /\ Sound(s)
  BY Zenon DEF Good, Sound, Typed
<1>2. s.spot = FALSE
  BY Zenon DEF Good, Selected
<1>3. CASE On("AUTORESET")
  <2>1. Wrong(s) = Reset(s)
    BY <1>3, Zenon DEF Wrong
  <2> QED
    BY <1>1, <1>2, <2>1, ResetGood
<1>4. CASE ~On("AUTORESET")
  <2> DEFINE m == s.mode \cup {"WRONG"}
             t == [s EXCEPT !.mode = m]
  <2>1. Wrong(s) = t
    BY <1>4, Zenon DEF Wrong
  <2>2. /\ m \in SUBSET Marks /\ ("INWILD" \in m <=> "INWILD" \in s.mode)
        /\ "MCCH" \in m <=> "MCCH" \in s.mode
    BY <1>1, Zenon DEF Marks
  <2> HIDE DEF m
  <2>3. SameButMarks(s, t)
    BY <1>1, <2>2, MarkSets
  <2>4. t.mode = m /\ t.spot = s.spot /\ t.cch = s.cch /\ t.commits = s.commits
    BY <1>1, Zenon DEF Fields
  <2> HIDE DEF t
  <2>5. Good(t)
    BY <2>2, <2>3, <2>4, MarksGood
  <2> QED
    BY <2>1, <2>4, <2>5
<1> QED
  BY <1>3, <1>4

----------------------------------------------------------------------------
(* What is committed is an answer.                                         *)

\* Of a page without phrases the characters are the candidates.
LEMMA SinglesOf ==
  ASSUME NEW s, Sound(s), ~s.has_tsi
  PROVE  /\ Len(Flat(s.mcch)) = Len(s.mcch) /\ Len(s.mcch) \in Nat
         /\ \A k \in 1 .. Len(s.mcch) : <<Flat(s.mcch)[k]>> = s.mcch[k]
<1>1. s.mcch \in Seq(Cand) /\ \A k \in 1 .. Len(s.mcch) : Len(s.mcch[k]) = 1
  BY Zenon DEF Sound, Typed, Plain
<1>2. Len(s.mcch) \in Nat
  BY <1>1, LenProperties
<1>3. Cand \subseteq Seq(Char)
  BY DEF Cand
<1>4. s.mcch \in Seq(Seq(Char))
  BY <1>1, <1>3, SeqMonotonic
<1>5. /\ Len(Flat(s.mcch)) = Len(s.mcch)
      /\ \A k \in 1 .. Len(s.mcch) : Flat(s.mcch)[k] = s.mcch[k][1]
  BY <1>1, <1>4, FlatOfSingles
<1>6. ASSUME NEW k \in 1 .. Len(s.mcch)
      PROVE  <<Flat(s.mcch)[k]>> = s.mcch[k]
  <2>1. s.mcch[k] \in Seq(Char) /\ Len(s.mcch[k]) = 1 /\ Flat(s.mcch)[k] = s.mcch[k][1]
    BY <1>1, <1>4, <1>5, ElementOfSeq
  <2> DEFINE z == s.mcch[k]
  <2> HIDE DEF z
  <2>2. z \in Seq(Char) /\ Len(z) = 1 => <<z[1]>> = z
    OBVIOUS
  <2>3. <<z[1]>> = z
    BY <2>1, <2>2 DEF z
  <2> QED
    BY <2>1, <2>3 DEF z
<1> QED
  BY <1>2, <1>5, <1>6

\* A candidate of the page answers the keystroke, unless the page has phrases.
LEMMA PickedAnswers ==
  ASSUME NEW m, Sound(m), Shown(m), NEW k \in Nat, k < Len(m.mcch), NEW beg
  PROVE  TextAnswers(CommitChar(m, k, TextAt(m, k, beg)).cch)
<1> DEFINE text == TextAt(m, k, beg)
           t == CommitChar(m, k, text)
           c == t.cch
<1> HIDE DEF text
<1>0. t.cch.ks = m.keystroke /\ t.cch.text = text /\ t.cch.tsi = m.has_tsi
  <2>1. Committed(m, t, text)
    BY CommitCharGood
  <2> QED
    BY <2>1, Zenon DEF Committed
<1>1. c.ks = m.keystroke /\ c.text = TextAt(m, k, beg) /\ c.tsi = m.has_tsi
  BY <1>0 DEF text
<1> HIDE DEF c, t
<1>2. SUFFICES ASSUME ~m.has_tsi
               PROVE  AnsweredBy(c)
  BY <1>1, Zenon DEF TextAnswers, c, t, text
<1>3. Len(m.mcch) \in Nat /\ \A h \in 1 .. Len(m.mcch) : <<Flat(m.mcch)[h]>> = m.mcch[h]
  BY <1>2, SinglesOf
<1>4. k + 1 \in 1 .. Len(m.mcch)
  BY <1>3
<1>5. c.text = m.mcch[k + 1]
  BY <1>1, <1>2, <1>3, <1>4, Zenon DEF TextAt
<1>6. PICK x \in Place : x \in Matching(m) /\ Entry(x).zi = m.mcch[k + 1]
  BY <1>4, ShownAnswers
<1>7. m.keystroke \in Seq(Key)
  BY Zenon DEF Sound, Typed
<1>8. WildMatch(m.keystroke, Entry(x).ks)
  <2>1. WildMatch(m.keystroke, m.keystroke)
    BY <1>7, MatchesItself
  <2> QED
    BY <1>6, <2>1, Zenon DEF Matching, Spelt, Exact
<1>9. x + 1 \in DOMAIN Table
  BY EntryType DEF Place
<1> QED
  BY <1>1, <1>5, <1>6, <1>8, <1>9, Zenon DEF AnsweredBy, Entry

\* KEYSTROKE_REMAP.
LEMMA RemapAnswers ==
  ASSUME NEW s, Sound(s), NEW r \in DOMAIN Kremap, Kremap[r].ks = s.keystroke, r \in Int
  PROVE  TextAnswers(CommitChar(s, r - 1, RemapText(s, r - 1)).cch)
<1> DEFINE text == RemapText(s, r - 1)
           k == r - 1
           t == CommitChar(s, k, text)
           c == t.cch
<1> HIDE DEF text, k
<1>0. t.cch.ks = s.keystroke /\ t.cch.text = text /\ t.cch.tsi = s.has_tsi
  <2>1. Committed(s, t, text)
    BY CommitCharGood
  <2> QED
    BY <2>1, Zenon DEF Committed
<1>1. c.ks = s.keystroke /\ c.text = RemapText(s, r - 1) /\ c.tsi = s.has_tsi
  BY <1>0 DEF text
<1> HIDE DEF c, t
<1>2. SUFFICES ASSUME ~s.has_tsi
               PROVE  AnsweredBy(c)
  BY <1>1, Zenon DEF TextAnswers, c, t, text, k
<1>3. (r - 1) + 1 = r
  OBVIOUS
<1>4. c.text = Kremap[r].zi
  BY <1>1, <1>2, <1>3, Zenon DEF RemapText
<1> QED
  BY <1>1, <1>4, Zenon DEF AnsweredBy

----------------------------------------------------------------------------
(* The handlers keep it so.                                                *)

\* Something is typed and nothing is being selected.
Open(s) == Sound(s) /\ "MCCH" \notin s.mode /\ s.spot = FALSE /\ s.keystroke # <<>>

\* A search for it shows its first page.
Opened(s, m) == /\ Open(m) /\ Good(m) /\ Shown(m)
                /\ m.commits = s.commits /\ m.cch = s.cch

\* That is what match_keystroke() does.
LEMMA MatchOpens ==
  ASSUME NEW s, Open(s)
  PROVE  Opened(s, Match(s))
<1> DEFINE m == Match(s)
<1>1. Sound(s) /\ "MCCH" \notin s.mode /\ s.spot = FALSE /\ s.keystroke # <<>>
  BY Zenon DEF Open
<1>2. Sound(m) /\ Searched(s, m) /\ Shown(m)
  BY <1>1, MatchAfter, MatchShown
<1> HIDE DEF m
<1>3. /\ m.keystroke = s.keystroke /\ m.spot = s.spot
      /\ m.cch = s.cch /\ m.commits = s.commits
      /\ "MCCH" \in m.mode <=> "MCCH" \in s.mode
  BY <1>2, Zenon DEF Searched
<1>4. Selected(m)
  BY <1>1, <1>3, Zenon DEF Selected
<1> QED
  BY <1>1, <1>2, <1>3, <1>4, Zenon DEF Opened, Open, Good, m

\* The flags tell of a text that commit_char() has assembled.
LEMMA CommitTold ==
  ASSUME NEW s, Sound(s), NEW k, NEW text, TextAnswers(CommitChar(s, k, text).cch)
  PROVE  Fair(s, [s |-> CommitChar(s, k, text), ret |-> {"COMMIT"}])
<1> DEFINE t == CommitChar(s, k, text)
<1>1. Committed(s, t, text)
  BY CommitCharGood
<1>2. TextAnswers(t.cch)
  OBVIOUS
<1> HIDE DEF t
<1>3. Good(t) /\ t.commits = s.commits + 1
  BY <1>1, Zenon DEF Committed
<1>4. Clear(s) => t.commits = 1
  BY <1>3 DEF Clear
<1>5. "COMMIT" \in {"COMMIT"}
  OBVIOUS
<1>6. Fair(s, [s |-> t, ret |-> {"COMMIT"}])
  BY <1>2, <1>3, <1>4, <1>5, FairOf
<1> QED
  BY <1>6 DEF t

\* Nothing is committed.
LEMMA NothingTold ==
  ASSUME NEW s, NEW t, Good(t), t.commits = s.commits, t.cch = s.cch,
         NEW f, "COMMIT" \notin f
  PROVE  Fair(s, [s |-> t, ret |-> f])
<1>1. Clear(s) => /\ t.commits = IF "COMMIT" \in f THEN 1 ELSE 0
                  /\ TextAnswers(t.cch)
  BY Zenon DEF Clear
<1> QED
  BY <1>1, FairOf

\* The end of commit_keystroke(), after that search,
LEMMA CommitMatchFair ==
  ASSUME NEW s, NEW m, Opened(s, m)
  PROVE  Fair(m, CommitMatch(m))
<1>0. Open(m) /\ Good(m) /\ Shown(m) /\ Sound(m) /\ "MCCH" \notin m.mode
      /\ m.keystroke # <<>>
  BY Zenon DEF Opened, Open
<1>1. CASE m.mcch = <<>>
  <2>1. CommitMatch(m) = [s |-> Wrong(m), ret |-> {}]
    BY <1>1, Zenon DEF CommitMatch
  <2>2. Good(Wrong(m)) /\ Wrong(m).commits = m.commits /\ Wrong(m).cch = m.cch
    BY <1>0, WrongGood
  <2>3. "COMMIT" \notin {}
    OBVIOUS
  <2> QED
    BY <2>1, <2>2, <2>3, NothingTold
<1>2. CASE m.mcch # <<>> /\ Len(m.all) = 1
  <2>1. CommitMatch(m) = [s |-> CommitChar(m, 0, TextAt(m, 0, 0)), ret |-> {"COMMIT"}]
    BY <1>2, Zenon DEF CommitMatch
  <2>2. 0 \in Nat /\ 0 < Len(m.mcch)
    <3>1. m.mcch \in Seq(Cand)
      BY <1>0, Zenon DEF Sound, Typed
    <3> QED
      BY <1>2, <3>1, EmptySeq, LenProperties
  <2>3. TextAnswers(CommitChar(m, 0, TextAt(m, 0, 0)).cch)
    BY <1>0, <2>2, PickedAnswers
  <2> QED
    BY <1>0, <2>1, <2>3, CommitTold
<1>3. CASE m.mcch # <<>> /\ Len(m.all) # 1
  <2> DEFINE t == [m EXCEPT !.mode = @ \cup {"MCCH"}, !.spot = TRUE]
  <2>1. CommitMatch(m) = [s |-> t, ret |-> {}]
    BY <1>3, Zenon DEF CommitMatch
  <2>2. DOMAIN m = Fields /\ m.mode \in SUBSET Marks
    BY <1>0, Zenon DEF Sound, Typed
  <2>3. /\ DOMAIN t = Fields /\ t.mode = m.mode \cup {"MCCH"} /\ t.spot = TRUE
        /\ t.keystroke = m.keystroke /\ t.mcch = m.mcch /\ t.grouping = m.grouping
        /\ t.pgstate = m.pgstate /\ t.all = m.all /\ t.hidx = m.hidx /\ t.eidx = m.eidx
        /\ t.has_tsi = m.has_tsi /\ t.normal = m.normal /\ t.wild = m.wild
        /\ t.cch = m.cch /\ t.commits = m.commits
    BY <2>2, Zenon DEF Fields
  <2> HIDE DEF t
  <2>4. /\ t.mode \in SUBSET Marks /\ ("INWILD" \in t.mode <=> "INWILD" \in m.mode)
        /\ "MCCH" \in t.mode
    BY <2>2, <2>3, Zenon DEF Marks
  <2>5. SameButMarks(m, t)
    BY <2>3, <2>4, Zenon DEF SameButMarks
  <2>6. Sound(t)
    BY <1>0, <2>5, MarksAfter DEF After
  <2>7. Shown(t)
    BY <1>0, <2>5, ShownSame DEF SameButMarks
  <2>8. Selected(t)
    BY <1>0, <1>3, <2>3, <2>4, Zenon DEF Selected
  <2>9. Good(t)
    BY <2>6, <2>7, <2>8 DEF Good
  <2>10. "COMMIT" \notin {}
    OBVIOUS
  <2> QED
    BY <2>1, <2>3, <2>9, <2>10, NothingTold
<1> QED
  BY <1>1, <1>2, <1>3

\* What is fair to the world after a search is fair to the one before.
LEMMA FairBefore ==
  ASSUME NEW s, NEW m, NEW r, m.commits = s.commits, m.cch = s.cch, Fair(m, r)
  PROVE  Fair(s, r)
BY Zenon DEF Fair, Clear

\* and commit_keystroke() itself.
LEMMA CommitKeystrokeFair ==
  ASSUME NEW s, Open(s)
  PROVE  Fair(s, CommitKeystroke(s))
<1> DEFINE remap == {k \in DOMAIN Kremap : Kremap[k].ks = s.keystroke}
           r     == CHOOSE k \in remap : \A h \in remap : k <= h
<1>0. Sound(s)
  BY Zenon DEF Open
<1>1. CASE remap # {}
  <2>1. CommitKeystroke(s) = [s |-> CommitChar(s, r - 1, RemapText(s, r - 1)), ret |-> {"COMMIT"}]
    BY <1>1, Zenon DEF CommitKeystroke
  <2>2. r \in remap
    <3>1. remap \in SUBSET Nat
      <4>1. DOMAIN Kremap = 1 .. Len(Kremap)
        BY ConstantsOK, LenProperties
      <4>2. 1 .. Len(Kremap) \subseteq Nat
        OBVIOUS
      <4> QED
        BY <4>1, <4>2, Zenon
    <3>2. \E k \in remap : \A h \in remap : k <= h
      <4> HIDE DEF remap
      <4> QED
        BY <1>1, <3>1, LeastOf
    <3> HIDE DEF remap
    <3> QED
      BY <3>2, Zenon
  <2> HIDE DEF r
  <2>3. r \in DOMAIN Kremap /\ Kremap[r].ks = s.keystroke
    BY <2>2
  <2>4. r \in Int
    BY <2>3, ConstantsOK, LenProperties
  <2>5. TextAnswers(CommitChar(s, r - 1, RemapText(s, r - 1)).cch)
    BY <1>0, <2>3, <2>4, RemapAnswers
  <2> DEFINE text == RemapText(s, r - 1)
             k == r - 1
  <2>6. TextAnswers(CommitChar(s, k, text).cch)
    BY <2>5
  <2>7. CommitKeystroke(s) = [s |-> CommitChar(s, k, text), ret |-> {"COMMIT"}]
    BY <2>1
  <2> HIDE DEF text, k
  <2> QED
    BY <1>0, <2>6, <2>7, CommitTold
<1>2. CASE remap = {}
  <2> DEFINE m == Match(s)
  <2>1. CommitKeystroke(s) = CommitMatch(m)
    BY <1>2, Zenon DEF CommitKeystroke
  <2>2. Opened(s, m)
    BY MatchOpens
  <2> HIDE DEF m
  <2>3. Fair(m, CommitMatch(m))
    BY <2>2, CommitMatchFair
  <2>4. m.commits = s.commits /\ m.cch = s.cch
    BY <2>2, Zenon DEF Opened
  <2>5. Fair(s, CommitMatch(m))
    BY <2>3, <2>4, FairBefore
  <2> QED
    BY <2>1, <2>5
<1> QED
  BY <1>1, <1>2

\* What mcch_choosech() comes to.
Choice(m, c) ==
    /\ Good(c.s)
    /\ c.ok => /\ c.s.commits = m.commits + 1 /\ TextAnswers(c.s.cch)
               /\ c.s.keystroke = <<>> /\ c.s.mode = {} /\ c.s.spot = FALSE
    /\ ~c.ok => c.s.commits = m.commits /\ c.s.cch = m.cch

\* It is what it comes to with a page that is shown.
LEMMA ChooseInGood ==
  ASSUME NEW m, Good(m), NEW idx \in Int
  PROVE  /\ Choice(m, ChooseIn(m, idx))
         /\ (idx < 0 /\ m.mcch # <<>>) => ChooseIn(m, idx).ok
         /\ ~ChooseIn(m, idx).ok => ChooseIn(m, idx).s = m
         /\ ChooseIn(m, idx).ok \in BOOLEAN
<1> DEFINE k   == IF idx < 0 THEN 0 ELSE idx + (IF On("SELKEYSHIFT") THEN 1 ELSE 0)
           beg == IF "INWILD" \in m.mode THEN AllIndex(m.all, k)
                  ELSE AllIndex(m.all, m.hidx + k) - AllIndex(m.all, m.hidx)
           ok  == /\ m.mcch # <<>>
                  /\ idx < 0 \/ k < Least(NSelkey, Len(Flat(m.mcch)))
           t   == CommitChar(m, k, TextAt(m, k, beg))
           c   == ChooseIn(m, idx)
<1>1. c.ok = ok /\ c.s = IF ok THEN Reset(t) ELSE m
  BY Zenon DEF ChooseIn
<1>2. ok \in BOOLEAN
  BY Zenon
<1>3. (idx < 0 /\ m.mcch # <<>>) => ok
  BY Zenon
<1>4. k \in Nat
  BY SMT
<1>5. Sound(m) /\ Selected(m) /\ (Synced(m) => Shown(m))
  BY Zenon DEF Good
<1>6. ok => m.mcch # <<>> /\ (idx < 0 \/ k < Least(NSelkey, Len(Flat(m.mcch))))
  BY Zenon
<1>7. idx < 0 => k = 0
  BY Zenon
<1> HIDE DEF k, ok, beg
<1>8. ASSUME ok
      PROVE  TextAnswers(t.cch)
  <2> DEFINE text == TextAt(m, k, beg)
  <2> HIDE DEF text
  <2>1. Committed(m, CommitChar(m, k, text), text)
    BY <1>5, CommitCharGood
  <2>2. Committed(m, t, text)
    BY <2>1 DEF text
  <2> HIDE DEF t
  <2>3. t.cch.tsi = m.has_tsi
    BY <2>2, Zenon DEF Committed
  <2>4. SUFFICES ASSUME On("AUTOCOMPOSE"), ~m.has_tsi
                 PROVE  TextAnswers(t.cch)
    BY <2>3, Zenon DEF TextAnswers
  <2>5. m.mcch # <<>>
    BY <1>6, <1>8
  <2>6. m.keystroke # <<>>
    BY <1>5, <2>5, Zenon DEF Selected
  <2>7. Shown(m)
    BY <1>5, <2>4, <2>6, Zenon DEF Synced
  <2>8. Len(Flat(m.mcch)) = Len(m.mcch) /\ Len(m.mcch) \in Nat
    BY <1>5, <2>4, SinglesOf
  <2>9. Len(m.mcch) # 0
    <3>1. m.mcch \in Seq(Cand)
      BY <1>5, Zenon DEF Sound, Typed
    <3> QED
      BY <2>5, <3>1, EmptySeq
  <2>10. k < Len(m.mcch)
    <3> DEFINE L == Len(m.mcch)
    <3>1. k = 0 \/ k < Least(NSelkey, L)
      BY <1>6, <1>7, <1>8, <2>8, Zenon
    <3>2. L \in Nat /\ L # 0 /\ NSelkey \in Nat
      BY <2>8, <2>9, NSelkeyType
    <3> HIDE DEF L
    <3>3. k < L
      BY <1>4, <3>1, <3>2, SMT DEF Least
    <3> QED
      BY <3>3 DEF L
  <2>11. TextAnswers(CommitChar(m, k, TextAt(m, k, beg)).cch)
    BY <1>4, <1>5, <2>7, <2>10, PickedAnswers
  <2> QED
    BY <2>11, Zenon DEF t
<1>9. Good(t) /\ t.commits = m.commits + 1 /\ t.spot = FALSE /\ Sound(t)
  <2> DEFINE text == TextAt(m, k, beg)
  <2> HIDE DEF text
  <2>1. Committed(m, CommitChar(m, k, text), text)
    BY <1>5, CommitCharGood
  <2>2. Committed(m, t, text)
    BY <2>1 DEF text
  <2> HIDE DEF t
  <2> QED
    BY <2>2, Zenon DEF Committed, Good
<1> HIDE DEF t, c
<1>10. LET r == Reset(t) IN
       /\ Good(r) /\ r.commits = t.commits /\ r.cch = t.cch
       /\ r.keystroke = <<>> /\ r.mode = {} /\ r.spot = FALSE
  BY <1>9, ResetGood
<1>11. Choice(m, c)
  <2>1. CASE ok
    <3>1. c.ok /\ c.s = Reset(t)
      BY <1>1, <2>1, Zenon
    <3>2. c.s.commits = m.commits + 1
      BY <1>9, <1>10, <3>1, Zenon
    <3> QED
      BY <1>8, <1>10, <2>1, <3>1, <3>2, Zenon DEF Choice
  <2>2. CASE ~ok
    <3>1. ~c.ok /\ c.s = m
      BY <1>1, <2>2, Zenon
    <3> QED
      BY <3>1, Zenon DEF Choice
  <2> QED
    BY <2>1, <2>2
<1>12. /\ (idx < 0 /\ m.mcch # <<>>) => c.ok
       /\ ~c.ok => c.s = m
       /\ c.ok \in BOOLEAN
  BY <1>1, <1>2, <1>3, Zenon
<1> QED
  BY <1>11, <1>12, Zenon DEF c

\* It searches when nothing is shown, for a keystroke that there is.
LEMMA ChooseGood ==
  ASSUME NEW s, Good(s), NEW idx \in Int, s.keystroke # <<>>
  PROVE  /\ Choice(s, Choose(s, idx))
         /\ Choose(s, idx).ok \in BOOLEAN
         /\ (idx < 0 /\ ~Choose(s, idx).ok) =>
               s.mcch = <<>> /\ "MCCH" \notin Choose(s, idx).s.mode
<1> DEFINE m == IF s.mcch = <<>> THEN Match(s) ELSE s
           c == ChooseIn(m, idx)
<1>1. Choose(s, idx) = c
  BY Zenon DEF Choose
<1>2. Good(m) /\ m.commits = s.commits /\ m.cch = s.cch /\ (s.mcch # <<>> => m = s)
  <2>1. CASE s.mcch = <<>>
    <3>1. Open(s)
      BY <2>1, Zenon DEF Good, Selected, Open
    <3>2. Opened(s, Match(s))
      BY <3>1, MatchOpens
    <3>3. m = Match(s)
      BY <2>1, Zenon
    <3> QED
      BY <2>1, <3>2, <3>3, Zenon DEF Opened
  <2>2. CASE s.mcch # <<>>
    BY <2>2, Zenon
  <2> QED
    BY <2>1, <2>2
<1> HIDE DEF m
<1>3. /\ Choice(m, c)
      /\ (idx < 0 /\ m.mcch # <<>>) => c.ok
      /\ ~c.ok => c.s = m
      /\ c.ok \in BOOLEAN
  BY <1>2, ChooseInGood
<1> HIDE DEF c
<1>4. Choice(s, c)
  BY <1>2, <1>3, Zenon DEF Choice
<1>5. ASSUME idx < 0, ~c.ok
      PROVE  s.mcch = <<>> /\ "MCCH" \notin c.s.mode
  <2>1. m.mcch = <<>> /\ c.s = m
    BY <1>3, <1>5, Zenon
  <2>2. s.mcch = <<>>
    BY <1>2, <2>1, Zenon
  <2>3. "MCCH" \notin m.mode
    BY <1>2, <2>1, Zenon DEF Good, Selected
  <2> QED
    BY <2>1, <2>2, <2>3
<1> QED
  BY <1>1, <1>3, <1>4, <1>5, Zenon

\* A selection key.
LEMMA SelectFair ==
  ASSUME NEW s, Good(s), NEW idx \in Int, s.keystroke # <<>>
  PROVE  Fair(s, Select(s, idx))
<1> DEFINE c == Choose(s, idx)
<1>1. Choice(s, c) /\ c.ok \in BOOLEAN
  BY ChooseGood
<1>2. Select(s, idx) = [s |-> c.s, ret |-> IF c.ok THEN {"COMMIT"} ELSE {}]
  BY Zenon DEF Select, Chosen
<1> HIDE DEF c
<1> DEFINE f == IF c.ok THEN {"COMMIT"} ELSE {}
           t == c.s
<1>3. Good(t)
  BY <1>1, Zenon DEF Choice
<1>4. Clear(s) => /\ t.commits = IF "COMMIT" \in f THEN 1 ELSE 0
                  /\ TextAnswers(t.cch)
  <2> SUFFICES ASSUME Clear(s)
               PROVE  /\ t.commits = IF "COMMIT" \in f THEN 1 ELSE 0
                      /\ TextAnswers(t.cch)
    OBVIOUS
  <2>1. s.commits = 0 /\ TextAnswers(s.cch)
    BY DEF Clear
  <2>2. CASE c.ok
    <3>1. t.commits = s.commits + 1 /\ TextAnswers(t.cch)
      BY <1>1, <2>2, Zenon DEF Choice
    <3>2. t.commits = 1
      BY <2>1, <3>1
    <3>3. "COMMIT" \in f
      BY <2>2, Zenon
    <3> QED
      BY <3>1, <3>2, <3>3, Zenon
  <2>3. CASE ~c.ok
    <3>1. t.commits = s.commits /\ t.cch = s.cch
      BY <1>1, <2>3, Zenon DEF Choice
    <3>2. "COMMIT" \notin f
      BY <2>3, Zenon
    <3> QED
      BY <2>1, <3>1, <3>2, Zenon
  <2> QED
    BY <2>2, <2>3
<1> HIDE DEF t, f
<1>5. Fair(s, [s |-> t, ret |-> f])
  BY <1>3, <1>4, FairOf
<1> QED
  BY <1>2, <1>5 DEF t, f

\* Turning pages: SPACE and TAB, "<" and ">".
LEMMA NextPageFair ==
  ASSUME NEW s, Good(s), "MCCH" \in s.mode, NEW key
  PROVE  Fair(s, NextPage(s, key))
<1> DEFINE dir == CASE s.pgstate = "END"    -> IF key = "<" THEN -1 ELSE 0
                    [] s.pgstate = "MIDDLE" -> IF key = "<" THEN -1 ELSE 1
                    [] OTHER                -> 1
<1>0. /\ Sound(s) /\ DOMAIN s = Fields /\ s.keystroke # <<>> /\ s.mcch # <<>> /\ Shown(s)
      /\ s.spot = TRUE /\ s.pgstate \in PageState
  BY Zenon DEF Good, Selected, Synced, Sound, Typed
<1>1. \/ NextPage(s, key) = Select(s, -1)
      \/ NextPage(s, key) = [s |-> s, ret |-> {}]
      \/ /\ s.pgstate # "ONEPG" /\ ~(s.pgstate = "BEGIN" /\ key = "<")
         /\ NextPage(s, key) = [s |-> FillPage(s, dir), ret |-> {}]
  BY Zenon DEF NextPage
<1>2. Fair(s, Select(s, -1))
  BY <1>0, SelectFair
<1>3. "COMMIT" \notin {}
  OBVIOUS
<1>4. Fair(s, [s |-> s, ret |-> {}])
  BY <1>3, NothingTold
<1>5. ASSUME s.pgstate # "ONEPG", ~(s.pgstate = "BEGIN" /\ key = "<")
      PROVE  Fair(s, [s |-> FillPage(s, dir), ret |-> {}])
  <2>1. Turns(s, dir)
    <3>1. s.pgstate \in {"BEGIN", "MIDDLE", "END"}
      BY <1>0, <1>5, Zenon DEF PageState
    <3>2. s.pgstate = "END" => dir = IF key = "<" THEN -1 ELSE 0
      BY Zenon
    <3>3. s.pgstate = "MIDDLE" => dir = IF key = "<" THEN -1 ELSE 1
      <4>1. "MIDDLE" # "END"
        OBVIOUS
      <4> QED
        BY <4>1, Zenon
    <3>4. s.pgstate = "BEGIN" => dir = 1
      <4>1. "BEGIN" # "END" /\ "BEGIN" # "MIDDLE"
        OBVIOUS
      <4> QED
        BY <4>1, Zenon
    <3> HIDE DEF dir
    <3> QED
      BY <3>1, <3>2, <3>3, <3>4, Zenon DEF Turns
  <2> HIDE DEF dir
  <2>2. PICK p \in Nat : PageAt(s, p)
    BY <1>0, Zenon DEF Shown
  <2> DEFINE t == FillPage(s, dir)
  <2>3. /\ Sound(t) /\ t.commits = s.commits /\ t.cch = s.cch /\ t.keystroke = s.keystroke
        /\ t.mode = s.mode /\ t.spot = s.spot
        /\ Shown(t) /\ t.mcch # <<>>
    <3>1. CASE "INWILD" \in s.mode
      <4>1. t = FillWild(s, dir)
        BY <3>1, Zenon DEF FillPage
      <4>2. Sound(t) /\ t.commits = s.commits
        BY <1>0, <3>1, <4>1, FillWildAfter DEF After
      <4> HIDE DEF t
      <4>3. CASE Onward(s, dir)
        <5>1. \E h \in Nat : PageAt(t, h)
          <6>1. Sound(s) /\ PageAt(s, p)
            BY <1>0, <2>2
          <6>2. \E h \in Nat : PageAt(FillWild(s, dir), h)
            BY <3>1, <4>3, <6>1, FillOnShown
          <6> QED
            BY <4>1, <6>2, Zenon
        <5>2. Shown(t) /\ t.mcch # <<>>
          BY <5>1, PageHolds
        <5>3. t.keystroke = s.keystroke /\ t.mode = s.mode /\ t.spot = s.spot /\ t.cch = s.cch
          <6> DEFINE from == s.eidx + 1
                     pick == PickWild(s, from, dir)
                     page == pick.cands
                     ps   == IF pick.more THEN "MIDDLE" ELSE "END"
          <6>1. WildSets(s, FillWild(s, dir), page, "own", s.wild, ps, from, pick.last)
            BY <1>0, <4>3, FillOnSets
          <6> HIDE DEF from, pick, page, ps
          <6> QED
            BY <4>1, <6>1, Zenon DEF WildSets
        <5> QED
          BY <4>2, <5>2, <5>3
      <4>4. CASE Backward(s, dir)
        <5>1. \E h \in Nat : PageAt(t, h)
          <6>1. Sound(s) /\ PageAt(s, p)
            BY <1>0, <2>2
          <6>2. \E h \in Nat : PageAt(FillWild(s, dir), h)
            BY <3>1, <4>4, <6>1, FillBackShown
          <6> QED
            BY <4>1, <6>2, Zenon
        <5>2. Shown(t) /\ t.mcch # <<>>
          BY <5>1, PageHolds
        <5>3. t.keystroke = s.keystroke /\ t.mode = s.mode /\ t.spot = s.spot /\ t.cch = s.cch
          <6> DEFINE from == s.hidx - 1
                     pick == PickWild(s, from, dir)
                     page == Reverse(pick.cands)
                     w    == Lengths(page)
                     ps   == IF pick.more THEN "MIDDLE" ELSE "BEGIN"
          <6>1. WildSets(s, FillWild(s, dir), page, "wild", w, ps, pick.last, from)
            BY <1>0, <4>4, FillBackSets
          <6> HIDE DEF from, pick, page, w, ps
          <6> QED
            BY <4>1, <6>1, Zenon DEF WildSets
        <5> QED
          BY <4>2, <5>2, <5>3
      <4>5. CASE ~Onward(s, dir) /\ ~Backward(s, dir)
        <5>1. t = s
          BY <4>1, <4>5, Zenon DEF FillWild, Onward, Backward
        <5> QED
          BY <1>0, <5>1
      <4> QED
        BY <4>3, <4>4, <4>5
    <3>2. CASE "INWILD" \notin s.mode
      <4>1. t = FillNormal(s, dir)
        BY <3>2, Zenon DEF FillPage
      <4>2. Sound(t) /\ t.commits = s.commits
        BY <1>0, <1>5, <3>2, <4>1, FillNormalAfter DEF After
      <4> HIDE DEF t
      <4>3. \E h \in Nat : PageAt(t, h)
        BY <1>0, <2>1, <2>2, <3>2, <4>1, FillNormalShown
      <4>4. Shown(t) /\ t.mcch # <<>>
        BY <4>3, PageHolds
      <4>5. t.keystroke = s.keystroke /\ t.mode = s.mode /\ t.spot = s.spot /\ t.cch = s.cch
        <5>1. Stopped(s, dir) => t = s
          BY <1>0, <4>1, FillNormalSets
        <5>2. ~Stopped(s, dir) => \E h, page : FillSets(s, t, h, page)
          BY <1>0, <4>1, FillNormalSets
        <5> QED
          BY <5>1, <5>2, Zenon DEF FillSets
      <4> QED
        BY <4>2, <4>4, <4>5
    <3> QED
      BY <3>1, <3>2
  <2> HIDE DEF t
  <2>4. Selected(t)
    BY <1>0, <2>3, Zenon DEF Selected
  <2>5. Good(t)
    BY <2>3, <2>4, Zenon DEF Good
  <2>6. Fair(s, [s |-> t, ret |-> {}])
    BY <1>3, <2>3, <2>5, NothingTold
  <2> QED
    BY <2>6 DEF t
<1> QED
  BY <1>1, <1>2, <1>4, <1>5

----------------------------------------------------------------------------
(* Typing keeps it so.                                                     *)

\* No text is assembled.
Quiet(s, t) == Good(t) /\ t.commits = s.commits /\ t.cch = s.cch

\* With nothing typed and room for two keys, a key never ends the keystroke.
Room(s) == s.keystroke = <<>> /\ n_max_keystroke > 1

\* What typing a key may come to: the flags stay, or a text is assembled, and then the
\* flags are its own.
Typing(s, r, flags) ==
    \/ \E t, f : /\ Quiet(s, t) /\ r = [s |-> t, ret |-> f]
                 /\ "COMMIT" \in f <=> "COMMIT" \in flags
    \/ ~Room(s) /\ Fair(s, r)

\* It may be said of the world with a wild card to come.
LEMMA TypingBefore ==
  ASSUME NEW s, NEW w, NEW r, NEW flags, Typing(w, r, flags),
         w.keystroke = s.keystroke, w.commits = s.commits, w.cch = s.cch
  PROVE  Typing(s, r, flags)
<1>1. ASSUME NEW t, NEW f, Quiet(w, t), r = [s |-> t, ret |-> f],
             "COMMIT" \in f <=> "COMMIT" \in flags
      PROVE  Typing(s, r, flags)
  <2>1. Quiet(s, t)
    BY <1>1, Zenon DEF Quiet
  <2> QED
    BY <1>1, <2>1, Zenon DEF Typing
<1>2. ASSUME ~Room(w), Fair(w, r)
      PROVE  Typing(s, r, flags)
  <2>1. Fair(s, r)
    BY <1>2, FairBefore
  <2>2. ~Room(s)
    BY <1>2, Zenon DEF Room
  <2> QED
    BY <2>1, <2>2, Zenon DEF Typing
<1> QED
  BY <1>1, <1>2, Zenon DEF Typing

\* The key joins the keystroke.
LEMMA TypeKeyTypes ==
  ASSUME NEW s, Sound(s), "MCCH" \notin s.mode, s.spot = FALSE, NEW key \in Key, NEW flags
  PROVE  Typing(s, TypeKey(s, key, flags), flags)
<1> DEFINE ks  == Append(s.keystroke, key)
           n   == Len(ks)
           m   == s.mode \cup (IF On("SPACEIGNOR") /\ n = n_max_keystroke
                                 THEN {"SPACE"} ELSE {})
           a   == [s EXCEPT !.keystroke = ks, !.mode = m]
           end == \/ On("ENDKEY") /\ n > 1 /\ key \in Endkey
                  \/ On("AUTOFULLUP") /\ n = n_max_keystroke
           b   == IF On("AUTOCOMPOSE") THEN Match(a) ELSE a
<1>1. DOMAIN s = Fields /\ s.mode \in SUBSET Marks /\ s.keystroke \in Seq(Key)
  BY Zenon DEF Sound, Typed
<1>2. /\ m \in SUBSET Marks /\ ("INWILD" \in s.mode => "INWILD" \in m)
      /\ "MCCH" \notin m
  <2>1. "MCCH" # "SPACE"
    OBVIOUS
  <2> QED
    BY <1>1, <2>1, Zenon DEF Marks
<1>3. ks \in Seq(Key) /\ ks # <<>> /\ n = Len(s.keystroke) + 1 /\ n \in Nat
  <2>1. ks \in Seq(Key) /\ n = Len(s.keystroke) + 1 /\ Len(s.keystroke) \in Nat
    BY <1>1, AppendProperties, LenProperties
  <2>2. ks # <<>>
    BY <1>1, AppendProperties
  <2> QED
    BY <2>1, <2>2
<1>4. TypeKey(s, key, flags) = IF end THEN CommitKeystroke(a) ELSE [s |-> b, ret |-> flags]
  BY Zenon DEF TypeKey
<1>5. ASSUME Room(s)
      PROVE  ~end
  <2>1. Len(s.keystroke) = 0
    BY <1>5, EmptySeq DEF Room
  <2>2. n = 1
    BY <1>3, <2>1
  <2> HIDE DEF n
  <2>3. ~(n > 1) /\ n # n_max_keystroke
    BY <1>5, <2>2, ConstantsOK DEF Room
  <2> QED
    BY <2>3, Zenon
<1> HIDE DEF ks, m, end, n
<1>6. /\ DOMAIN a = Fields /\ a.mode = m /\ a.keystroke = ks
      /\ a.mcch = s.mcch /\ a.grouping = s.grouping
      /\ a.pgstate = s.pgstate /\ a.all = s.all /\ a.hidx = s.hidx /\ a.eidx = s.eidx
      /\ a.has_tsi = s.has_tsi /\ a.normal = s.normal /\ a.wild = s.wild
      /\ a.cch = s.cch /\ a.commits = s.commits /\ a.spot = s.spot
  BY <1>1, Zenon DEF Fields
<1> HIDE DEF a
<1>7. SamePage(s, a)
  BY <1>2, <1>3, <1>6, Zenon DEF SamePage
<1>8. Sound(a)
  BY <1>7, SamePageSound
<1>9. Open(a)
  BY <1>2, <1>3, <1>6, <1>8, Zenon DEF Open
<1>10. CASE end
  <2>1. TypeKey(s, key, flags) = CommitKeystroke(a)
    BY <1>4, <1>10, Zenon
  <2>2. Fair(a, CommitKeystroke(a))
    BY <1>9, CommitKeystrokeFair
  <2>3. Fair(s, CommitKeystroke(a))
    BY <1>6, <2>2, FairBefore
  <2> QED
    BY <1>5, <1>10, <2>1, <2>3, Zenon DEF Typing
<1>11. CASE ~end
  <2>1. TypeKey(s, key, flags) = [s |-> b, ret |-> flags]
    BY <1>4, <1>11, Zenon
  <2>2. Quiet(s, b)
    <3>1. CASE On("AUTOCOMPOSE")
      <4>1. Opened(a, Match(a)) /\ b = Match(a)
        BY <1>9, <3>1, MatchOpens
      <4> HIDE DEF b
      <4> QED
        BY <1>6, <4>1, Zenon DEF Opened, Quiet
    <3>2. CASE ~On("AUTOCOMPOSE")
      <4>1. b = a
        BY <3>2, Zenon
      <4> HIDE DEF b
      <4>2. ~Synced(a)
        BY <1>9, <3>2, Zenon DEF Synced, Open
      <4>3. Selected(a)
        BY <1>9, Zenon DEF Selected, Open
      <4>4. Good(a)
        BY <1>8, <4>2, <4>3, Zenon DEF Good
      <4> QED
        BY <1>6, <4>1, <4>4, Zenon DEF Quiet
    <3> QED
      BY <3>1, <3>2
  <2> HIDE DEF b
  <2> QED
    BY <2>1, <2>2, Zenon DEF Typing
<1> QED
  BY <1>10, <1>11

\* Whatever key is pressed, with whatever modifier, while nothing is being selected.
LEMMA TypeTypes ==
  ASSUME NEW s, Good(s), "MCCH" \notin s.mode, NEW key \in Key, NEW mod, NEW named, NEW flags
  PROVE  Typing(s, Type(s, key, mod, named, flags), flags)
<1> DEFINE w == [s EXCEPT !.mode = @ \cup {"INWILD"}]
           r == Type(s, key, mod, named, flags)
<1>1. Sound(s) /\ s.spot = FALSE
  BY Zenon DEF Good, Selected
<1>2. DOMAIN s = Fields /\ s.mode \in SUBSET Marks /\ s.keystroke \in Seq(Key)
  BY <1>1, Zenon DEF Sound, Typed
<1>3. \/ r = [s |-> s, ret |-> flags \cup {"SHIFTESC"}]
      \/ r = [s |-> s, ret |-> flags \cup {"CTRLPHR"}]
      \/ r = [s |-> s, ret |-> flags \cup {"IGNORE"}]
      \/ Len(s.keystroke) >= n_max_keystroke /\ r = [s |-> s, ret |-> {}]
      \/ r = TypeKey(w, key, flags)
      \/ r = TypeKey(s, key, flags)
  BY Zenon DEF Type
<1>4. ASSUME NEW f, r = [s |-> s, ret |-> f], "COMMIT" \in f <=> "COMMIT" \in flags
      PROVE  Typing(s, r, flags)
  <2>1. Quiet(s, s)
    BY Zenon DEF Quiet
  <2> QED
    BY <1>4, <2>1, Zenon DEF Typing
<1>5. /\ "COMMIT" \in flags \cup {"SHIFTESC"} <=> "COMMIT" \in flags
      /\ "COMMIT" \in flags \cup {"CTRLPHR"} <=> "COMMIT" \in flags
      /\ "COMMIT" \in flags \cup {"IGNORE"} <=> "COMMIT" \in flags
  OBVIOUS
<1>6. ASSUME Len(s.keystroke) >= n_max_keystroke, r = [s |-> s, ret |-> {}]
      PROVE  Typing(s, r, flags)
  <2>1. ~Room(s)
    <3> SUFFICES ASSUME Room(s)
                 PROVE  FALSE
      OBVIOUS
    <3>1. Len(s.keystroke) = 0
      BY EmptySeq DEF Room
    <3> QED
      BY <1>6, <3>1, ConstantsOK
  <2>2. "COMMIT" \notin {}
    OBVIOUS
  <2>3. Fair(s, [s |-> s, ret |-> {}])
    BY <2>2, NothingTold
  <2> QED
    BY <1>6, <2>1, <2>3, Zenon DEF Typing
<1>7. ASSUME r = TypeKey(w, key, flags)
      PROVE  Typing(s, r, flags)
  <2>1. /\ DOMAIN w = Fields /\ w.mode = s.mode \cup {"INWILD"} /\ w.spot = s.spot
        /\ w.keystroke = s.keystroke /\ w.mcch = s.mcch /\ w.grouping = s.grouping
        /\ w.pgstate = s.pgstate /\ w.all = s.all /\ w.hidx = s.hidx /\ w.eidx = s.eidx
        /\ w.has_tsi = s.has_tsi /\ w.normal = s.normal /\ w.wild = s.wild
        /\ w.cch = s.cch /\ w.commits = s.commits
    BY <1>2, Zenon DEF Fields
  <2>2. s.mode \cup {"INWILD"} \in SUBSET Marks
    BY <1>2, Zenon DEF Marks
  <2>3. "MCCH" \notin s.mode \cup {"INWILD"}
    OBVIOUS
  <2> HIDE DEF w
  <2>4. SamePage(s, w)
    BY <1>2, <2>1, <2>2, Zenon DEF SamePage
  <2>5. Sound(w) /\ "MCCH" \notin w.mode /\ w.spot = FALSE
    BY <1>1, <2>1, <2>3, <2>4, SamePageSound
  <2>6. Typing(w, TypeKey(w, key, flags), flags)
    BY <2>5, TypeKeyTypes
  <2> HIDE DEF r
  <2>7. Typing(w, r, flags)
    BY <1>7, <2>6
  <2> QED
    BY <2>1, <2>7, TypingBefore
<1>8. ASSUME r = TypeKey(s, key, flags)
      PROVE  Typing(s, r, flags)
  BY <1>1, <1>8, TypeKeyTypes
<1> HIDE DEF r, w
<1>9. Typing(s, r, flags)
  BY <1>3, <1>4, <1>5, <1>6, <1>7, <1>8
<1> QED
  BY <1>9 DEF r

----------------------------------------------------------------------------
(* The keys keep it so.                                                    *)

\* What a key comes to: the text is the answer of one keystroke where there is room for
\* two keys.
Honest(r) == Good(r.s) /\ (n_max_keystroke > 1 => Told(r))

\* What a handler finds.
Begun(s) == Good(s) /\ Clear(s)

\* Fair is honest when the handler begins.
LEMMA FairHonest ==
  ASSUME NEW s, Begun(s), NEW r, Fair(s, r)
  PROVE  Honest(r)
BY Zenon DEF Begun, Fair, Honest

\* Typing into what a handler finds,
LEMMA TypingHonest ==
  ASSUME NEW s, Begun(s), NEW r, NEW flags, Typing(s, r, flags), "COMMIT" \notin flags
  PROVE  Honest(r)
<1>1. ASSUME NEW t, NEW f, Quiet(s, t), r = [s |-> t, ret |-> f],
             "COMMIT" \in f <=> "COMMIT" \in flags
      PROVE  Honest(r)
  <2>1. "COMMIT" \notin f
    BY <1>1
  <2>2. Fair(s, [s |-> t, ret |-> f])
    BY <1>1, <2>1, NothingTold DEF Quiet
  <2> QED
    BY <1>1, <2>2, FairHonest
<1>2. ASSUME Fair(s, r)
      PROVE  Honest(r)
  BY <1>2, FairHonest
<1> QED
  BY <1>1, <1>2, Zenon DEF Typing

\* and typing after a text has been assembled.
LEMMA TypingThenHonest ==
  ASSUME NEW s, NEW c, Begun(s), Choice(s, c), c.ok, NEW r, Typing(c.s, r, {"COMMIT"})
  PROVE  Honest(r)
<1> DEFINE u == c.s
<1>1. /\ Good(u) /\ u.commits = s.commits + 1 /\ TextAnswers(u.cch) /\ u.keystroke = <<>>
  BY Zenon DEF Choice
<1>2. s.commits = 0
  BY Zenon DEF Begun, Clear
<1> HIDE DEF u
<1>3. u.commits = 1
  BY <1>1, <1>2
<1>4. ASSUME NEW t, NEW f, Quiet(u, t), r = [s |-> t, ret |-> f],
             "COMMIT" \in f <=> "COMMIT" \in {"COMMIT"}
      PROVE  Honest(r)
  <2>1. "COMMIT" \in f
    BY <1>4
  <2>2. r.s = t /\ r.ret = f
    BY <1>4
  <2>3. Good(t) /\ t.commits = 1 /\ TextAnswers(t.cch)
    BY <1>1, <1>3, <1>4, Zenon DEF Quiet
  <2> QED
    BY <2>1, <2>2, <2>3, Zenon DEF Honest, Told
<1>5. ASSUME ~Room(u), Fair(u, r)
      PROVE  Honest(r)
  <2>1. ~(n_max_keystroke > 1)
    BY <1>1, <1>5, Zenon DEF Room
  <2>2. Good(r.s)
    BY <1>5, Zenon DEF Fair
  <2> QED
    BY <2>1, <2>2, Zenon DEF Honest
<1> QED
  BY <1>4, <1>5, Zenon DEF Typing, u

\* What a handler finds in a good world.
LEMMA BeginGood ==
  ASSUME NEW i \in IC, GenInpInv, Good(World(i))
  PROVE  Begun(Begin(i)) /\ Begin(i).mode = inp[i].mode \ {"SPACE", "WRONG"}
<1> DEFINE w == World(i)
           s == Begin(i)
<1>1. /\ SameButMarks(w, s) /\ s.spot = inp[i].spot
      /\ s.mode = inp[i].mode \ {"SPACE", "WRONG"} /\ s.commits = 0 /\ s.cch = NoText
  BY BeginAfter
<1>2. w.spot = inp[i].spot /\ w.mode = inp[i].mode
  BY WorldIs
<1> HIDE DEF s
<1>3. Good(w)
  OBVIOUS
<1> HIDE DEF w
<1>4. "MCCH" \in s.mode <=> "MCCH" \in w.mode
  BY <1>1, <1>2
<1>5. s.spot = w.spot
  BY <1>1, <1>2
<1>6. Good(s)
  BY <1>1, <1>3, <1>4, <1>5, MarksGood
<1>7. TextAnswers(s.cch)
  BY <1>1, Zenon DEF TextAnswers
<1> QED
  BY <1>1, <1>6, <1>7, Zenon DEF Begun, Clear, s

\* It can be left as it is.
LEMMA StaysHonest ==
  ASSUME NEW s, Begun(s), NEW f, "COMMIT" \notin f
  PROVE  Honest([s |-> s, ret |-> f])
BY NothingTold, FairHonest DEF Begun

\* With something typed and nothing being selected the keystroke can be committed.
LEMMA BegunOpen ==
  ASSUME NEW s, Begun(s), "MCCH" \notin s.mode, s.keystroke # <<>>
  PROVE  Open(s)
BY Zenon DEF Begun, Good, Selected, Open

\* What XK_space falls through to.
LEMMA SpaceRestHonest ==
  ASSUME NEW s, Begun(s), NEW last
  PROVE  Honest(SpaceRest(s, last))
<1>0. Good(s)
  BY DEF Begun
<1>1. \/ "MCCH" \in s.mode /\ SpaceRest(s, last) = NextPage(s, " ")
      \/ "MCCH" \notin s.mode /\ SpaceRest(s, last) = [s |-> Reset(s), ret |-> {}]
      \/ SpaceRest(s, last) = [s |-> s, ret |-> {}]
      \/ /\ "MCCH" \notin s.mode /\ s.keystroke # <<>>
         /\ SpaceRest(s, last) = CommitKeystroke(s)
      \/ SpaceRest(s, last) = [s |-> s, ret |-> {"IGNORE"}]
  BY Zenon DEF SpaceRest
<1>2. ASSUME "MCCH" \in s.mode
      PROVE  Honest(NextPage(s, " "))
  BY <1>0, <1>2, NextPageFair, FairHonest
<1>3. "COMMIT" \notin {} /\ "COMMIT" \notin {"IGNORE"}
  OBVIOUS
<1>4. ASSUME "MCCH" \notin s.mode
      PROVE  Honest([s |-> Reset(s), ret |-> {}])
  <2> DEFINE t == Reset(s)
  <2>1. Sound(s) /\ s.spot = FALSE
    BY <1>0, <1>4, Zenon DEF Good, Selected
  <2>2. Good(t) /\ t.commits = s.commits /\ t.cch = s.cch
    BY <2>1, ResetGood
  <2> HIDE DEF t
  <2>3. Fair(s, [s |-> t, ret |-> {}])
    BY <1>3, <2>2, NothingTold
  <2>4. Honest([s |-> t, ret |-> {}])
    BY <2>3, FairHonest
  <2> QED
    BY <2>4 DEF t
<1>5. ASSUME "MCCH" \notin s.mode, s.keystroke # <<>>
      PROVE  Honest(CommitKeystroke(s))
  BY <1>5, BegunOpen, CommitKeystrokeFair, FairHonest
<1>6. Honest([s |-> s, ret |-> {}]) /\ Honest([s |-> s, ret |-> {"IGNORE"}])
  BY <1>3, StaysHonest
<1> QED
  BY <1>1, <1>2, <1>4, <1>5, <1>6

\* A page has a keystroke.
LEMMA ManyTyped ==
  ASSUME NEW s, Good(s), Many(s)
  PROVE  s.keystroke # <<>>
<1> SUFFICES ASSUME s.keystroke = <<>>
             PROVE  FALSE
  OBVIOUS
<1>1. s.mcch = <<>> /\ s.pgstate = "ONEPG"
  BY Zenon DEF Good, Selected
<1>2. Len(Flat(<<>>)) = 0
  <2>1. <<>> \in Seq(Seq(Char)) /\ Len(<<>>) = 0 /\ 1 .. Len(<<>>) = {}
    BY Empty
  <2>2. \A k \in 1 .. Len(<<>>) : Len(<<>>[k]) = 1
    BY <2>1
  <2>3. Len(Flat(<<>>)) = Len(<<>>)
    BY <2>1, <2>2, FlatOfSingles
  <2> QED
    BY <2>1, <2>3
<1> QED
  BY <1>1, <1>2 DEF Many

\* XK_space.
LEMMA SpaceKeyHonest ==
  ASSUME NEW i \in IC, SpaceKey(i), Begun(Begin(i))
  PROVE  \E r : Finish(i, r) /\ Honest(r)
<1> DEFINE s == Begin(i)
           c == Choose(s, -1)
           last == inp[i].mode
<1>1. \/ Many(s) /\ c.ok /\ Finish(i, [s |-> c.s, ret |-> {"COMMIT"}])
      \/ Many(s) /\ UpTab(s) /\ ~c.ok /\ Finish(i, [s |-> c.s, ret |-> {"COMMIT"}])
      \/ Many(s) /\ ~c.ok /\ Finish(i, [s |-> Wrong(c.s), ret |-> {}])
      \/ Finish(i, SpaceRest(s, last))
  BY Zenon DEF SpaceKey
<1> HIDE DEF last
<1>2. Begun(s)
  OBVIOUS
<1> HIDE DEF s
<1>3. Honest(SpaceRest(s, last))
  BY <1>2, SpaceRestHonest
<1>4. Good(s) /\ Clear(s) /\ s.commits = 0
  BY <1>2 DEF Begun, Clear
<1>5. ASSUME Many(s)
      PROVE  /\ Choice(s, c)
             /\ ~c.ok => s.mcch = <<>> /\ "MCCH" \notin c.s.mode
  <2>1. s.keystroke # <<>>
    BY <1>4, <1>5, ManyTyped
  <2>2. -1 \in Int /\ -1 < 0
    OBVIOUS
  <2> QED
    BY <1>4, <2>1, <2>2, ChooseGood
<1> HIDE DEF c
<1> DEFINE t == c.s
<1>6. ASSUME Many(s), c.ok
      PROVE  Honest([s |-> t, ret |-> {"COMMIT"}])
  <2>1. Good(t) /\ t.commits = s.commits + 1 /\ TextAnswers(t.cch)
    BY <1>5, <1>6, Zenon DEF Choice
  <2>2. Clear(s) => t.commits = 1
    BY <1>4, <2>1
  <2>3. "COMMIT" \in {"COMMIT"}
    OBVIOUS
  <2> HIDE DEF t
  <2>4. Fair(s, [s |-> t, ret |-> {"COMMIT"}])
    BY <2>1, <2>2, <2>3, FairOf
  <2> QED
    BY <1>2, <2>4, FairHonest
<1>7. ~(Many(s) /\ UpTab(s) /\ ~c.ok)
  BY <1>4, <1>5, Zenon DEF UpTab, Good, Selected
<1>8. ASSUME Many(s), ~c.ok
      PROVE  Honest([s |-> Wrong(t), ret |-> {}])
  <2>1. Good(t) /\ t.commits = s.commits /\ t.cch = s.cch /\ "MCCH" \notin t.mode
    BY <1>5, <1>8, Zenon DEF Choice
  <2> HIDE DEF t
  <2> DEFINE u == Wrong(t)
  <2>2. Good(u) /\ u.commits = t.commits /\ u.cch = t.cch
    BY <2>1, WrongGood
  <2> HIDE DEF u
  <2>3. "COMMIT" \notin {}
    OBVIOUS
  <2>4. Fair(s, [s |-> u, ret |-> {}])
    BY <2>1, <2>2, <2>3, NothingTold
  <2>5. Honest([s |-> u, ret |-> {}])
    BY <1>2, <2>4, FairHonest
  <2> QED
    BY <2>5 DEF u
<1> QED
  BY <1>1, <1>3, <1>6, <1>7, <1>8

\* XK_Tab, and the keys that are ignored.
LEMMA TabKeyHonest ==
  ASSUME NEW i \in IC, GenInpInv, Good(World(i)), TabKey(i) \/ IgnoredKey(i)
  PROVE  \E r : Finish(i, r) /\ Honest(r)
<1> DEFINE s == Begin(i)
<1>1. Begun(s) /\ s.mode = inp[i].mode \ {"SPACE", "WRONG"}
  BY BeginGood
<1>2. \/ "MCCH" \in inp[i].mode /\ Finish(i, NextPage(s, " "))
      \/ Finish(i, [s |-> s, ret |-> {"IGNORE"}])
  BY Zenon DEF TabKey, IgnoredKey
<1> HIDE DEF s
<1>3. ASSUME "MCCH" \in inp[i].mode
      PROVE  Honest(NextPage(s, " "))
  <2>1. "MCCH" \in s.mode
    BY <1>1, <1>3
  <2> QED
    BY <1>1, <2>1, NextPageFair, FairHonest DEF Begun
<1>4. "COMMIT" \notin {"IGNORE"}
  OBVIOUS
<1>5. Honest([s |-> s, ret |-> {"IGNORE"}])
  BY <1>1, <1>4, StaysHonest
<1> QED
  BY <1>2, <1>3, <1>5

\* XK_Escape.
LEMMA EscapeKeyHonest ==
  ASSUME NEW i \in IC, EscapeKey(i), Begun(Begin(i))
  PROVE  \E r : Finish(i, r) /\ Honest(r)
<1> DEFINE s == Begin(i)
           u == Reset(s)
           t == [u EXCEPT !.spot = FALSE]
<1>1. Begun(s)
  OBVIOUS
<1>2. Finish(i, [s |-> t, ret |-> {}])
  BY Zenon DEF EscapeKey
<1> HIDE DEF s
<1>3. Sound(s) /\ DOMAIN s = Fields
  BY <1>1, Zenon DEF Begun, Good, Sound, Typed
<1>4. /\ DOMAIN u = Fields
      /\ u.keystroke = <<>> /\ u.mcch = <<>> /\ u.pgstate = "ONEPG" /\ u.mode = {}
      /\ u.commits = s.commits /\ u.cch = s.cch
  BY <1>3, Zenon DEF Reset, Fields
<1>5. Sound(u)
  BY <1>3, ResetAfter DEF After
<1> HIDE DEF u
<1>6. /\ DOMAIN t = Fields /\ t.spot = FALSE
      /\ t.keystroke = u.keystroke /\ t.mcch = u.mcch /\ t.pgstate = u.pgstate
      /\ t.mode = u.mode /\ t.commits = u.commits /\ t.cch = u.cch
  BY <1>4, Zenon DEF Fields
<1>7. SameButMarks(u, t)
  <2>1. u.mode \in SUBSET Marks
    BY <1>5, Zenon DEF Sound, Typed
  <2> QED
    BY <1>4, <2>1, Zenon DEF SameButMarks, Fields
<1> HIDE DEF t
<1>8. Sound(t)
  BY <1>5, <1>7, MarksAfter DEF After
<1>9. Good(t)
  BY <1>4, <1>6, <1>8, CleanGood
<1>10. "COMMIT" \notin {}
  OBVIOUS
<1>11. Fair(s, [s |-> t, ret |-> {}])
  BY <1>4, <1>6, <1>9, <1>10, NothingTold
<1> QED
  BY <1>1, <1>2, <1>11, FairHonest

\* XK_BackSpace and XK_Delete.
LEMMA BackSpaceKeyHonest ==
  ASSUME NEW i \in IC, BackSpaceKey(i), Begun(Begin(i))
  PROVE  \E r : Finish(i, r) /\ Honest(r)
<1> DEFINE s  == Begin(i)
           ks == Front(s.keystroke)
           m  == IF On("WILDON") /\ \E k \in DOMAIN ks : IsWild(ks[k]) THEN {"INWILD"} ELSE {}
           a  == Shortened(s, m)
           t  == IF ks # <<>> /\ On("AUTOCOMPOSE") THEN Match(a) ELSE a
<1>1. Begun(s)
  OBVIOUS
<1>2. s.keystroke # <<>> /\ Finish(i, [s |-> t, ret |-> {}])
  BY Zenon DEF BackSpaceKey, Shortened
<1>3. m \in SUBSET Marks /\ "MCCH" \notin m
  <2>1. "MCCH" # "INWILD"
    OBVIOUS
  <2> QED
    BY <2>1, Zenon DEF Marks
<1>4. ks = <<>> => m = {}
  <2>1. DOMAIN <<>> = {}
    OBVIOUS
  <2> QED
    BY <2>1, Zenon
<1> HIDE DEF m, s
<1>5. Sound(s)
  BY <1>1, Zenon DEF Begun, Good
<1>6. /\ Sound(a) /\ a.keystroke = ks /\ a.mcch = <<>> /\ a.pgstate = "ONEPG"
      /\ a.spot = FALSE /\ a.mode = m /\ a.cch = s.cch /\ a.commits = s.commits
  BY <1>2, <1>3, <1>5, ShortenedSets
<1> HIDE DEF a, ks
<1>7. Quiet(s, t)
  <2>1. CASE ks = <<>>
    <3>1. t = a
      BY <2>1, Zenon
    <3>2. "MCCH" \notin a.mode /\ "INWILD" \notin a.mode
      BY <1>4, <1>6, <2>1
    <3>3. Good(a)
      BY <1>6, <2>1, <3>2, CleanGood
    <3> QED
      BY <1>6, <3>1, <3>3, Zenon DEF Quiet
  <2>2. CASE ks # <<>>
    <3>1. Open(a)
      BY <1>3, <1>6, <2>2, Zenon DEF Open
    <3>2. CASE On("AUTOCOMPOSE")
      <4>1. Opened(a, Match(a)) /\ t = Match(a)
        BY <2>2, <3>1, <3>2, MatchOpens
      <4> HIDE DEF t
      <4> QED
        BY <1>6, <4>1, Zenon DEF Opened, Quiet
    <3>3. CASE ~On("AUTOCOMPOSE")
      <4>1. t = a
        BY <3>3, Zenon
      <4> HIDE DEF t
      <4>2. ~Synced(a) /\ Selected(a)
        BY <3>1, <3>3, Zenon DEF Synced, Open, Selected
      <4>3. Good(a)
        BY <1>6, <4>2, Zenon DEF Good
      <4> QED
        BY <1>6, <4>1, <4>3, Zenon DEF Quiet
    <3> QED
      BY <3>2, <3>3
  <2> QED
    BY <2>1, <2>2
<1> HIDE DEF t
<1>8. "COMMIT" \notin {}
  OBVIOUS
<1>9. Fair(s, [s |-> t, ret |-> {}])
  BY <1>7, <1>8, NothingTold DEF Quiet
<1> QED
  BY <1>1, <1>2, <1>9, FairHonest

\* A key of one character, where no selection key is typed that is disabled.
LEMMA CharKeyHonest ==
  ASSUME DisableSel = {},
         NEW i \in IC, NEW key \in TypedKey, NEW mod, CharKey(i, key, mod), Begun(Begin(i))
  PROVE  \E r : Finish(i, r) /\ Honest(r)
<1> DEFINE s == Begin(i)
           c == Choose(s, -1)
           named  == key \in Keyname
           selidx == (CHOOSE k \in DOMAIN Selkey : Selkey[k] = key) - 1
           n == Len(s.keystroke)
<1>1. Begun(s)
  OBVIOUS
<1>2. \/ n > 0 /\ key \in Range(Selkey) /\ Finish(i, Select(s, selidx))
      \/ key \in {"<", ">"} /\ s.spot /\ Finish(i, NextPage(s, key))
      \/ "MCCH" \notin s.mode /\ Finish(i, Type(s, key, mod, named, {}))
      \/ "MCCH" \in s.mode /\ key \in Range(Selkey) /\ Finish(i, Select(s, selidx))
      \/ Finish(i, [s |-> s, ret |-> {}])
      \/ "MCCH" \in s.mode /\ c.ok /\ Finish(i, Type(c.s, key, mod, named, {"COMMIT"}))
      \/ "MCCH" \in s.mode /\ ~c.ok /\ Finish(i, [s |-> c.s, ret |-> {}])
  <2>1. s.keystroke[1] \notin DisableSel
    OBVIOUS
  <2> QED
    BY <2>1, Zenon DEF CharKey
<1>3. key \in Key
  BY DEF Key
<1>4. key \in Range(Selkey) => selidx \in Int
  <2>1. SUFFICES ASSUME key \in Range(Selkey)
                 PROVE  selidx \in Int
    OBVIOUS
  <2> DEFINE k == CHOOSE k \in DOMAIN Selkey : Selkey[k] = key
  <2>2. k \in DOMAIN Selkey
    BY <2>1, Zenon DEF Range
  <2>3. k \in Int
    BY <2>2, ConstantsOK, LenProperties
  <2> HIDE DEF k
  <2>4. k - 1 \in Int
    BY <2>3
  <2> QED
    BY <2>4 DEF k
<1> HIDE DEF s, named, selidx
<1>5. Good(s) /\ s.keystroke \in Seq(Key)
  BY <1>1, Zenon DEF Begun, Good, Sound, Typed
<1>6. /\ n > 0 => s.keystroke # <<>>
      /\ "MCCH" \in s.mode => s.keystroke # <<>>
      /\ s.spot => "MCCH" \in s.mode
  <2>1. n > 0 => s.keystroke # <<>>
    BY <1>5, EmptySeq
  <2>2. "MCCH" \in s.mode => s.keystroke # <<>>
    BY <1>5, Zenon DEF Good, Selected
  <2>3. s.spot => "MCCH" \in s.mode
    BY <1>5, Zenon DEF Good, Selected
  <2> QED
    BY <2>1, <2>2, <2>3
<1>7. ASSUME s.keystroke # <<>>, key \in Range(Selkey)
      PROVE  Honest(Select(s, selidx))
  BY <1>1, <1>4, <1>5, <1>7, SelectFair, FairHonest
<1>8. ASSUME "MCCH" \in s.mode
      PROVE  Honest(NextPage(s, key))
  BY <1>1, <1>5, <1>8, NextPageFair, FairHonest
<1>9. "COMMIT" \notin {}
  OBVIOUS
<1>10. ASSUME "MCCH" \notin s.mode
       PROVE  Honest(Type(s, key, mod, named, {}))
  BY <1>1, <1>3, <1>5, <1>9, <1>10, TypeTypes, TypingHonest
<1>11. Honest([s |-> s, ret |-> {}])
  BY <1>1, <1>9, StaysHonest
<1>12. ASSUME "MCCH" \in s.mode
       PROVE  Choice(s, c)
  <2>1. -1 \in Int
    OBVIOUS
  <2> QED
    BY <1>5, <1>6, <1>12, <2>1, ChooseGood
<1> HIDE DEF c
<1>13. ASSUME "MCCH" \in s.mode, c.ok
       PROVE  Honest(Type(c.s, key, mod, named, {"COMMIT"}))
  <2>1. Good(c.s) /\ "MCCH" \notin c.s.mode
    BY <1>12, <1>13, Zenon DEF Choice
  <2>2. Typing(c.s, Type(c.s, key, mod, named, {"COMMIT"}), {"COMMIT"})
    BY <1>3, <2>1, TypeTypes
  <2> QED
    BY <1>1, <1>12, <1>13, <2>2, TypingThenHonest
<1>14. ASSUME "MCCH" \in s.mode, ~c.ok
       PROVE  Honest([s |-> c.s, ret |-> {}])
  <2>1. Good(c.s) /\ c.s.commits = s.commits /\ c.s.cch = s.cch
    BY <1>12, <1>14, Zenon DEF Choice
  <2>2. Fair(s, [s |-> c.s, ret |-> {}])
    BY <1>9, <2>1, NothingTold
  <2> QED
    BY <1>1, <2>2, FairHonest
<1> QED
  BY <1>2, <1>6, <1>7, <1>8, <1>10, <1>11, <1>13, <1>14, Zenon

\* A step is a key that a handler takes so.
LEMMA StepHonest ==
  ASSUME DisableSel = {}, GenInpInv, \A i \in IC : Good(World(i)), Next
  PROVE  \E i \in IC : \E r : Finish(i, r) /\ Honest(r)
<1>1. PICK i \in IC :
        \/ BackSpaceKey(i) \/ EscapeKey(i) \/ SpaceKey(i) \/ TabKey(i) \/ IgnoredKey(i)
        \/ \E key \in TypedKey, mod \in {"none", "Shift", "Ctrl"} : CharKey(i, key, mod)
  BY Zenon DEF Next, Keystroke
<1>2. Good(World(i)) /\ Begun(Begin(i))
  BY BeginGood
<1>3. CASE \E key \in TypedKey, mod \in {"none", "Shift", "Ctrl"} : CharKey(i, key, mod)
  BY <1>2, <1>3, CharKeyHonest
<1> QED
  BY <1>1, <1>2, <1>3, BackSpaceKeyHonest, EscapeKeyHonest, SpaceKeyHonest, TabKeyHonest

----------------------------------------------------------------------------
(* The contexts.                                                           *)

\* What is always so, where no selection key is disabled.
GoodInv == /\ GenInpInv
           /\ \A i \in IC : Good(World(i))
           /\ n_max_keystroke > 1 => /\ commits = IF "COMMIT" \in ret THEN 1 ELSE 0
                                     /\ TextAnswers(cch)

\* Worlds that are the same to a context are as good as each other.
LEMMA SameContextGood ==
  ASSUME NEW s, NEW t, Good(s), SameContext(s, t)
  PROVE  Good(t)
<1>1. Sound(t)
  BY SameContextSound DEF Good
<1>2. Selected(t) /\ (Synced(t) => Synced(s))
  BY Zenon DEF Good, Selected, Synced, SameContext
<1>3. Shown(s) => Shown(t)
  <2>1. "INWILD" \in t.mode <=> "INWILD" \in s.mode
    BY DEF SameContext
  <2> QED
    BY <2>1, ShownSame DEF SameContext
<1> QED
  BY <1>1, <1>2, <1>3, Zenon DEF Good

\* The options stay, so that what is good is good in the next state.
LEMMA GoodThen ==
  ASSUME cfmode' = cfmode
  PROVE  /\ \A i \in IC : Good(World(i)') => Good(World(i))'
         /\ TextAnswers(cch') => TextAnswers(cch)'
<1>1. NSelkey' = NSelkey
  BY Zenon DEF NSelkey, On
<1>2. On("AUTOCOMPOSE")' <=> On("AUTOCOMPOSE")
  BY Zenon DEF On
<1>3. ASSUME NEW i \in IC, Good(World(i)')
      PROVE  Good(World(i))'
  <2>1. PICK t : t = World(i)' /\ Good(t)
    BY <1>3
  <2>2. Sound(World(i))'
    BY <1>1, <2>1, Zenon DEF Good, Sound, Typed, Plain
  <2>3. Selected(World(i))'
    BY <2>1, Zenon DEF Good, Selected
  <2>4. Synced(World(i))' => Synced(t)
    BY <1>2, <2>1, Zenon DEF Synced
  <2>5. Found(World(i))' = Found(t)
    BY <2>1, Zenon DEF Found, Matching
  <2>6. Shown(t) => Shown(World(i))'
    BY <1>1, <2>1, <2>5, Zenon DEF Shown, PageAt, Slice, Mark, Ends
  <2> QED
    BY <2>1, <2>2, <2>3, <2>4, <2>6, Zenon DEF Good
<1>4. TextAnswers(cch') => TextAnswers(cch)'
  BY <1>2, Zenon DEF TextAnswers, AnsweredBy
<1> QED
  BY <1>3, <1>4

\* In the beginning nothing is typed.
LEMMA InitGood ==
  ASSUME Init
  PROVE  GoodInv
<1>1. GenInpInv
  BY InitInv
<1>2. ASSUME NEW i \in IC
      PROVE  Good(World(i))
  <2> DEFINE s == World(i)
  <2>1. inp[i] = FreshIC
    BY DEF Init
  <2>2. /\ FreshIC.keystroke = <<>> /\ FreshIC.mode = {} /\ FreshIC.spot = FALSE
        /\ FreshIC.mcch = <<>> /\ FreshIC.pgstate = "ONEPG"
    BY DEF FreshIC
  <2>3. /\ s.keystroke = <<>> /\ s.mode = {} /\ s.spot = FALSE
        /\ s.mcch = <<>> /\ s.pgstate = "ONEPG"
    BY <2>1, <2>2, WorldIs
  <2>4. Sound(s)
    BY <1>1, Zenon DEF GenInpInv
  <2> HIDE DEF s
  <2>5. Good(s)
    BY <2>3, <2>4, CleanGood
  <2> QED
    BY <2>5 DEF s
<1>3. commits = 0 /\ ret = {} /\ cch = NoText
  BY DEF Init
<1>4. "COMMIT" \notin ret
  BY <1>3
<1>5. TextAnswers(cch)
  BY <1>3, Zenon DEF TextAnswers
<1> QED
  BY <1>1, <1>2, <1>3, <1>4, <1>5, Zenon DEF GoodInv

\* A key that is handled keeps what is always so,
LEMMA GoodStep ==
  ASSUME DisableSel = {}, GoodInv, Next
  PROVE  GoodInv'
<1>1. GenInpInv /\ \A i \in IC : Good(World(i))
  BY Zenon DEF GoodInv
<1>2. GenInpInv'
  BY <1>1, StepHandled, HandledInv
<1>3. PICK i \in IC : \E r : Finish(i, r) /\ Honest(r)
  BY <1>1, StepHonest
<1>4. PICK r : Finish(i, r) /\ Honest(r)
  BY <1>3
<1>5. Good(r.s) /\ (n_max_keystroke > 1 => Told(r))
  BY <1>4, Zenon DEF Honest
<1>6. Sound(r.s)
  BY <1>5, Zenon DEF Good
<1>7. cfmode' = cfmode /\ ret' = r.ret /\ cch' = r.s.cch /\ commits' = r.s.commits
  BY <1>1, <1>4, FinishSets
<1>8. ASSUME NEW j \in IC
      PROVE  Good(World(j))'
  <2>1. Good(World(j)')
    <3>1. CASE j = i
      <4>1. SameContext(r.s, World(j)')
        BY <1>1, <1>4, <1>6, <3>1, WorldThen
      <4> QED
        BY <1>5, <4>1, SameContextGood
    <3>2. CASE j # i
      <4>1. SameContext(World(j), World(j)')
        BY <1>1, <1>4, <1>6, <3>2, WorldThen
      <4>2. Good(World(j))
        BY <1>1
      <4> QED
        BY <4>1, <4>2, SameContextGood
    <3> QED
      BY <3>1, <3>2
  <2> QED
    BY <1>7, <2>1, GoodThen
<1>9. ASSUME n_max_keystroke > 1
      PROVE  (commits' = IF "COMMIT" \in ret' THEN 1 ELSE 0) /\ TextAnswers(cch)'
  <2>1. r.s.commits = (IF "COMMIT" \in r.ret THEN 1 ELSE 0) /\ TextAnswers(r.s.cch)
    BY <1>5, <1>9, Zenon DEF Told
  <2>2. TextAnswers(cch')
    BY <1>7, <2>1, Zenon
  <2>3. TextAnswers(cch)'
    BY <1>7, <2>2, GoodThen
  <2> QED
    BY <1>7, <2>1, <2>3, Zenon
<1> QED
  BY <1>2, <1>8, <1>9, Zenon DEF GoodInv

\* and so does what other parts of the program do.
LEMMA GoodStays ==
  ASSUME GoodInv, UNCHANGED vars
  PROVE  GoodInv'
<1>1. /\ cfmode' = cfmode /\ inp' = inp /\ static' = static /\ ret' = ret
      /\ cch' = cch /\ commits' = commits
  BY Zenon DEF vars
<1>2. GenInpInv'
  BY InvStays DEF GoodInv
<1>3. \A i : World(i)' = World(i)
  BY <1>1, Zenon DEF World
<1>4. \A i \in IC : Good(World(i)')
  BY <1>3, Zenon DEF GoodInv
<1>5. \A i \in IC : Good(World(i))'
  BY <1>1, <1>4, GoodThen
<1>6. TextAnswers(cch) => TextAnswers(cch')
  BY <1>1, Zenon
<1>7. TextAnswers(cch) => TextAnswers(cch)'
  BY <1>1, <1>6, GoodThen
<1> QED
  BY <1>1, <1>2, <1>5, <1>7, Zenon DEF GoodInv

\* It is so in every state.
THEOREM GoodInvAlways ==
  ASSUME DisableSel = {}
  PROVE  Spec => []GoodInv
<1>1. Init => GoodInv
  BY InitGood
<1>2. GoodInv /\ [Next]_vars => GoodInv'
  BY GoodStep, GoodStays
<1> QED
  BY <1>1, <1>2, PTL DEF Spec

\* The page of a good world is a page of the answers.
LEMMA SliceOf ==
  ASSUME GoodInv, NEW i \in IC, On("AUTOCOMPOSE"), inp[i].keystroke # <<>>,
         Answers(i) # <<>>
  PROVE  LET all == Answers(i)
             n   == NSelkey
         IN  \E p \in 0 .. Len(all) - 1 :
               /\ p % n = 0
               /\ inp[i].mcch = SubSeq(all, p + 1, Least(p + n, Len(all)))
               /\ inp[i].pgstate = CASE Len(all) <= n -> "ONEPG"
                                     [] Len(all) > n /\ p = 0 -> "BEGIN"
                                     [] p > 0 /\ p + n < Len(all) -> "MIDDLE"
                                     [] OTHER -> "END"
<1> DEFINE s   == World(i)
           q   == Found(s)
           all == Answers(i)
           L   == Len(all)
           n   == NSelkey
<1>1. /\ s.keystroke = inp[i].keystroke /\ s.mode = inp[i].mode
      /\ s.mcch = inp[i].mcch /\ s.pgstate = inp[i].pgstate
  BY WorldIs
<1>2. Good(s)
  BY Zenon DEF GoodInv
<1> HIDE DEF s
<1>3. all = Zis(q)
  BY <1>1, Zenon DEF Answers, Found, Matching
<1>4. /\ L = Len(q) /\ L \in Nat /\ all \in Seq(Cand)
  BY <1>3, FoundIs
<1>5. q # <<>>
  BY <1>3, <1>4, FoundIs, EmptySeq
<1>6. Shown(s)
  BY <1>1, <1>2, Zenon DEF Good, Synced
<1>7. PICK p \in Nat : PageAt(s, p)
  BY <1>5, <1>6, Zenon DEF Shown
<1> HIDE DEF q, all
<1>8. /\ p < L /\ p % n = 0
      /\ s.mcch = SubSeq(all, p + 1, Least(p + n, L))
      /\ s.pgstate = Mark(p, L)
  BY <1>3, <1>4, <1>7, Zenon DEF PageAt, Slice, q
<1>9. n \in Nat
  BY NSelkeyType
<1> HIDE DEF L, n
<1>10. p \in 0 .. L - 1
  BY <1>4, <1>8 DEF L
<1>11. Mark(p, L) = CASE L <= n -> "ONEPG"
                      [] L > n /\ p = 0 -> "BEGIN"
                      [] p > 0 /\ p + n < L -> "MIDDLE"
                      [] OTHER -> "END"
  <2>1. L \in Nat
    BY <1>4 DEF L
  <2>2. /\ L > n <=> ~(L <= n)
        /\ p > 0 <=> p # 0
    BY <1>9, <2>1, SMT
  <2>3. p + n < L => L > n
    BY <1>9, <2>1, SMT
  <2> QED
    BY <2>2, <2>3, Zenon DEF Mark, n
<1> QED
  BY <1>1, <1>8, <1>10, <1>11 DEF L, n, all

\* However the user types, shortens and turns pages, what is shown is a page of the
\* answers to the keystroke on the screen, and with nothing typed nothing is shown, where
\* no selection key is disabled.
THEOREM PageIsSliceAlways ==
  ASSUME DisableSel = {}
  PROVE  Spec => []PageIsSlice
<1>1. GoodInv => PageIsSlice
  <2> SUFFICES ASSUME GoodInv
               PROVE  PageIsSlice
    OBVIOUS
  <2>1. SlicesShown
    BY SliceOf, Zenon DEF SlicesShown
  <2>2. IdleIsClean
    <3> SUFFICES ASSUME NEW i \in IC, inp[i].keystroke = <<>>
                 PROVE  /\ inp[i].mcch = <<>> /\ inp[i].pgstate = "ONEPG"
                        /\ inp[i].mode \cap {"MCCH", "INWILD"} = {}
                        /\ ~inp[i].spot
      BY Zenon DEF IdleIsClean
    <3> DEFINE s == World(i)
    <3>1. /\ s.keystroke = inp[i].keystroke /\ s.mode = inp[i].mode /\ s.spot = inp[i].spot
          /\ s.mcch = inp[i].mcch /\ s.pgstate = inp[i].pgstate
      BY WorldIs
    <3>2. Selected(s)
      BY Zenon DEF GoodInv, Good
    <3> HIDE DEF s
    <3>3. /\ s.mcch = <<>> /\ s.pgstate = "ONEPG" /\ s.spot = FALSE
          /\ "MCCH" \notin s.mode /\ "INWILD" \notin s.mode
      BY <3>1, <3>2, Zenon DEF Selected
    <3> QED
      BY <3>1, <3>3
  <2> QED
    BY <2>1, <2>2 DEF PageIsSlice
<1> QED
  BY <1>1, GoodInvAlways, PTL

\* What is committed answers the keystroke that it is committed for, and the caller is told
\* to commit exactly when there is such a text, where no selection key is disabled and a
\* keystroke has room for two keys.
THEOREM CommitAnswersAlways ==
  ASSUME DisableSel = {}, n_max_keystroke > 1
  PROVE  Spec => []CommitAnswers
<1>1. GoodInv => CommitAnswers
  BY Zenon DEF GoodInv, CommitAnswers, CommitFlagHonest, TextAnswers, AnsweredBy, Answered
<1> QED
  BY <1>1, GoodInvAlways, PTL

=============================================================================
