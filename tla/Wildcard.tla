------------------------------ MODULE Wildcard ------------------------------
(***************************************************************************)
(* strcmp_wild() of src/src/lib/xcintool/strcmp_wild.c, which compares a   *)
(* pattern with the keystroke of a character (gen_inp) and with the name   *)
(* of an input method (module.c, load_module.c).  Only its answer 0, a     *)
(* match, is used by its callers.  Patterns and words are sequences.       *)
(***************************************************************************)
EXTENDS Naturals, Sequences

IsWild(key) == key \in {"*", "?"}

(* The scans of next_token(): from position i on, the first wild card and  *)
(* the first key that is none, Len(p) + 1 if there is none.                *)
NextWild(p, i) ==
    CHOOSE k \in i .. Len(p) + 1 :
        /\ k <= Len(p) => IsWild(p[k])
        /\ \A h \in i .. k - 1 : ~IsWild(p[h])
NextLiteral(p, i) ==
    CHOOSE k \in i .. Len(p) + 1 :
        /\ k <= Len(p) => ~IsWild(p[k])
        /\ \A h \in i .. k - 1 : IsWild(p[h])

(* The literal run p[from .. to-1] stands in s at j. *)
RunAt(p, from, to, s, j) ==
    /\ j + (to - from) <= Len(s) + 1
    /\ \A d \in 0 .. to - from - 1 : s[j + d] = p[from + d]

\* Faulty: strlen(tok) is not added once the run after a "*" was found.
StarKeepsRun(p, s, i, j, m) ==
    LET from == NextLiteral(p, i)
        to   == NextWild(p, from)
        hits == {k \in j .. Len(s) : RunAt(p, from, to, s, k)}
    IN  \/ from > Len(p)
        \/ /\ hits # {}
           /\ (CHOOSE k \in hits : \A h \in hits : k <= h) \in m[to]

(* The token "*" swallows every wild card behind it.  The literal run that *)
(* follows is looked for once: what lies behind its first occurrence has   *)
(* to match, no later occurrence is tried.                                 *)
Star(p, s, i, j, m) ==
    LET from == NextLiteral(p, i)
        to   == NextWild(p, from)
        hits == {k \in j .. Len(s) : RunAt(p, from, to, s, k)}
    IN  \/ from > Len(p)
        \/ /\ hits # {}
           /\ (CHOOSE k \in hits : \A h \in hits : k <= h) + to - from \in m[to]

(* m[i]: the places of s from which on the text matches the tokens from    *)
(* p[i] on.  When the text is used up, only a "*" with nothing but wild    *)
(* cards behind it may be left.                                            *)
WildMatch(p, s) ==
    LET m[i \in 1 .. Len(p) + 1] ==
          {j \in 1 .. Len(s) + 1 :
             IF j > Len(s)
               THEN i > Len(p) \/ (p[i] = "*" /\ NextLiteral(p, i) > Len(p))
               ELSE /\ i <= Len(p)
                    /\ \/ p[i] = "*" /\ Star(p, s, i, j, m)
                       \/ p[i] = "?" /\ j + 1 \in m[i + 1]
                       \/ ~IsWild(p[i]) /\ p[i] = s[j] /\ j + 1 \in m[i + 1]}
    IN  1 \in m[1]

(* The reference: a "*", with the wild cards behind it, stands for any     *)
(* text, so every place is tried for what follows.                         *)
Glob(p, s) ==
    LET g[i \in 1 .. Len(p) + 1] ==
          {j \in 1 .. Len(s) + 1 :
             IF i > Len(p) THEN j > Len(s)
             ELSE \/ p[i] = "*" /\ \E k \in j .. Len(s) + 1 : k \in g[NextLiteral(p, i)]
                  \/ /\ j <= Len(s) /\ j + 1 \in g[i + 1]
                     /\ p[i] = "?" \/ (~IsWild(p[i]) /\ p[i] = s[j])}
    IN  1 \in g[1]
=============================================================================
