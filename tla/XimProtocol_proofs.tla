------------------------- MODULE XimProtocol_proofs -------------------------
(***************************************************************************)
(* Proofs about XimProtocol for any number of clients, ICs, keys, requests *)
(* and connections.                                                        *)
(*                                                                         *)
(* The handlers are functions on the server's record (Core), so that the   *)
(* argument has two halves: what each function makes of a sound record,    *)
(* and what becomes of the queues between clients and server when a        *)
(* message is taken off one of them.                                       *)
(*                                                                         *)
(* It is gone through twice: first for the queues and the keys (IInv), and *)
(* from "What the server's functions do to ICs" on for two invariants that *)
(* carry each other: OwnInv, whose the ICs are, and MaskInv, what the      *)
(* clients are told of them.                                               *)
(***************************************************************************)
EXTENDS XimProtocol, SequenceTheorems, WellFoundedInduction, TLAPS

\* What the fields of messages and records range over; Message, Record, ICRecord
\* and Server are the types of what XimProtocol works on.
Number == Nat \cup Windows
Op == Answered \cup Synchronous \cup
      {"SET_IC_FOCUS", "UNSET_IC_FOCUS", "SYNC_REPLY", "SET_EVENT_MASK",
       "REGISTER_TRIGGERKEYS"}
Message == [op : Op, icid : Nat, n : Number]
Key == {m \in Message : m.op = "FORWARD_EVENT"}
Record == [client_win : Client, connect_id : Nat, sync : BOOLEAN,
           pending : Seq(Key)]
FocusWin == {<<>>} \cup (Client \X Number)
ICRecord == [connect_id : Nat, connected : BOOLEAN, focus_win : FocusWin]
Server == [clients : Seq(Record), free : Seq(Nat), last : Nat,
           ic : [Id -> ICRecord], ic_free : SUBSET Id, icid : Nat,
           buf : Nat \X Nat, running : BOOLEAN, out : [Client -> Seq(Message)],
           handled : [Client -> Seq(Number)]]

----------------------------------------------------------------------------
(* Sequences.                                                              *)

\* What holds of 0, and of n + 1 whenever it holds of n, holds of every number.
LEMMA SetInduction ==
  ASSUME NEW S, 0 \in S, \A n \in Nat : n \in S => n + 1 \in S
  PROVE  \A n \in Nat : n \in S
<1> DEFINE R == OpToRel(<, Nat)
           T == Nat \ S
<1> SUFFICES ASSUME T # {} PROVE FALSE
  OBVIOUS
<1>1. PICK x \in T : \A y \in T : <<y, x>> \notin R
  <2> HIDE DEF R
  <2>1. IsWellFoundedOn(R, Nat)
    BY NatLessThanWellFounded DEF R
  <2> QED
    BY <2>1, WFMin
<1>2. x # 0 /\ x - 1 \in Nat
  OBVIOUS
<1>3. <<x - 1, x>> \in R
  BY <1>2 DEF OpToRel
<1>4. x - 1 \in S
  BY <1>1, <1>2, <1>3
<1> QED
  BY <1>2, <1>4

\* A set of places that is not empty has a first one.
LEMMA FirstPlace ==
  ASSUME NEW S \in SUBSET Nat, S # {}
  PROVE  Min(S) \in S /\ \A y \in S : Min(S) <= y
<1> DEFINE R == OpToRel(<, Nat)
<1>1. PICK x \in S : \A y \in S : <<y, x>> \notin R
  <2> HIDE DEF R
  <2>1. IsWellFoundedOn(R, Nat)
    BY NatLessThanWellFounded DEF R
  <2> QED
    BY <2>1, WFMin
<1>2. \A y \in S : ~(y < x)
  BY <1>1 DEF OpToRel
<1>3. \A y \in S : x <= y
  BY <1>2
<1> QED
  BY <1>3 DEF Min

\* Appending to the second of two sequences appends to both.
LEMMA ConcatAppend ==
  ASSUME NEW S, NEW s \in Seq(S), NEW t \in Seq(S), NEW e \in S
  PROVE  s \o Append(t, e) = Append(s \o t, e)
<1>1. /\ Append(t, e) \in Seq(S) /\ s \o t \in Seq(S)
      /\ s \o Append(t, e) \in Seq(S) /\ Append(s \o t, e) \in Seq(S)
  BY AppendProperties, ConcatProperties
<1>2. Len(s \o Append(t, e)) = Len(Append(s \o t, e))
  BY <1>1, AppendProperties, ConcatProperties
<1>3. ASSUME NEW i \in 1 .. Len(s \o Append(t, e))
      PROVE  (s \o Append(t, e))[i] = Append(s \o t, e)[i]
  <2>1. Len(s \o Append(t, e)) = Len(s) + Len(t) + 1
    BY <1>1, AppendProperties, ConcatProperties
  <2>2. CASE i <= Len(s)
    BY <1>1, <2>1, <2>2
  <2>3. CASE i > Len(s) /\ i <= Len(s) + Len(t)
    BY <1>1, <2>1, <2>3
  <2>4. CASE i = Len(s) + Len(t) + 1
    BY <1>1, <2>1, <2>4
  <2> QED
    BY <2>1, <2>2, <2>3, <2>4
<1> QED
  BY <1>1, <1>2, <1>3, SeqEqual

\* What stands first among the second of two sequences may as well stand last
\* among the first.
LEMMA MoveOver ==
  ASSUME NEW S, NEW s \in Seq(S), NEW t \in Seq(S), NEW e \in S
  PROVE  s \o (<<e>> \o t) = Append(s, e) \o t
<1>1. Append(s, e) = s \o <<e>> /\ <<e>> \in Seq(S)
  BY AppendIsConcat
<1> QED
  BY <1>1, ConcatAssociative

----------------------------------------------------------------------------
(* The keys among messages.                                                *)

\* What Keys finds among the first messages.
IsKeys(f, ms, N) ==
    f = [n \in 0 .. N |->
            IF n = 0 THEN <<>>
            ELSE IF ms[n].op = "FORWARD_EVENT" THEN Append(f[n - 1], ms[n].n)
            ELSE f[n - 1]]

\* The function that Keys is defined by exists,
LEMMA KeysExist ==
  ASSUME NEW ms
  PROVE  \A N \in Nat : \E f : IsKeys(f, ms, N)
<1> DEFINE S == {N \in Nat : \E f : IsKeys(f, ms, N)}
<1>1. 0 \in S
  <2>1. IsKeys([n \in 0 .. 0 |-> <<>>], ms, 0)
    BY DEF IsKeys
  <2> QED
    BY <2>1
<1>2. ASSUME NEW N \in Nat, N \in S PROVE N + 1 \in S
  <2>1. PICK f : IsKeys(f, ms, N)
    BY <1>2
  <2> DEFINE more == IF ms[N + 1].op = "FORWARD_EVENT"
                     THEN Append(f[N], ms[N + 1].n) ELSE f[N]
             g == [n \in 0 .. N + 1 |-> IF n = N + 1 THEN more ELSE f[n]]
  <2>2. \A n \in 0 .. N :
          f[n] = IF n = 0 THEN <<>>
                 ELSE IF ms[n].op = "FORWARD_EVENT" THEN Append(f[n - 1], ms[n].n)
                 ELSE f[n - 1]
    BY <2>1 DEF IsKeys
  <2>3. ASSUME NEW n \in 0 .. N + 1
        PROVE  g[n] = IF n = 0 THEN <<>>
                      ELSE IF ms[n].op = "FORWARD_EVENT"
                      THEN Append(g[n - 1], ms[n].n)
                      ELSE g[n - 1]
    <3>1. CASE n = N + 1
      <4>1. g[n] = more /\ g[n - 1] = f[N] /\ n # 0
        BY <3>1
      <4> QED
        BY <3>1, <4>1
    <3>2. CASE n = 0
      BY <2>2, <3>2
    <3>3. CASE n \in 1 .. N
      <4>1. g[n] = f[n] /\ g[n - 1] = f[n - 1] /\ n # 0 /\ n \in 0 .. N
        BY <3>3
      <4> HIDE DEF g
      <4> QED
        BY <2>2, <4>1
    <3> QED
      BY <3>1, <3>2, <3>3
  <2>4. IsKeys(g, ms, N + 1)
    <3>1. g = [n \in 0 .. N + 1 |-> g[n]]
      OBVIOUS
    <3> HIDE DEF g
    <3> QED
      BY <2>3, <3>1 DEF IsKeys
  <2> QED
    BY <2>4
<1> HIDE DEF S
<1>3. \A N \in Nat : N \in S
  BY <1>1, <1>2, SetInduction
<1> QED
  BY <1>3 DEF S

\* so that Keys goes through the messages one by one.
LEMMA KeysWalk ==
  ASSUME NEW ms \in Seq(Message)
  PROVE  \E f : /\ f[0] = <<>>
                /\ \A n \in 1 .. Len(ms) :
                      /\ ms[n].op = "FORWARD_EVENT" => f[n] = Append(f[n - 1], ms[n].n)
                      /\ ms[n].op # "FORWARD_EVENT" => f[n] = f[n - 1]
                /\ \A n \in 0 .. Len(ms) : f[n] \in Seq(Number)
                /\ Keys(ms) = f[Len(ms)]
<1> DEFINE f == CHOOSE g : IsKeys(g, ms, Len(ms))
<1>1. Len(ms) \in Nat
  OBVIOUS
<1>2. IsKeys(f, ms, Len(ms))
  BY <1>1, KeysExist
<1>3. Keys(ms) = f[Len(ms)]
  BY DEF Keys, IsKeys
<1> HIDE DEF f
<1>4. \A n \in 0 .. Len(ms) :
          f[n] = IF n = 0 THEN <<>>
                 ELSE IF ms[n].op = "FORWARD_EVENT" THEN Append(f[n - 1], ms[n].n)
                 ELSE f[n - 1]
  BY <1>2 DEF IsKeys
<1>5. /\ f[0] = <<>>
      /\ \A n \in 1 .. Len(ms) :
            /\ ms[n].op = "FORWARD_EVENT" => f[n] = Append(f[n - 1], ms[n].n)
            /\ ms[n].op # "FORWARD_EVENT" => f[n] = f[n - 1]
  <2>1. 0 \in 0 .. Len(ms)
    BY <1>1
  <2>2. \A n \in 1 .. Len(ms) : n \in 0 .. Len(ms) /\ n # 0
    BY <1>1
  <2> QED
    BY <1>4, <2>1, <2>2
<1> DEFINE S == {n \in Nat : n <= Len(ms) => f[n] \in Seq(Number)}
<1>6. 0 \in S
  BY <1>5, EmptySeq
<1>7. ASSUME NEW n \in Nat, n \in S PROVE n + 1 \in S
  <2> SUFFICES ASSUME n + 1 <= Len(ms) PROVE f[n + 1] \in Seq(Number)
    OBVIOUS
  <2>1. n <= Len(ms) /\ n + 1 \in 1 .. Len(ms) /\ (n + 1) - 1 = n
    BY <1>1
  <2>3. f[n] \in Seq(Number)
    BY <1>7, <2>1
  <2>4. ms[n + 1] \in Message
    BY <2>1, ElementOfSeq
  <2>2. ms[n + 1].n \in Number
    BY <2>4 DEF Message
  <2>5. f[n + 1] \in {f[n], Append(f[n], ms[n + 1].n)}
    BY <1>5, <2>1
  <2>6. Append(f[n], ms[n + 1].n) \in Seq(Number)
    BY <2>2, <2>3, AppendProperties
  <2> QED
    BY <2>3, <2>5, <2>6
<1> HIDE DEF S
<1>8. \A n \in Nat : n \in S
  BY <1>6, <1>7, SetInduction
<1> QED
  BY <1>1, <1>3, <1>5, <1>8 DEF S

\* One message more at the end.
LEMMA KeysAppend ==
  ASSUME NEW ms \in Seq(Message), NEW m \in Message
  PROVE  Keys(Append(ms, m)) = IF m.op = "FORWARD_EVENT" THEN Append(Keys(ms), m.n)
                               ELSE Keys(ms)
<1> DEFINE all == Append(ms, m)
<1>1. all \in Seq(Message) /\ Len(all) = Len(ms) + 1 /\ all[Len(ms) + 1] = m
      /\ \A n \in 1 .. Len(ms) : all[n] = ms[n]
  BY AppendProperties
<1> HIDE DEF all
<1>2. PICK f : /\ f[0] = <<>>
               /\ \A n \in 1 .. Len(ms) :
                     /\ ms[n].op = "FORWARD_EVENT" => f[n] = Append(f[n - 1], ms[n].n)
                     /\ ms[n].op # "FORWARD_EVENT" => f[n] = f[n - 1]
               /\ Keys(ms) = f[Len(ms)]
  BY KeysWalk
<1>3. PICK g : /\ g[0] = <<>>
               /\ \A n \in 1 .. Len(all) :
                     /\ all[n].op = "FORWARD_EVENT" => g[n] = Append(g[n - 1], all[n].n)
                     /\ all[n].op # "FORWARD_EVENT" => g[n] = g[n - 1]
               /\ Keys(all) = g[Len(all)]
  BY <1>1, KeysWalk
<1> DEFINE S == {n \in Nat : n <= Len(ms) => f[n] = g[n]}
<1>4. 0 \in S
  BY <1>2, <1>3
<1>5. ASSUME NEW n \in Nat, n \in S PROVE n + 1 \in S
  <2> SUFFICES ASSUME n + 1 <= Len(ms) PROVE f[n + 1] = g[n + 1]
    OBVIOUS
  <2>1. f[n] = g[n] /\ n + 1 \in 1 .. Len(ms) /\ n + 1 \in 1 .. Len(all)
        /\ (n + 1) - 1 = n
    BY <1>1, <1>5
  <2> QED
    BY <1>1, <1>2, <1>3, <2>1
<1> HIDE DEF S
<1>6. \A n \in Nat : n \in S
  BY <1>4, <1>5, SetInduction
<1>7. f[Len(ms)] = g[Len(ms)]
  BY <1>6 DEF S
<1>8. Len(all) \in 1 .. Len(all) /\ Len(all) - 1 = Len(ms)
  BY <1>1
<1> QED
  BY <1>1, <1>2, <1>3, <1>7, <1>8 DEF all

\* The key that a message is, if it is one.
KeysOf(m) == IF m.op = "FORWARD_EVENT" THEN <<m.n>> ELSE <<>>

\* One message less at the front.
LEMMA KeysTail ==
  ASSUME NEW ms \in Seq(Message), ms # <<>>
  PROVE  /\ Keys(ms) = KeysOf(Head(ms)) \o Keys(Tail(ms))
         /\ Keys(ms) \in Seq(Number) /\ Keys(Tail(ms)) \in Seq(Number)
<1> DEFINE rest == Tail(ms)
           h == KeysOf(Head(ms))
<1>1. rest \in Seq(Message) /\ Len(rest) = Len(ms) - 1 /\ Head(ms) \in Message
      /\ Len(ms) > 0 /\ ms[1] = Head(ms)
      /\ \A n \in 1 .. Len(rest) : rest[n] = ms[n + 1]
  BY HeadTailProperties
<1>2. h \in Seq(Number)
  BY <1>1 DEF KeysOf, Message
<1> HIDE DEF rest
<1>3. PICK f : /\ f[0] = <<>>
               /\ \A n \in 1 .. Len(ms) :
                     /\ ms[n].op = "FORWARD_EVENT" => f[n] = Append(f[n - 1], ms[n].n)
                     /\ ms[n].op # "FORWARD_EVENT" => f[n] = f[n - 1]
               /\ \A n \in 0 .. Len(ms) : f[n] \in Seq(Number)
               /\ Keys(ms) = f[Len(ms)]
  BY KeysWalk
<1>4. PICK g : /\ g[0] = <<>>
               /\ \A n \in 1 .. Len(rest) :
                     /\ rest[n].op = "FORWARD_EVENT" => g[n] = Append(g[n - 1], rest[n].n)
                     /\ rest[n].op # "FORWARD_EVENT" => g[n] = g[n - 1]
               /\ \A n \in 0 .. Len(rest) : g[n] \in Seq(Number)
               /\ Keys(rest) = g[Len(rest)]
  BY <1>1, KeysWalk
<1>5. f[1] = h
  <2>1. 1 \in 1 .. Len(ms) /\ 1 - 1 = 0
    BY <1>1
  <2>2. \A x : Append(<<>>, x) = <<x>>
    OBVIOUS
  <2>3. CASE ms[1].op = "FORWARD_EVENT"
    <3>1. f[1] = Append(<<>>, ms[1].n)
      BY <1>3, <2>1, <2>3
    <3> QED
      BY <1>1, <2>2, <2>3, <3>1 DEF KeysOf
  <2>4. CASE ms[1].op # "FORWARD_EVENT"
    BY <1>1, <1>3, <2>1, <2>4 DEF KeysOf
  <2> QED
    BY <2>3, <2>4
<1> HIDE DEF h
<1> DEFINE S == {n \in Nat : n <= Len(rest) => f[n + 1] = h \o g[n]}
<1>6. 0 \in S
  BY <1>2, <1>4, <1>5, ConcatEmptySeq
<1>7. ASSUME NEW n \in Nat, n \in S PROVE n + 1 \in S
  <2> SUFFICES ASSUME n + 1 <= Len(rest) PROVE f[(n + 1) + 1] = h \o g[n + 1]
    OBVIOUS
  <2>1. f[n + 1] = h \o g[n] /\ n + 1 \in 1 .. Len(rest) /\ (n + 1) + 1 \in 1 .. Len(ms)
        /\ (n + 1) - 1 = n /\ ((n + 1) + 1) - 1 = n + 1 /\ n \in 0 .. Len(rest)
    BY <1>1, <1>7
  <2>0. rest[n + 1] \in Message
    BY <1>1, <2>1, ElementOfSeq
  <2>2. rest[n + 1] = ms[(n + 1) + 1] /\ rest[n + 1].n \in Number
    BY <1>1, <2>0, <2>1 DEF Message
  <2>3. CASE rest[n + 1].op = "FORWARD_EVENT"
    <3>1. g[n + 1] = Append(g[n], rest[n + 1].n)
      BY <1>4, <2>1, <2>3
    <3>2. f[(n + 1) + 1] = Append(f[n + 1], rest[n + 1].n)
      BY <1>3, <2>1, <2>2, <2>3
    <3>3. g[n] \in Seq(Number)
      BY <1>4, <2>1
    <3>4. h \o Append(g[n], rest[n + 1].n) = Append(h \o g[n], rest[n + 1].n)
      <4>1. PICK t : t = g[n]
        OBVIOUS
      <4>2. PICK e : e = rest[n + 1].n
        OBVIOUS
      <4>3. t \in Seq(Number) /\ e \in Number
        BY <2>2, <3>3, <4>1, <4>2
      <4>4. h \o Append(t, e) = Append(h \o t, e)
        BY <1>2, <4>3, ConcatAppend
      <4> QED
        BY <4>1, <4>2, <4>4
    <3> QED
      BY <2>1, <3>1, <3>2, <3>4
  <2>4. CASE rest[n + 1].op # "FORWARD_EVENT"
    BY <1>3, <1>4, <2>1, <2>2, <2>4
  <2> QED
    BY <2>3, <2>4
<1> HIDE DEF S
<1>8. \A n \in Nat : n \in S
  BY <1>6, <1>7, SetInduction
<1>9. Len(rest) \in Nat /\ Len(ms) \in Nat /\ Len(rest) + 1 = Len(ms)
  BY <1>1
<1>10. f[Len(rest) + 1] = h \o g[Len(rest)]
  BY <1>8, <1>9 DEF S
<1>11. Keys(ms) = h \o Keys(rest)
  BY <1>3, <1>4, <1>9, <1>10
<1>12. Keys(ms) \in Seq(Number) /\ Keys(rest) \in Seq(Number)
  BY <1>3, <1>4, <1>9
<1> QED
  BY <1>11, <1>12 DEF rest, h

\* Keys are numbers, and messages that are none have none.
LEMMA KeysType ==
  ASSUME NEW ms \in Seq(Message)
  PROVE  /\ Keys(ms) \in Seq(Number)
         /\ Places(ms, {"FORWARD_EVENT"}) = {} => Keys(ms) = <<>>
<1>1. PICK f : /\ f[0] = <<>>
               /\ \A n \in 1 .. Len(ms) :
                     /\ ms[n].op = "FORWARD_EVENT" => f[n] = Append(f[n - 1], ms[n].n)
                     /\ ms[n].op # "FORWARD_EVENT" => f[n] = f[n - 1]
               /\ \A n \in 0 .. Len(ms) : f[n] \in Seq(Number)
               /\ Keys(ms) = f[Len(ms)]
  BY KeysWalk
<1>2. Len(ms) \in Nat /\ DOMAIN ms = 1 .. Len(ms)
  OBVIOUS
<1>3. ASSUME Places(ms, {"FORWARD_EVENT"}) = {}
      PROVE  f[Len(ms)] = <<>>
  <2> DEFINE S == {n \in Nat : n <= Len(ms) => f[n] = <<>>}
  <2>1. 0 \in S
    BY <1>1
  <2>2. ASSUME NEW n \in Nat, n \in S PROVE n + 1 \in S
    <3> SUFFICES ASSUME n + 1 <= Len(ms) PROVE f[n + 1] = <<>>
      OBVIOUS
    <3>1. f[n] = <<>> /\ n + 1 \in 1 .. Len(ms) /\ (n + 1) - 1 = n
      BY <1>2, <2>2
    <3>2. ms[n + 1].op # "FORWARD_EVENT"
      BY <1>2, <1>3, <3>1 DEF Places
    <3> QED
      BY <1>1, <3>1, <3>2
  <2> HIDE DEF S
  <2>3. \A n \in Nat : n \in S
    BY <2>1, <2>2, SetInduction
  <2> QED
    BY <1>2, <2>3 DEF S
<1> QED
  BY <1>1, <1>2, <1>3

----------------------------------------------------------------------------
(* What the server's functions do.                                         *)

\* An IC that is in use has a connection,
Linked(s) ==
    \A i \in InUse(s.ic) :
        \E k \in DOMAIN s.clients : s.clients[k].connect_id = s.ic[i].connect_id

\* and then xcin runs, if no text is left for whoever commits next.
Up(s) == CommitsOnSwitch \/ (s.running /\ s.buf = NoText /\ Linked(s))

\* The answers sent to d from s to t.
NewAnswers(s, t, d) ==
    {n \in DOMAIN t.out[d] \ DOMAIN s.out[d] : t.out[d][n].op \in Answered}

\* What is sent goes to the end of the queues of clients that live, and at most
\* one answer to each, one of A.
Sends(s, t, A) ==
    \A d \in Client :
        /\ DOMAIN s.out[d] \subseteq DOMAIN t.out[d]
        /\ \A n \in DOMAIN s.out[d] : t.out[d][n] = s.out[d][n]
        /\ stage[d] = "dead" => t.out[d] = s.out[d]
        /\ \A n \in NewAnswers(s, t, d) :
              <<d, t.out[d][n].op>> \in A /\ NewAnswers(s, t, d) = {n}

\* ICs may go, and no text is left.
Works(s, t) ==
    /\ t \in Server
    /\ t.free = s.free /\ t.last = s.last /\ t.icid = s.icid
    /\ t.ic_free \subseteq s.ic_free \cup InUse(s.ic)
    /\ \A i \in Id : t.ic[i].connect_id \in {s.ic[i].connect_id, NoId}
    /\ Up(s) => Up(t)

\* What the functions have in common that do not touch the list of clients.
Serves(s, t, A) ==
    /\ Works(s, t)
    /\ t.clients = s.clients
    /\ t.handled = s.handled
    /\ Sends(s, t, A)

\* Nothing done is something done.
LEMMA ServesSelf ==
  ASSUME NEW s \in Server, NEW A
  PROVE  Serves(s, s, A)
BY DEF Serves, Works, Sends, NewAnswers

\* Two things done are one, if only one of them answers anybody.
LEMMA SendsThen ==
  ASSUME NEW s, NEW t, NEW u, NEW A, NEW B, A = {} \/ B = {},
         Sends(s, t, A), Sends(t, u, B)
  PROVE  Sends(s, u, A \cup B)
<1> SUFFICES ASSUME NEW d \in Client
             PROVE  /\ DOMAIN s.out[d] \subseteq DOMAIN u.out[d]
                    /\ \A n \in DOMAIN s.out[d] : u.out[d][n] = s.out[d][n]
                    /\ stage[d] = "dead" => u.out[d] = s.out[d]
                    /\ \A n \in NewAnswers(s, u, d) :
                          /\ <<d, u.out[d][n].op>> \in A \cup B
                          /\ NewAnswers(s, u, d) = {n}
  BY DEF Sends
<1>1. /\ DOMAIN s.out[d] \subseteq DOMAIN t.out[d]
      /\ \A n \in DOMAIN s.out[d] : t.out[d][n] = s.out[d][n]
      /\ stage[d] = "dead" => t.out[d] = s.out[d]
      /\ \A n \in NewAnswers(s, t, d) :
            <<d, t.out[d][n].op>> \in A /\ NewAnswers(s, t, d) = {n}
  BY DEF Sends
<1>2. /\ DOMAIN t.out[d] \subseteq DOMAIN u.out[d]
      /\ \A n \in DOMAIN t.out[d] : u.out[d][n] = t.out[d][n]
      /\ stage[d] = "dead" => u.out[d] = t.out[d]
      /\ \A n \in NewAnswers(t, u, d) :
            <<d, u.out[d][n].op>> \in B /\ NewAnswers(t, u, d) = {n}
  BY DEF Sends
<1>3. NewAnswers(s, u, d) = NewAnswers(s, t, d) \cup NewAnswers(t, u, d)
  BY <1>1, <1>2 DEF NewAnswers
<1>4. \A n \in NewAnswers(s, t, d) : u.out[d][n] = t.out[d][n]
  BY <1>2 DEF NewAnswers
<1>5. CASE A = {}
  BY <1>1, <1>2, <1>3, <1>4, <1>5
<1>6. CASE B = {}
  BY <1>1, <1>2, <1>3, <1>4, <1>6
<1> QED
  BY <1>5, <1>6

\* The same of ICs,
LEMMA WorksThen ==
  ASSUME NEW s \in Server, NEW t, NEW u, Works(s, t), Works(t, u)
  PROVE  Works(s, u)
<1>1. \A i \in Id : i \in InUse(t.ic) => i \in InUse(s.ic)
  BY DEF Works, InUse
<1>2. InUse(t.ic) \subseteq Id
  BY DEF InUse
<1> QED
  BY <1>1, <1>2 DEF Works

\* and of all.
LEMMA ServesThen ==
  ASSUME NEW s \in Server, NEW t, NEW u, NEW A, NEW B, A = {} \/ B = {},
         Serves(s, t, A), Serves(t, u, B)
  PROVE  Serves(s, u, A \cup B)
BY WorksThen, SendsThen DEF Serves

\* Something has connect_id id, or nothing has.
LEMMA FindPlace ==
  ASSUME NEW s \in Server, NEW id
  PROVE  /\ FindClient(s, id) \in {0} \cup DOMAIN s.clients
         /\ FindClient(s, id) # 0 => s.clients[FindClient(s, id)].connect_id = id
         /\ (\E k \in DOMAIN s.clients : s.clients[k].connect_id = id)
               => FindClient(s, id) # 0
<1> DEFINE I == {k \in 1 .. Len(s.clients) : s.clients[k].connect_id = id}
<1>1. FindClient(s, id) = IF I # {} THEN Min(I) ELSE 0
  BY DEF FindClient, SelectInSeq
<1>2. DOMAIN s.clients = 1 .. Len(s.clients) /\ I \in SUBSET Nat /\ 0 \notin I
  BY DEF Server
<1>3. I # {} => Min(I) \in I
  BY <1>2, FirstPlace
<1>4. I = {k \in DOMAIN s.clients : s.clients[k].connect_id = id}
  BY <1>2
<1> HIDE DEF I
<1> QED
  BY <1>1, <1>2, <1>3, <1>4

\* The same of windows.
LEMMA RecordPlace ==
  ASSUME NEW s \in Server, NEW c
  PROVE  /\ RecordOf(s, c) \in {0} \cup DOMAIN s.clients
         /\ RecordOf(s, c) # 0 => s.clients[RecordOf(s, c)].client_win = c
         /\ (\E k \in DOMAIN s.clients : s.clients[k].client_win = c)
               => RecordOf(s, c) # 0
<1> DEFINE I == {k \in 1 .. Len(s.clients) : s.clients[k].client_win = c}
<1>1. RecordOf(s, c) = IF I # {} THEN Min(I) ELSE 0
  BY DEF RecordOf, SelectInSeq
<1>2. DOMAIN s.clients = 1 .. Len(s.clients) /\ I \in SUBSET Nat /\ 0 \notin I
  BY DEF Server
<1>3. I # {} => Min(I) \in I
  BY <1>2, FirstPlace
<1>4. I = {k \in DOMAIN s.clients : s.clients[k].client_win = c}
  BY <1>2
<1> HIDE DEF I
<1> QED
  BY <1>1, <1>2, <1>3, <1>4

\* A message sent to a record that is there.
LEMMA SendAtServes ==
  ASSUME NEW s \in Server, NEW k \in {0} \cup DOMAIN s.clients, NEW m \in Message,
         NEW A, k = 0 => CommitsOnSwitch \/ ~Up(s),
         k # 0 /\ m.op \in Answered => <<s.clients[k].client_win, m.op>> \in A
  PROVE  Serves(s, SendAt(s, k, m), A) /\ SendAt(s, k, m).ic = s.ic
<1>1. CASE k = 0
  <2>1. SendAt(s, k, m) = [s EXCEPT !.running = FALSE]
    BY <1>1 DEF SendAt
  <2> QED
    <3>1. Works(s, [s EXCEPT !.running = FALSE])
      BY <1>1 DEF Works, Server, Up
    <3> QED
      BY <2>1, <3>1 DEF Serves, Sends, NewAnswers, Server
<1>2. CASE k # 0 /\ stage[s.clients[k].client_win] = "dead"
  BY <1>2, ServesSelf DEF SendAt
<1>3. CASE k # 0 /\ stage[s.clients[k].client_win] # "dead"
  <2> DEFINE w == s.clients[k].client_win
             q == Append(s.out[w], m)
             t == [s EXCEPT !.out = [s.out EXCEPT ![w] = q]]
  <2>1. SendAt(s, k, m) = t
    BY <1>3 DEF SendAt
  <2>2. w \in Client
    <3>1. s.clients[k] \in Record
      BY <1>3, ElementOfSeq DEF Server
    <3> QED
      BY <3>1 DEF Record
  <2>3. s.out[w] \in Seq(Message)
    BY <2>2 DEF Server
  <2>4. /\ q \in Seq(Message)
        /\ DOMAIN s.out[w] = 1 .. Len(s.out[w])
        /\ DOMAIN q = 1 .. Len(s.out[w]) + 1
        /\ q[Len(s.out[w]) + 1] = m
        /\ \A n \in 1 .. Len(s.out[w]) : q[n] = s.out[w][n]
    <3>1. PICK r : r = s.out[w]
      OBVIOUS
    <3>2. r \in Seq(Message)
      BY <2>3, <3>1
    <3>3. Append(r, m) \in Seq(Message) /\ Len(Append(r, m)) = Len(r) + 1
      BY <3>2, AppendProperties
    <3>4. Append(r, m)[Len(r) + 1] = m /\ \A n \in 1 .. Len(r) : Append(r, m)[n] = r[n]
      BY <3>2, AppendProperties
    <3> QED
      BY <3>1, <3>2, <3>3, <3>4, LenProperties
  <2>5. DOMAIN q \ DOMAIN s.out[w] = {Len(s.out[w]) + 1}
        /\ DOMAIN s.out[w] \subseteq DOMAIN q
    <3>1. PICK n \in Nat : n = Len(s.out[w])
      BY <2>3
    <3>2. (1 .. n + 1) \ (1 .. n) = {n + 1} /\ 1 .. n \subseteq 1 .. n + 1
      OBVIOUS
    <3> QED
      BY <2>4, <3>1, <3>2
  <2>6. t \in Server /\ t.out[w] = q
        /\ \A d \in Client : d # w => t.out[d] = s.out[d]
    BY <2>2, <2>4 DEF Server
  <2>7. /\ t.clients = s.clients /\ t.free = s.free /\ t.last = s.last
        /\ t.icid = s.icid /\ t.ic_free = s.ic_free /\ t.ic = s.ic
        /\ t.buf = s.buf /\ t.running = s.running /\ t.handled = s.handled
    BY DEF Server
  <2>8. stage[w] # "dead" /\ (m.op \in Answered => <<w, m.op>> \in A)
    BY <1>3
  <2> HIDE DEF q, t, w
  <2>9. Works(s, t)
    BY <2>6, <2>7 DEF Works, Up, Linked
  <2>10. Sends(s, t, A)
    BY <2>2, <2>4, <2>5, <2>6, <2>8 DEF Sends, NewAnswers
  <2> QED
    BY <2>1, <2>7, <2>9, <2>10 DEF Serves
<1> QED
  BY <1>1, <1>2, <1>3

\* A message is made of what it says.
LEMMA MsgType ==
  ASSUME NEW op \in Op, NEW i \in Nat, NEW n \in Number
  PROVE  Msg(op, i, n) \in Message /\ Msg(op, i, n).op = op
BY DEF Msg, Message

\* Ids and the numbers 0 and 1 go into messages.
LEMMA Small == Id \subseteq Nat /\ 0 \notin Id /\ 0 \in Number /\ 1 \in Number
BY ConstantsOK DEF Id, Number

\* What is sent about an IC goes to a client that is there.
LEMMA SendServes ==
  ASSUME NEW s \in Server, NEW i \in InUse(s.ic), NEW m \in Message,
         m.op \notin Answered
  PROVE  /\ Serves(s, Send(s, s.ic[i].connect_id, m), {})
         /\ Send(s, s.ic[i].connect_id, m).ic = s.ic
<1> DEFINE k == FindClient(s, s.ic[i].connect_id)
<1>1. k \in {0} \cup DOMAIN s.clients
  BY FindPlace
<1>2. k = 0 => CommitsOnSwitch \/ ~Up(s)
  BY FindPlace DEF Up, Linked
<1> HIDE DEF k
<1>3. Serves(s, SendAt(s, k, m), {}) /\ SendAt(s, k, m).ic = s.ic
  BY <1>1, <1>2, SendAtServes
<1> QED
  BY <1>3 DEF Send, k

\* An answer goes to the client that asked.
LEMMA AnswerServes ==
  ASSUME NEW s \in Server, NEW c, RecordOf(s, c) # 0, NEW m \in Message, NEW A,
         m.op \in Answered => <<c, m.op>> \in A
  PROVE  Serves(s, Answer(s, c, m), A) /\ Answer(s, c, m).ic = s.ic
<1> DEFINE k == RecordOf(s, c)
<1>1. k \in {0} \cup DOMAIN s.clients /\ k # 0 /\ s.clients[k].client_win = c
  BY RecordPlace
<1> HIDE DEF k
<1>2. Serves(s, SendAt(s, k, m), A) /\ SendAt(s, k, m).ic = s.ic
  BY <1>1, SendAtServes
<1> QED
  BY <1>2 DEF Answer, k

\* An IC that is switched on or off is the same IC.
LEMMA TurnServes ==
  ASSUME NEW s \in Server, NEW i \in Id, NEW b \in BOOLEAN
  PROVE  /\ Serves(s, [s EXCEPT !.ic[i].connected = b], {})
         /\ InUse([s EXCEPT !.ic[i].connected = b].ic) = InUse(s.ic)
<1> DEFINE e == [s.ic[i] EXCEPT !.connected = b]
           t == [s EXCEPT !.ic = [s.ic EXCEPT ![i] = e]]
<1>1. t = [s EXCEPT !.ic[i].connected = b]
  OBVIOUS
<1>2. s.ic \in [Id -> ICRecord] /\ s.ic[i] \in ICRecord
  BY DEF Server
<1>3. e \in ICRecord /\ e.connect_id = s.ic[i].connect_id
  BY <1>2 DEF ICRecord
<1>4. t.ic = [s.ic EXCEPT ![i] = e] /\ t \in Server
  BY <1>2, <1>3 DEF Server
<1>5. /\ t.clients = s.clients /\ t.free = s.free /\ t.last = s.last
      /\ t.icid = s.icid /\ t.ic_free = s.ic_free /\ t.out = s.out
      /\ t.buf = s.buf /\ t.running = s.running /\ t.handled = s.handled
  BY DEF Server
<1> HIDE DEF e, t
<1>6. \A j \in Id : t.ic[j].connect_id = s.ic[j].connect_id
  BY <1>2, <1>3, <1>4
<1>7. InUse(t.ic) = InUse(s.ic)
  BY <1>6 DEF InUse
<1>8. Linked(s) => Linked(t)
  BY <1>5, <1>6, <1>7 DEF Linked, InUse
<1>9. Works(s, t)
  BY <1>4, <1>5, <1>6, <1>8 DEF Works, Up
<1>10. Sends(s, t, {})
  BY <1>5 DEF Sends, NewAnswers
<1> QED
  BY <1>1, <1>5, <1>7, <1>9, <1>10 DEF Serves

\* ICs given back leave the others as they are.
LEMMA DeleteServes ==
  ASSUME NEW s \in Server, NEW D \in SUBSET InUse(s.ic)
  PROVE  Serves(s, Delete(s, D), {})
<1> DEFINE f == [i \in Id |-> IF i \in D THEN Unused ELSE s.ic[i]]
           t == Delete(s, D)
<1>1. t.ic = f /\ t.ic_free = s.ic_free \cup D
  BY DEF Delete, Server
<1>2. /\ t.clients = s.clients /\ t.free = s.free /\ t.last = s.last
      /\ t.icid = s.icid /\ t.out = s.out
      /\ t.buf = s.buf /\ t.running = s.running /\ t.handled = s.handled
  BY DEF Delete, Server
<1>3. Unused \in ICRecord /\ Unused.connect_id = NoId
  BY DEF Unused, ICRecord, FocusWin, NoId
<1>4. f \in [Id -> ICRecord] /\ D \subseteq Id
  BY <1>3 DEF Server, InUse
<1>5. t \in Server
  BY <1>4 DEF Delete, Server
<1> HIDE DEF t
<1>6. \A i \in Id : f[i].connect_id \in {s.ic[i].connect_id, NoId}
  BY <1>3
<1> HIDE DEF f
<1>7. Linked(s) => Linked(t)
  BY <1>1, <1>2, <1>6 DEF Linked, InUse
<1>8. Works(s, t)
  BY <1>1, <1>2, <1>5, <1>6, <1>7 DEF Works, Up
<1>9. Sends(s, t, {})
  BY <1>2 DEF Sends, NewAnswers
<1> QED
  BY <1>2, <1>8, <1>9 DEF Serves, t

\* The same of the ICs that a sweep finds.
LEMMA CheckServes ==
  ASSUME NEW s \in Server, NEW i, NEW due
  PROVE  Serves(s, CheckIcExist(s, i, due), {})
<1>1. Swept(s, i) \in SUBSET InUse(s.ic)
  BY DEF Swept
<1> QED
  BY <1>1, DeleteServes, ServesSelf DEF CheckIcExist

\* Two things done without an answer are one,
LEMMA Twice ==
  ASSUME NEW s \in Server, NEW t, NEW u, Serves(s, t, {}), Serves(t, u, {})
  PROVE  Serves(s, u, {})
BY ServesThen

\* and so is one with an answer after it
LEMMA AnswerLast ==
  ASSUME NEW s \in Server, NEW t, NEW u, NEW A, Serves(s, t, {}), Serves(t, u, A)
  PROVE  Serves(s, u, A)
<1>1. Serves(s, u, {} \cup A)
  BY ServesThen
<1> QED
  BY <1>1

\* or before it.
LEMMA AnswerFirst ==
  ASSUME NEW s \in Server, NEW t, NEW u, NEW A, Serves(s, t, A), Serves(t, u, {})
  PROVE  Serves(s, u, A)
<1>1. Serves(s, u, A \cup {})
  BY ServesThen
<1> QED
  BY <1>1

\* What is told the client about the keys of an IC.
LEMMA MaskServes ==
  ASSUME NEW s \in Server, NEW i \in InUse(s.ic), NEW n \in {0, 1}
  PROVE  Serves(s, SetEventMask(s, i, n), {}) /\ SetEventMask(s, i, n).ic = s.ic
<1>1. i \in Nat /\ n \in Number
  BY Small DEF InUse
<1>2. Msg("SET_EVENT_MASK", i, n) \in Message
      /\ Msg("SET_EVENT_MASK", i, n).op = "SET_EVENT_MASK"
  BY <1>1 DEF Msg, Message, Op
<1>3. "SET_EVENT_MASK" \notin Answered
  BY DEF Answered, Queries
<1> QED
  BY <1>2, <1>3, SendServes DEF SetEventMask

\* An IC is switched on or off and its client told.
LEMMA SwitchServes ==
  ASSUME NEW s \in Server, NEW i \in InUse(s.ic), NEW b \in BOOLEAN, NEW n \in {0, 1}
  PROVE  /\ Serves(s, SetEventMask([s EXCEPT !.ic[i].connected = b], i, n), {})
         /\ InUse(SetEventMask([s EXCEPT !.ic[i].connected = b], i, n).ic) = InUse(s.ic)
<1> DEFINE t == [s EXCEPT !.ic[i].connected = b]
<1>1. Serves(s, t, {}) /\ InUse(t.ic) = InUse(s.ic)
  BY TurnServes DEF InUse
<1> HIDE DEF t
<1>2. t \in Server
  BY <1>1 DEF Serves, Works
<1>3. Serves(t, SetEventMask(t, i, n), {}) /\ SetEventMask(t, i, n).ic = t.ic
  BY <1>1, <1>2, MaskServes
<1>4. Serves(s, SetEventMask(t, i, n), {})
  BY <1>1, <1>3, Twice
<1> QED
  BY <1>1, <1>3, <1>4 DEF t

\* The same with what was so before.
LEMMA ConnectServes ==
  ASSUME NEW s \in Server, NEW i \in InUse(s.ic)
  PROVE  /\ Serves(s, Connect(s, i), {}) /\ InUse(Connect(s, i).ic) = InUse(s.ic)
         /\ Serves(s, Disconnect(s, i), {}) /\ InUse(Disconnect(s, i).ic) = InUse(s.ic)
<1>1. Connect(s, i) \in {s, SetEventMask([s EXCEPT !.ic[i].connected = TRUE], i, 1)}
  BY DEF Connect
<1>2. Disconnect(s, i) \in {s, SetEventMask([s EXCEPT !.ic[i].connected = FALSE], i, 0)}
  BY DEF Disconnect
<1> DEFINE on == SetEventMask([s EXCEPT !.ic[i].connected = TRUE], i, 1)
           off == SetEventMask([s EXCEPT !.ic[i].connected = FALSE], i, 0)
<1>3. Serves(s, s, {})
  BY ServesSelf
<1>4. Serves(s, on, {}) /\ InUse(on.ic) = InUse(s.ic)
  BY SwitchServes
<1>5. Serves(s, off, {}) /\ InUse(off.ic) = InUse(s.ic)
  BY SwitchServes
<1> HIDE DEF on, off
<1> QED
  BY <1>1, <1>2, <1>3, <1>4, <1>5 DEF on, off

\* What a request makes of the method of an IC.
LEMMA PreeditServes ==
  ASSUME NEW s \in Server, NEW i \in InUse(s.ic), NEW p
  PROVE  Serves(s, PreeditState(s, i, p), {})
BY ConnectServes, ServesSelf DEF PreeditState

\* Text that waits goes out, to somebody who is there unless text is left over.
LEMMA CommitServes ==
  ASSUME NEW s \in Server
  PROVE  Serves(s, Commit(s), {}) /\ Commit(s).ic = s.ic
<1>1. CASE s.buf = NoText
  BY <1>1, ServesSelf DEF Commit
<1>2. CASE s.buf # NoText
  <2> DEFINE t == [s EXCEPT !.buf = NoText]
             k == FindClient(t, s.buf[2])
             m == Msg("COMMIT", s.buf[1], 0)
  <2>1. Commit(s) = SendAt(t, k, m)
    BY <1>2 DEF Commit, Send
  <2>2. t \in Server /\ t.ic = s.ic /\ t.clients = s.clients /\ t.handled = s.handled
        /\ t.out = s.out /\ t.running = s.running
    BY DEF Server, NoText, NoId
  <2>3. Serves(s, t, {})
    <3>1. Works(s, t)
      BY <1>2, <2>2 DEF Works, Up, Server
    <3> QED
      BY <2>2, <3>1 DEF Serves, Sends, NewAnswers
  <2>4. m \in Message /\ m.op = "COMMIT"
    <3>1. s.buf[1] \in Nat
      BY DEF Server
    <3> QED
      BY <3>1, Small DEF Msg, Message, Op, Synchronous
  <2>5. "COMMIT" \notin Answered
    BY DEF Answered, Queries
  <2>6. k \in {0} \cup DOMAIN t.clients
    BY <2>2, FindPlace
  <2>7. CASE ~CommitsOnSwitch
    <3>1. ~Up(s)
      BY <1>2, <2>7 DEF Up
    <3>2. CASE k = 0
      <4>1. SendAt(t, k, m) = [t EXCEPT !.running = FALSE]
        BY <3>2 DEF SendAt
      <4>2. [t EXCEPT !.running = FALSE] \in Server
        BY <2>2 DEF Server
      <4> DEFINE u == [t EXCEPT !.running = FALSE]
      <4>3. /\ u.clients = s.clients /\ u.free = s.free /\ u.last = s.last
            /\ u.icid = s.icid /\ u.out = s.out /\ u.ic = s.ic
            /\ u.ic_free = s.ic_free /\ u.handled = s.handled
        BY DEF Server
      <4> HIDE DEF u, t, k, m
      <4>4. Works(s, u)
        BY <3>1, <4>2, <4>3 DEF Works, u
      <4> QED
        BY <2>1, <4>1, <4>3, <4>4 DEF Serves, Sends, NewAnswers, u
    <3>3. CASE k # 0
      <4> HIDE DEF t, k, m
      <4>1. Serves(t, SendAt(t, k, m), {}) /\ SendAt(t, k, m).ic = t.ic
        BY <2>2, <2>4, <2>5, <2>6, <3>3, SendAtServes
      <4> QED
        BY <2>1, <2>2, <2>3, <4>1, Twice
    <3> QED
      BY <3>2, <3>3
  <2>8. CASE CommitsOnSwitch
    <3> HIDE DEF t, k, m
    <3>1. Serves(t, SendAt(t, k, m), {}) /\ SendAt(t, k, m).ic = t.ic
      BY <2>2, <2>4, <2>5, <2>6, <2>8, SendAtServes
    <3> QED
      BY <2>1, <2>2, <2>3, <3>1, Twice
  <2> QED
    BY <2>7, <2>8
<1> QED
  BY <1>1, <1>2

\* Text that is handed back and sent at once reaches the client of its IC.
LEMMA TextServes ==
  ASSUME NEW s \in Server, NEW i \in InUse(s.ic)
  PROVE  /\ Serves(s, Commit(CommitString(s, i)), {})
         /\ Commit(CommitString(s, i)).ic = s.ic
<1> DEFINE id == s.ic[i].connect_id
           t == CommitString(s, i)
           u == [t EXCEPT !.buf = NoText]
           m == Msg("COMMIT", i, 0)
<1>1. i \in Id /\ i \in Nat /\ i # 0
  BY Small DEF InUse
<1>2. id \in Nat
  BY <1>1 DEF Server, ICRecord
<1>3. t = [s EXCEPT !.buf = <<i, id>>] /\ t.buf = <<i, id>> /\ <<i, id>> # NoText
  BY <1>1 DEF CommitString, NoText, NoId, Server
<1>4. Commit(t) = Send(u, id, m)
  <2> HIDE DEF id, t
  <2> QED
    BY <1>3 DEF Commit
<1>5. u = [s EXCEPT !.buf = NoText]
  BY <1>3 DEF Server
<1>6. u \in Server /\ u.ic = s.ic /\ u.clients = s.clients /\ u.handled = s.handled
      /\ u.out = s.out /\ u.running = s.running
  BY <1>5 DEF Server, NoText, NoId
<1>7. Serves(s, u, {})
  <2>1. u.buf = NoText /\ u.free = s.free /\ u.last = s.last /\ u.icid = s.icid
        /\ u.ic_free = s.ic_free
    BY <1>5 DEF Server
  <2> HIDE DEF u
  <2>2. Works(s, u)
    BY <1>6, <2>1 DEF Works, Up, Linked
  <2> QED
    BY <1>6, <2>2 DEF Serves, Sends, NewAnswers
<1>8. m \in Message /\ m.op = "COMMIT"
  BY <1>1, Small DEF Msg, Message, Op, Synchronous
<1>9. "COMMIT" \notin Answered
  BY DEF Answered, Queries
<1> HIDE DEF u, m, t
<1>10. Serves(u, Send(u, u.ic[i].connect_id, m), {})
       /\ Send(u, u.ic[i].connect_id, m).ic = u.ic
  BY <1>6, <1>8, <1>9, SendServes
<1>11. Serves(s, Send(u, id, m), {}) /\ Send(u, id, m).ic = s.ic
  BY <1>6, <1>7, <1>10, Twice
<1> QED
  BY <1>4, <1>11 DEF t

\* Text that is left over, where a method leaves any.
LEMMA LeftServes ==
  ASSUME NEW s \in Server, NEW i \in InUse(s.ic), CommitsOnSwitch
  PROVE  Serves(s, CommitString(s, i), {}) /\ CommitString(s, i).ic = s.ic
<1> DEFINE id == s.ic[i].connect_id
           t == [s EXCEPT !.buf = <<i, id>>]
<1>1. i \in Id /\ i \in Nat
  BY Small DEF InUse
<1>2. <<i, id>> \in Nat \X Nat
  BY <1>1 DEF Server, ICRecord
<1>3. t \in Server
  BY <1>2 DEF Server
<1>4. /\ t.clients = s.clients /\ t.free = s.free /\ t.last = s.last
      /\ t.icid = s.icid /\ t.ic_free = s.ic_free /\ t.out = s.out /\ t.ic = s.ic
      /\ t.handled = s.handled
  BY DEF Server
<1>5. CommitString(s, i) = t
  BY DEF CommitString
<1> HIDE DEF t
<1>6. Works(s, t)
  BY <1>3, <1>4 DEF Works, Up
<1> QED
  BY <1>4, <1>5, <1>6 DEF Serves, Sends, NewAnswers

\* What ic_set_values() does.
LEMMA SetValuesServes ==
  ASSUME NEW s \in Server, NEW i \in InUse(s.ic), NEW p,
         NEW text \in {FALSE, CommitsOnSwitch}
  PROVE  Serves(s, SetValues(s, i, p, text), {})
<1>1. CASE p = "off" /\ text
  <2> DEFINE t == CommitString(s, i)
  <2>1. Serves(s, t, {}) /\ t.ic = s.ic
    BY <1>1, LeftServes
  <2>2. SetValues(s, i, p, text) = PreeditState(t, i, p)
    BY <1>1 DEF SetValues
  <2> HIDE DEF t
  <2>3. t \in Server
    BY <2>1 DEF Serves, Works
  <2>4. Serves(t, PreeditState(t, i, p), {})
    BY <2>1, <2>3, PreeditServes
  <2> QED
    BY <2>1, <2>2, <2>4, Twice
<1>2. CASE ~(p = "off" /\ text)
  <2>1. SetValues(s, i, p, text) = PreeditState(s, i, p)
    BY <1>2 DEF SetValues
  <2> QED
    BY <2>1, PreeditServes
<1> QED
  BY <1>1, <1>2

\* What TriggerNotifyMessageProc() does.
LEMMA TriggeredServes ==
  ASSUME NEW s \in Server, NEW c, RecordOf(s, c) # 0, NEW i \in Nat, NEW p, NEW text
  PROVE  Serves(s, Triggered(s, c, i, p, text), {<<c, "TRIGGER_NOTIFY">>})
<1> DEFINE A == {<<c, "TRIGGER_NOTIFY">>}
           m == Msg("TRIGGER_NOTIFY", i, 0)
           n == Msg("SET_EVENT_MASK", i, 1)
           first == Answer(s, c, m)
           told == Answer(first, c, n)
           on == [told EXCEPT !.ic[i].connected = TRUE]
           act == IF text THEN Commit(CommitString(on, i)) ELSE on
<1>1. m \in Message /\ m.op = "TRIGGER_NOTIFY" /\ n \in Message
      /\ n.op = "SET_EVENT_MASK"
  BY Small DEF Msg, Message, Op, Answered
<1>2. "SET_EVENT_MASK" \notin Answered
  BY DEF Answered, Queries
<1>3. Triggered(s, c, i, p, text) =
         IF i \notin InUse(s.ic) THEN told
         ELSE IF p = "off" THEN Disconnect(act, i) ELSE act
  BY DEF Triggered
<1> HIDE DEF m, n, A
<1>4. Serves(s, first, A) /\ first.ic = s.ic
  BY <1>1, AnswerServes DEF A
<1>5. first \in Server /\ first.clients = s.clients
  BY <1>4 DEF Serves, Works
<1> HIDE DEF first
<1>6. RecordOf(first, c) # 0
  BY <1>5 DEF RecordOf
<1>7. Serves(first, told, {}) /\ told.ic = first.ic
  BY <1>1, <1>2, <1>5, <1>6, AnswerServes
<1>8. Serves(s, told, A) /\ told.ic = s.ic /\ told \in Server
  <2>1. told \in Server
    BY <1>7 DEF Serves, Works
  <2> QED
    BY <1>4, <1>7, <2>1, AnswerFirst
<1> HIDE DEF told
<1>9. CASE i \notin InUse(s.ic)
  BY <1>3, <1>8, <1>9 DEF A
<1>10. CASE i \in InUse(s.ic)
  <2>1. i \in Id /\ i \in InUse(told.ic)
    BY <1>8, <1>10 DEF InUse
  <2>2. Serves(told, on, {}) /\ InUse(on.ic) = InUse(told.ic)
    BY <1>8, <2>1, TurnServes
  <2>3. on \in Server
    BY <2>2 DEF Serves, Works
  <2> HIDE DEF on
  <2>4. /\ Serves(on, Commit(CommitString(on, i)), {})
        /\ Commit(CommitString(on, i)).ic = on.ic
    BY <2>1, <2>2, <2>3, TextServes
  <2>5. Serves(on, act, {}) /\ act.ic = on.ic
    BY <2>3, <2>4, ServesSelf
  <2>6. act \in Server
    BY <2>5 DEF Serves, Works
  <2> HIDE DEF act
  <2>7. Serves(s, act, A)
    BY <1>8, <2>2, <2>5, Twice, AnswerFirst
  <2>8. Serves(act, Disconnect(act, i), {})
    BY <2>1, <2>2, <2>5, <2>6, ConnectServes
  <2>9. Serves(s, Disconnect(act, i), A)
    BY <2>7, <2>8, AnswerFirst
  <2> QED
    BY <1>3, <1>10, <2>7, <2>9 DEF A
<1> QED
  BY <1>9, <1>10

----------------------------------------------------------------------------
(* The inductive invariant.                                                *)

\* No two records have the same window or the same connect_id, and a connect_id
\* that may be used again is not in use.
Listed(s) ==
    /\ \A k, l \in DOMAIN s.clients :
          /\ s.clients[k].client_win = s.clients[l].client_win => k = l
          /\ s.clients[k].connect_id = s.clients[l].connect_id => k = l
    /\ \A k \in DOMAIN s.clients : s.clients[k].connect_id \in 1 .. s.last
    /\ \A k \in DOMAIN s.free :
          /\ s.free[k] \in 1 .. s.last
          /\ \A l \in DOMAIN s.clients : s.clients[l].connect_id # s.free[k]
    /\ \A k, l \in DOMAIN s.free : s.free[k] = s.free[l] => k = l

\* Ids are given out in order.
Numbered(s) ==
    /\ s.icid \in 0 .. MaxIC
    /\ s.ic_free \subseteq 1 .. s.icid
    /\ InUse(s.ic) \subseteq 1 .. s.icid

\* The types of the variables.
Typed ==
    /\ Core \in Server
    /\ to_server \in [Client -> Seq(Message)]
    /\ stage \in [Client -> Stage]
    /\ waits \in [Client -> Answered \cup {None}]
    /\ held \in [Client -> SUBSET Nat]
    /\ mask \in [Client -> SUBSET Nat]
    /\ typed \in [Client -> Nat]

\* A request or an answer that is under way is the one that is waited for, and
\* the only one; a client that is gone is sent nothing.
Awaited(c) ==
    /\ \A n \in Places(to_server[c], Answered) :
          /\ to_server[c][n].op = waits[c]
          /\ Places(to_server[c], Answered) = {n}
          /\ Places(to_client[c], Answered) = {}
    /\ \A n \in Places(to_client[c], Answered) :
          to_client[c][n].op = waits[c] /\ Places(to_client[c], Answered) = {n}
    /\ stage[c] = "dead" => to_client[c] = <<>>

\* c has sent op and the server has not taken it; the server has a record of c.
Sent(c, op) == Places(to_server[c], {op}) # {}
HasRecord(c) == \E k \in DOMAIN clients : clients[k].client_win = c

\* What a client waits for fits how far it is, and the server has its record
\* from XCONNECT to DISCONNECT.
Staged(c) ==
    /\ stage[c] = "off" => waits[c] \in {None, "XCONNECT"}
    /\ stage[c] = "off" /\ waits[c] = None => ~HasRecord(c)
    /\ waits[c] = "XCONNECT" =>
          /\ stage[c] = "off" /\ typed[c] = 0
          /\ HasRecord(c) <=> ~Sent(c, "XCONNECT")
    /\ waits[c] = "OPEN" => stage[c] \in {"known", "dead"}
    /\ waits[c] = "CLOSE" => stage[c] \in {"open", "dead"}
    /\ waits[c] = "DISCONNECT" =>
          /\ stage[c] \in {"closed", "dead"}
          /\ HasRecord(c) <=> Sent(c, "DISCONNECT")
    /\ waits[c] \in Answered \ {"XCONNECT", "OPEN", "CLOSE", "DISCONNECT"} =>
          stage[c] \in {"open", "dead"}
    /\ stage[c] # "off" /\ waits[c] # "DISCONNECT" => HasRecord(c)

\* The server has closed the connection: no IC is left of it.
Closed(c) ==
    \/ stage[c] = "closed"
    \/ stage[c] = "open" /\ waits[c] = "CLOSE" /\ ~Sent(c, "CLOSE")
    \/ waits[c] = "DISCONNECT"
Cleaned(c) ==
    Closed(c) =>
        \A k \in DOMAIN clients : clients[k].client_win = c =>
            \A i \in Id : ic[i].connect_id # clients[k].connect_id

\* No key comes after DISCONNECT, and without a record there is none.
KeysPlaced(c) ==
    /\ \A n, m \in DOMAIN to_server[c] :
          n < m /\ to_server[c][n].op = "DISCONNECT"
              => to_server[c][m].op # "FORWARD_EVENT"
    /\ ~HasRecord(c) => Keys(to_server[c]) = <<>> /\ handled[c] = <<>>

\* The inductive invariant of the queues and the keys.
IInv ==
    /\ Typed
    /\ Listed(Core) /\ Numbered(Core) /\ Up(Core)
    /\ \A c \in Client : Awaited(c) /\ Staged(c) /\ Cleaned(c) /\ KeysPlaced(c)
    /\ KeysInOrder /\ WaitHasAnswer

----------------------------------------------------------------------------
(* A message less at the front of a queue, or one more at its end.         *)

\* The messages behind the first one move up by one place.
LEMMA Popped ==
  ASSUME NEW q \in Seq(Message), q # <<>>
  PROVE  /\ Tail(q) \in Seq(Message) /\ Head(q) \in Message
         /\ 1 \in DOMAIN q /\ q[1] = Head(q)
         /\ \A n \in DOMAIN Tail(q) :
               n \in Nat \ {0} /\ n + 1 \in DOMAIN q /\ Tail(q)[n] = q[n + 1]
         /\ \A n \in DOMAIN q :
               /\ n \in Nat \ {0}
               /\ n = 1 \/ (n - 1 \in DOMAIN Tail(q) /\ q[n] = Tail(q)[n - 1])
<1>1. /\ Tail(q) \in Seq(Message) /\ Head(q) \in Message /\ q[1] = Head(q)
      /\ Len(Tail(q)) = Len(q) - 1
      /\ \A n \in 1 .. Len(Tail(q)) : Tail(q)[n] = q[n + 1]
  BY HeadTailProperties
<1>2. Len(q) \in Nat /\ Len(q) > 0 /\ DOMAIN q = 1 .. Len(q)
      /\ DOMAIN Tail(q) = 1 .. Len(Tail(q))
  BY <1>1
<1> QED
  BY <1>1, <1>2

\* The places of a kind of message move up,
LEMMA PoppedPlaces ==
  ASSUME NEW q \in Seq(Message), q # <<>>, NEW ops
  PROVE  /\ \A n \in Places(Tail(q), ops) :
               n \in Nat \ {0} /\ n + 1 \in Places(q, ops) /\ Tail(q)[n] = q[n + 1]
         /\ \A n \in Places(q, ops) :
               /\ n \in Nat \ {0}
               /\ \/ n = 1 /\ Head(q).op \in ops
                  \/ n - 1 \in Places(Tail(q), ops) /\ q[n] = Tail(q)[n - 1]
         /\ Head(q).op \in ops => 1 \in Places(q, ops) /\ q[1] = Head(q)
BY Popped DEF Places

\* or stay.
LEMMA PushedPlaces ==
  ASSUME NEW q \in Seq(Message), NEW m \in Message, NEW ops
  PROVE  /\ \A n \in Places(Append(q, m), ops) :
               \/ n \in Places(q, ops) /\ Append(q, m)[n] = q[n]
               \/ n = Len(q) + 1 /\ m.op \in ops /\ Append(q, m)[n] = m
         /\ \A n \in Places(q, ops) :
               n \in Places(Append(q, m), ops) /\ Append(q, m)[n] = q[n]
         /\ m.op \in ops => Len(q) + 1 \in Places(Append(q, m), ops)
                            /\ Append(q, m)[Len(q) + 1] = m
         /\ m.op \notin ops => Places(Append(q, m), ops) = Places(q, ops)
<1>1. /\ Append(q, m) \in Seq(Message)
      /\ Len(Append(q, m)) = Len(q) + 1
      /\ \A n \in 1 .. Len(q) : Append(q, m)[n] = q[n]
      /\ Append(q, m)[Len(q) + 1] = m
  BY AppendProperties
<1>2. Len(q) \in Nat /\ DOMAIN q = 1 .. Len(q)
      /\ DOMAIN Append(q, m) = 1 .. Len(q) + 1
  BY <1>1
<1>3. \A n \in DOMAIN Append(q, m) : n \in DOMAIN q \/ n = Len(q) + 1
  BY <1>2
<1>4. Len(q) + 1 \in DOMAIN Append(q, m) /\ DOMAIN q \subseteq DOMAIN Append(q, m)
  BY <1>2
<1> QED
  BY <1>1, <1>2, <1>3, <1>4 DEF Places

----------------------------------------------------------------------------
(* What becomes of the invariant when the server takes a message.          *)

\* The server takes the first message of c.
Takes(c) ==
    /\ to_server[c] # <<>>
    /\ to_server' = [to_server EXCEPT ![c] = Tail(@)]
    /\ UNCHANGED clientVars

\* The record of the server's variables is what is stored.
LEMMA Stored ==
  ASSUME NEW t, t \in Server, Store(t)
  PROVE  Core' = t
BY DEF Store, Core, Server

\* A request that is answered is not under way any more, and nobody else is
\* answered.
LEMMA TakesAwaited ==
  ASSUME NEW c \in Client, Typed, Takes(c),
         \A d \in Client : Awaited(d),
         Sends(Core, Core', {<<c, Head(to_server[c]).op>>})
  PROVE  \A d \in Client : Awaited(d)'
<1> SUFFICES ASSUME NEW d \in Client PROVE Awaited(d)'
  OBVIOUS
<1> DEFINE r == to_server[d]
           r1 == to_server'[d]
           a == to_client[d]
           a1 == to_client'[d]
           new == {n \in DOMAIN a1 \ DOMAIN a : a1[n].op \in Answered}
<1>1. /\ DOMAIN a \subseteq DOMAIN a1
      /\ \A n \in DOMAIN a : a1[n] = a[n]
      /\ stage[d] = "dead" => a1 = a
      /\ \A n \in new : <<d, a1[n].op>> \in {<<c, Head(to_server[c]).op>>} /\ new = {n}
  BY DEF Sends, NewAnswers, Core
<1>2. waits'[d] = waits[d] /\ stage'[d] = stage[d]
  BY DEF Takes, clientVars
<1>3. /\ \A n \in Places(r, Answered) :
            /\ r[n].op = waits[d] /\ Places(r, Answered) = {n}
            /\ Places(a, Answered) = {}
      /\ \A n \in Places(a, Answered) :
            a[n].op = waits[d] /\ Places(a, Answered) = {n}
      /\ stage[d] = "dead" => a = <<>>
  BY DEF Awaited
<1>4. Places(a1, Answered) = Places(a, Answered) \cup new
  BY <1>1 DEF Places
<1>5. \A n \in new : d = c /\ a1[n].op = Head(to_server[c]).op /\ a1[n].op \in Answered
  BY <1>1
<1>6. \A n \in Places(a, Answered) : a1[n] = a[n]
  BY <1>1 DEF Places
<1>7. d # c => r1 = r
  BY DEF Takes, Typed
<1>8. d = c => r1 = Tail(r) /\ r # <<>> /\ r \in Seq(Message)
  BY DEF Takes, Typed
<1> HIDE DEF r, r1, a, a1, new
<1>9. CASE d # c
  <2>1. new = {} /\ r1 = r
    BY <1>5, <1>7, <1>9
  <2>2. /\ \A n \in Places(r1, Answered) :
            /\ r1[n].op = waits[d] /\ Places(r1, Answered) = {n}
            /\ Places(a1, Answered) = {}
        /\ \A n \in Places(a1, Answered) :
            a1[n].op = waits[d] /\ Places(a1, Answered) = {n}
        /\ stage[d] = "dead" => a1 = <<>>
    BY <1>1, <1>3, <1>4, <1>6, <2>1
  <2> QED
    BY <1>2, <2>2 DEF Awaited, r1, a1
<1>10. CASE d = c /\ Head(r).op \in Answered
  <2>1. 1 \in Places(r, Answered) /\ r[1] = Head(r)
    BY <1>8, <1>10, PoppedPlaces
  <2>2. Places(r, Answered) = {1} /\ Places(a, Answered) = {} /\ Head(r).op = waits[d]
    BY <1>3, <2>1
  <2>3. Places(r1, Answered) = {}
    <3>1. ASSUME NEW n \in Places(r1, Answered) PROVE FALSE
      <4>1. n \in Nat \ {0} /\ n + 1 \in Places(r, Answered)
        BY <1>8, <1>10, <3>1, PoppedPlaces
      <4> QED
        BY <2>2, <4>1
    <3> QED
      BY <3>1
  <2>4. \A n \in Places(a1, Answered) :
            a1[n].op = waits[d] /\ Places(a1, Answered) = {n}
    BY <1>1, <1>4, <1>5, <1>10, <2>2 DEF r
  <2> QED
    BY <1>1, <1>2, <1>3, <2>3, <2>4 DEF Awaited, r1, a1
<1>11. CASE d = c /\ Head(r).op \notin Answered
  <2>1. new = {}
    BY <1>5, <1>11 DEF r
  <2>2. \A n \in Places(r1, Answered) :
            n \in Nat \ {0} /\ n + 1 \in Places(r, Answered) /\ r1[n] = r[n + 1]
    BY <1>8, <1>11, PoppedPlaces
  <2>3. \A n \in Places(r1, Answered) :
            /\ r1[n].op = waits[d] /\ Places(r1, Answered) = {n}
            /\ Places(a1, Answered) = {}
    <3> SUFFICES ASSUME NEW n \in Places(r1, Answered)
                 PROVE  /\ r1[n].op = waits[d] /\ Places(r1, Answered) = {n}
                        /\ Places(a1, Answered) = {}
      OBVIOUS
    <3>1. Places(r, Answered) = {n + 1} /\ r1[n].op = waits[d]
          /\ Places(a, Answered) = {}
      BY <1>3, <2>2
    <3>2. \A k \in Places(r1, Answered) : k = n
      BY <2>2, <3>1
    <3> QED
      BY <1>4, <2>1, <3>1, <3>2
  <2>4. \A n \in Places(a1, Answered) :
            a1[n].op = waits[d] /\ Places(a1, Answered) = {n}
    BY <1>3, <1>4, <1>6, <2>1
  <2> QED
    BY <1>1, <1>2, <1>3, <2>3, <2>4 DEF Awaited, r1, a1
<1> QED
  BY <1>9, <1>10, <1>11

\* What is there of a kind of message does not change if another is taken.
LEMMA OthersSent ==
  ASSUME NEW q \in Seq(Message), q # <<>>, NEW op, Head(q).op # op
  PROVE  Places(Tail(q), {op}) # {} <=> Places(q, {op}) # {}
<1>1. ASSUME NEW n \in Places(Tail(q), {op}) PROVE n + 1 \in Places(q, {op})
  BY PoppedPlaces
<1>2. ASSUME NEW n \in Places(q, {op}) PROVE n - 1 \in Places(Tail(q), {op})
  BY PoppedPlaces
<1> QED
  BY <1>1, <1>2

\* A step of the server that neither makes nor ends a connection.
Attends(c) ==
    /\ Takes(c)
    /\ Core' \in Server
    /\ UNCHANGED <<free_clients, connect_id>>
    /\ Numbered(Core) => Numbered(Core')
    /\ Up(Core) => Up(Core')
    /\ Sends(Core, Core', {<<c, Head(to_server[c]).op>>})
    /\ Head(to_server[c]).op \notin {"XCONNECT", "DISCONNECT"}
    /\ DOMAIN clients' = DOMAIN clients
    /\ \A k \in DOMAIN clients :
          /\ clients'[k].client_win = clients[k].client_win
          /\ clients'[k].connect_id = clients[k].connect_id
          /\ handled'[clients[k].client_win] \o Keys(clients'[k].pending)
                = (handled[clients[k].client_win] \o Keys(clients[k].pending)) \o
                  (IF clients[k].client_win = c THEN KeysOf(Head(to_server[c])) ELSE <<>>)
          /\ clients'[k].pending # <<>> => clients'[k].sync
          /\ clients'[k].sync /\ Alive(clients[k].client_win) =>
                \/ /\ clients[k].sync
                   /\ Head(to_server[c]).op # "SYNC_REPLY" \/ clients[k].client_win # c
                \/ Places(to_client'[clients[k].client_win], Synchronous) # {}
    /\ \A i \in Id :
          \/ ic'[i].connect_id \in {ic[i].connect_id, NoId}
          \/ /\ Head(to_server[c]).op = "CREATE_IC"
             /\ \E k \in DOMAIN clients :
                   clients[k].client_win = c /\ ic'[i].connect_id = clients[k].connect_id
    /\ Head(to_server[c]).op = "CLOSE" =>
          \A k \in DOMAIN clients : clients[k].client_win = c =>
              \A i \in Id : ic'[i].connect_id # clients[k].connect_id
    /\ \A d \in Client : ~HasRecord(d) => handled'[d] = handled[d]

\* Such a step leaves the list as good as it was,
LEMMA AttendsListed ==
  ASSUME Listed(Core), NEW c \in Client, Attends(c)
  PROVE  Listed(Core)' /\ \A d \in Client : HasRecord(d)' <=> HasRecord(d)
<1>1. /\ DOMAIN clients' = DOMAIN clients
      /\ \A k \in DOMAIN clients : /\ clients'[k].client_win = clients[k].client_win
                                  /\ clients'[k].connect_id = clients[k].connect_id
      /\ UNCHANGED <<free_clients, connect_id>>
  BY DEF Attends
<1>2. \A d \in Client : HasRecord(d)' <=> HasRecord(d)
  BY <1>1 DEF HasRecord
<1>3. Listed(Core)'
  BY <1>1 DEF Listed, Core
<1> QED
  BY <1>2, <1>3

\* the clients where they were,
LEMMA AttendsStaged ==
  ASSUME Typed, Listed(Core), NEW c \in Client, Attends(c), NEW d \in Client, Staged(d)
  PROVE  Staged(d)'
<1>1. HasRecord(d)' <=> HasRecord(d)
  BY AttendsListed
<1>2. UNCHANGED <<stage, waits, typed>>
  BY DEF Attends, Takes, clientVars
<1>3. ASSUME NEW op \in {"XCONNECT", "DISCONNECT"}
      PROVE  Sent(d, op)' <=> Sent(d, op)
  <2>1. CASE d = c
    <3>1. /\ to_server[c] \in Seq(Message) /\ to_server[c] # <<>>
          /\ Head(to_server[c]).op # op
          /\ to_server'[c] = Tail(to_server[c])
      BY DEF Attends, Takes, Typed
    <3>2. Places(Tail(to_server[c]), {op}) # {} <=> Places(to_server[c], {op}) # {}
      BY <3>1, OthersSent
    <3> QED
      BY <2>1, <3>1, <3>2 DEF Sent
  <2>2. CASE d # c
    BY <2>2 DEF Attends, Takes, Typed, Sent
  <2> QED
    BY <2>1, <2>2
<1>4. /\ Sent(d, "XCONNECT")' <=> Sent(d, "XCONNECT")
      /\ Sent(d, "DISCONNECT")' <=> Sent(d, "DISCONNECT")
  BY <1>3
<1> QED
  BY <1>1, <1>2, <1>4 DEF Staged

\* what was closed closed,
LEMMA AttendsCleaned ==
  ASSUME Typed, Listed(Core), NEW c \in Client, Attends(c), Awaited(c), Staged(c),
         NEW d \in Client, Cleaned(d)
  PROVE  Cleaned(d)'
<1>1. UNCHANGED <<stage, waits>>
  BY DEF Attends, Takes, clientVars
<1>2. /\ to_server[c] \in Seq(Message) /\ to_server[c] # <<>>
      /\ to_server'[c] = Tail(to_server[c])
      /\ d # c => to_server'[d] = to_server[d]
  BY DEF Attends, Takes, Typed
<1>3. SUFFICES ASSUME Closed(d)', NEW k \in DOMAIN clients, clients[k].client_win = d,
                      NEW i \in Id
               PROVE  ic'[i].connect_id # clients[k].connect_id
  <2>1. /\ DOMAIN clients' = DOMAIN clients
        /\ \A k \in DOMAIN clients :
              /\ clients'[k].client_win = clients[k].client_win
              /\ clients'[k].connect_id = clients[k].connect_id
    BY DEF Attends
  <2> QED
    BY <2>1 DEF Cleaned
<1>4. clients[k].connect_id # NoId
  BY DEF Listed, Core, NoId
<1>5. CASE d = c /\ Head(to_server[c]).op = "CLOSE"
  BY <1>3, <1>5 DEF Attends
<1>6. CASE ~(d = c /\ Head(to_server[c]).op = "CLOSE")
  <2>1. Sent(d, "CLOSE")' <=> Sent(d, "CLOSE")
    <3>1. CASE d = c
      BY <1>2, <1>6, <3>1, OthersSent DEF Sent
    <3>2. CASE d # c
      BY <1>2, <3>2 DEF Sent
    <3> QED
      BY <3>1, <3>2
  <2>2. Closed(d)
    BY <1>1, <1>3, <2>1 DEF Closed
  <2>3. ic[i].connect_id # clients[k].connect_id
    BY <1>3, <2>2 DEF Cleaned
  <2>4. ASSUME Head(to_server[c]).op = "CREATE_IC",
               NEW l \in DOMAIN clients, clients[l].client_win = c,
               ic'[i].connect_id = clients[l].connect_id
        PROVE  ic'[i].connect_id # clients[k].connect_id
    <3>1. CASE d = c
      <4>1. "CREATE_IC" \in Answered
        BY DEF Answered
      <4>2. 1 \in Places(to_server[c], Answered)
            /\ to_server[c][1] = Head(to_server[c])
        BY <1>2, <2>4, <4>1, PoppedPlaces
      <4>3. waits[c] = "CREATE_IC"
        BY <2>4, <4>2 DEF Awaited
      <4>4. stage[c] \in {"open", "dead"}
        BY <4>1, <4>3 DEF Staged
      <4> QED
        BY <2>2, <3>1, <4>3, <4>4 DEF Closed
    <3>2. CASE d # c
      BY <1>3, <2>4, <3>2 DEF Listed, Core
    <3> QED
      BY <3>1, <3>2
  <2> QED
    BY <1>4, <2>3, <2>4 DEF Attends
<1> QED
  BY <1>5, <1>6

\* Keys stay before DISCONNECT, and none come from nowhere.
LEMMA TailPlaced ==
  ASSUME NEW q \in Seq(Message), q # <<>>
  PROVE  /\ (\A n, m \in DOMAIN q :
                n < m /\ q[n].op = "DISCONNECT" => q[m].op # "FORWARD_EVENT")
            => \A n, m \in DOMAIN Tail(q) :
                  n < m /\ Tail(q)[n].op = "DISCONNECT"
                      => Tail(q)[m].op # "FORWARD_EVENT"
         /\ Keys(q) = <<>> => Keys(Tail(q)) = <<>>
<1>1. ASSUME \A n, m \in DOMAIN q :
                n < m /\ q[n].op = "DISCONNECT" => q[m].op # "FORWARD_EVENT",
             NEW n \in DOMAIN Tail(q), NEW m \in DOMAIN Tail(q),
             n < m, Tail(q)[n].op = "DISCONNECT"
      PROVE  Tail(q)[m].op # "FORWARD_EVENT"
  <2>1. /\ n + 1 \in DOMAIN q /\ Tail(q)[n] = q[n + 1] /\ n \in Nat
        /\ m + 1 \in DOMAIN q /\ Tail(q)[m] = q[m + 1] /\ m \in Nat
    BY Popped
  <2>2. n + 1 < m + 1
    BY <1>1, <2>1
  <2> QED
    BY <1>1, <2>1, <2>2
<1>2. Keys(q) = <<>> => Keys(Tail(q)) = <<>>
  <2>1. /\ Keys(q) = KeysOf(Head(q)) \o Keys(Tail(q))
        /\ Keys(q) \in Seq(Number) /\ Keys(Tail(q)) \in Seq(Number)
    BY KeysTail
  <2>2. KeysOf(Head(q)) \in Seq(Number)
    <3>1. Head(q).n \in Number
      BY Popped DEF Message
    <3> QED
      BY <3>1 DEF KeysOf
  <2>3. PICK a \in Seq(Number) : a = KeysOf(Head(q))
    BY <2>2
  <2>4. PICK b \in Seq(Number) : b = Keys(Tail(q))
    BY <2>1
  <2>5. a \o b = <<>> => b = <<>>
    <3>1. Len(a \o b) = Len(a) + Len(b) /\ Len(a) \in Nat /\ Len(b) \in Nat
      BY ConcatProperties, LenProperties
    <3>2. Len(b) = 0 => b = <<>>
      BY EmptySeq
    <3> QED
      BY <3>1, <3>2
  <2> QED
    BY <2>1, <2>3, <2>4, <2>5
<1> QED
  BY <1>1, <1>2

\* and the keys where they were.
LEMMA AttendsPlaced ==
  ASSUME Typed, Listed(Core), NEW c \in Client, Attends(c), NEW d \in Client, KeysPlaced(d)
  PROVE  KeysPlaced(d)'
<1>1. HasRecord(d)' <=> HasRecord(d)
  BY AttendsListed
<1>2. ~HasRecord(d) => handled'[d] = handled[d]
  BY DEF Attends
<1>3. CASE d # c
  <2>1. to_server'[d] = to_server[d]
    BY <1>3 DEF Attends, Takes, Typed
  <2> QED
    BY <1>1, <1>2, <2>1 DEF KeysPlaced
<1>4. CASE d = c
  <2> DEFINE q == to_server[d]
  <2>1. q \in Seq(Message) /\ q # <<>> /\ to_server'[d] = Tail(q)
    BY <1>4 DEF Attends, Takes, Typed
  <2>2. \A n, m \in DOMAIN q :
            n < m /\ q[n].op = "DISCONNECT" => q[m].op # "FORWARD_EVENT"
    BY DEF KeysPlaced
  <2>3. ~HasRecord(d) => Keys(q) = <<>> /\ handled[d] = <<>>
    BY DEF KeysPlaced
  <2> HIDE DEF q
  <2>4. \A n, m \in DOMAIN Tail(q) :
            n < m /\ Tail(q)[n].op = "DISCONNECT" => Tail(q)[m].op # "FORWARD_EVENT"
    BY <2>1, <2>2, TailPlaced
  <2>5. Keys(q) = <<>> => Keys(Tail(q)) = <<>>
    BY <2>1, TailPlaced
  <2> QED
    BY <1>1, <1>2, <2>1, <2>3, <2>4, <2>5 DEF KeysPlaced
<1> QED
  BY <1>3, <1>4

\* The keys of a record are keys.
LEMMA PendingKeys ==
  ASSUME NEW q \in Seq(Key)
  PROVE  q \in Seq(Message) /\ Keys(q) \in Seq(Number)
<1>1. Key \subseteq Message
  BY DEF Key
<1>2. q \in Seq(Message)
  BY <1>1, SeqMonotonic
<1> QED
  BY <1>2, KeysType

\* What a record says is typed.
LEMMA RecordTyped ==
  ASSUME Typed, NEW k \in DOMAIN clients
  PROVE  /\ clients[k] \in Record /\ clients[k].client_win \in Client
         /\ clients[k].pending \in Seq(Key)
         /\ Keys(clients[k].pending) \in Seq(Number)
         /\ handled[clients[k].client_win] \in Seq(Number)
         /\ Keys(to_server[clients[k].client_win]) \in Seq(Number)
<1>1. clients \in Seq(Record) /\ handled \in [Client -> Seq(Number)]
      /\ to_server \in [Client -> Seq(Message)]
  BY DEF Typed, Core, Server
<1>2. clients[k] \in Record
  BY <1>1, ElementOfSeq
<1>3. clients[k].client_win \in Client /\ clients[k].pending \in Seq(Key)
  BY <1>2 DEF Record
<1>4. Keys(clients[k].pending) \in Seq(Number)
  BY <1>3, PendingKeys
<1>5. Keys(to_server[clients[k].client_win]) \in Seq(Number)
  <2>1. to_server[clients[k].client_win] \in Seq(Message)
    BY <1>1, <1>3
  <2> QED
    BY <2>1, KeysType
<1> QED
  BY <1>1, <1>2, <1>3, <1>4, <1>5

\* No key is lost, and none overtakes another.
LEMMA AttendsKeys ==
  ASSUME Typed, NEW c \in Client, Attends(c), KeysInOrder
  PROVE  KeysInOrder'
<1>1. SUFFICES ASSUME NEW d \in Client, NEW k \in DOMAIN clients,
                      clients[k].client_win = d
               PROVE  handled'[d] \o Keys(clients'[k].pending) \o Keys(to_server'[d])
                          = [n \in 1 .. typed[d] |-> n]
  <2>1. /\ DOMAIN clients' = DOMAIN clients
        /\ \A k \in DOMAIN clients : clients'[k].client_win = clients[k].client_win
        /\ typed' = typed
    BY DEF Attends, Takes, clientVars
  <2>2. KeysInOrder' <=>
            \A d \in Client : \A k \in DOMAIN clients' :
                clients'[k].client_win = d =>
                    handled'[d] \o Keys(clients'[k].pending) \o Keys(to_server'[d])
                        = [n \in 1 .. typed'[d] |-> n]
    BY Zenon DEF KeysInOrder, Keys
  <2> QED
    BY <1>1, <2>1, <2>2
<1> DEFINE H == handled[d]
           P == Keys(clients[k].pending)
           q == to_server[d]
           o == IF d = c THEN KeysOf(Head(to_server[c])) ELSE <<>>
<1>2. H \o P \o Keys(q) = [n \in 1 .. typed[d] |-> n]
  BY <1>1 DEF KeysInOrder
<1>3. handled'[d] \o Keys(clients'[k].pending) = (H \o P) \o o
  BY <1>1 DEF Attends
<1>4. H \in Seq(Number) /\ P \in Seq(Number) /\ q \in Seq(Message)
  <2>1. q \in Seq(Message)
    BY DEF Typed
  <2> QED
    BY <1>1, <2>1, RecordTyped
<1>5. /\ Keys(q) = o \o Keys(to_server'[d])
      /\ o \in Seq(Number) /\ Keys(to_server'[d]) \in Seq(Number)
  <2>1. CASE d = c
    <3>1. q # <<>> /\ to_server'[d] = Tail(q)
      BY <2>1 DEF Attends, Takes, Typed
    <3>2. Head(q).n \in Number
      BY <1>4, <3>1, Popped DEF Message
    <3>3. o = KeysOf(Head(q)) /\ o \in Seq(Number)
      BY <2>1, <3>2 DEF KeysOf
    <3> HIDE DEF q, o
    <3>4. /\ Keys(q) = KeysOf(Head(q)) \o Keys(Tail(q)) /\ Keys(Tail(q)) \in Seq(Number)
      BY <1>4, <3>1, KeysTail
    <3> QED
      BY <3>1, <3>3, <3>4
  <2>2. CASE d # c
    <3>1. o = <<>> /\ to_server'[d] = q
      BY <2>2 DEF Attends, Takes, Typed
    <3>2. Keys(q) \in Seq(Number) /\ <<>> \in Seq(Number)
      BY <1>4, KeysType
    <3> QED
      BY <3>1, <3>2, ConcatEmptySeq
  <2> QED
    BY <2>1, <2>2
<1> HIDE DEF H, P, q, o
<1>6. H \o P \in Seq(Number)
  BY <1>4, ConcatProperties
<1>7. ((H \o P) \o o) \o Keys(to_server'[d]) = (H \o P) \o (o \o Keys(to_server'[d]))
  BY <1>5, <1>6, ConcatAssociative
<1> QED
  BY <1>2, <1>3, <1>5, <1>7

\* A connection that waits goes on having something to wait for.
LEMMA AttendsWait ==
  ASSUME Typed, NEW c \in Client, Attends(c), WaitHasAnswer
  PROVE  WaitHasAnswer'
<1>1. /\ DOMAIN clients' = DOMAIN clients
      /\ \A k \in DOMAIN clients : clients'[k].client_win = clients[k].client_win
      /\ stage' = stage
  BY DEF Attends, Takes, clientVars
<1>2. SUFFICES ASSUME NEW k \in DOMAIN clients
               PROVE  LET d == clients[k].client_win
                      IN  /\ clients'[k].pending # <<>> => clients'[k].sync
                          /\ clients'[k].sync /\ Alive(d) =>
                                \/ Places(to_client'[d], Synchronous) # {}
                                \/ Places(to_server'[d], {"SYNC_REPLY"}) # {}
  BY <1>1 DEF WaitHasAnswer, Alive
<1> DEFINE d == clients[k].client_win
<1>3. d \in Client
  BY RecordTyped
<1>4. clients'[k].pending # <<>> => clients'[k].sync
  BY DEF Attends
<1>5. SUFFICES ASSUME clients'[k].sync, Alive(d),
                      Places(to_client'[d], Synchronous) = {}
               PROVE  Places(to_server'[d], {"SYNC_REPLY"}) # {}
  BY <1>4
<1>6. clients[k].sync /\ (Head(to_server[c]).op # "SYNC_REPLY" \/ d # c)
  BY <1>5 DEF Attends
<1>7. DOMAIN to_client[d] \subseteq DOMAIN to_client'[d]
      /\ \A n \in DOMAIN to_client[d] : to_client'[d][n] = to_client[d][n]
  BY <1>3 DEF Attends, Sends, Core
<1>8. Places(to_client[d], Synchronous) \subseteq Places(to_client'[d], Synchronous)
  BY <1>7 DEF Places
<1>9. Places(to_server[d], {"SYNC_REPLY"}) # {}
  BY <1>5, <1>6, <1>8 DEF WaitHasAnswer
<1>10. CASE d # c
  BY <1>3, <1>9, <1>10 DEF Attends, Takes, Typed
<1>11. CASE d = c
  <2>1. /\ to_server[c] \in Seq(Message) /\ to_server[c] # <<>>
        /\ to_server'[c] = Tail(to_server[c])
    BY DEF Attends, Takes, Typed
  <2> QED
    BY <1>6, <1>9, <1>11, <2>1, OthersSent
<1> QED
  BY <1>10, <1>11

\* So all of the invariant is kept.
LEMMA AttendsKeeps ==
  ASSUME IInv, NEW c \in Client, Attends(c)
  PROVE  IInv'
<1>1. Typed'
  <2>1. to_server' \in [Client -> Seq(Message)]
    <3>1. to_server[c] \in Seq(Message) /\ to_server[c] # <<>>
      BY DEF IInv, Typed, Attends, Takes
    <3>2. Tail(to_server[c]) \in Seq(Message)
      BY <3>1, Popped
    <3> QED
      BY <3>2 DEF IInv, Typed, Attends, Takes
  <2>2. UNCHANGED <<stage, waits, held, mask, typed>>
    BY DEF Attends, Takes, clientVars
  <2>3. Core' \in Server
    BY DEF Attends
  <2> QED
    BY <2>1, <2>2, <2>3 DEF IInv, Typed
<1>2. Listed(Core)'
  BY AttendsListed DEF IInv
<1>3. Numbered(Core)' /\ Up(Core)'
  BY DEF IInv, Attends
<1>4. ASSUME NEW d \in Client
      PROVE  Awaited(d)' /\ Staged(d)' /\ Cleaned(d)' /\ KeysPlaced(d)'
  <2>1. Awaited(d)'
    BY TakesAwaited DEF IInv, Attends
  <2>2. Staged(d)'
    BY AttendsStaged DEF IInv
  <2>3. Cleaned(d)'
    BY AttendsCleaned DEF IInv
  <2>4. KeysPlaced(d)'
    BY AttendsPlaced DEF IInv
  <2> QED
    BY <2>1, <2>2, <2>3, <2>4
<1>5. KeysInOrder' /\ WaitHasAnswer'
  BY AttendsKeys, AttendsWait DEF IInv
<1> QED
  BY <1>1, <1>2, <1>3, <1>4, <1>5 DEF IInv

----------------------------------------------------------------------------
(* The handlers.                                                           *)

\* Numbers stay in order when ICs go.
LEMMA WorksNumbered ==
  ASSUME NEW s, NEW t, Works(s, t), Numbered(s)
  PROVE  Numbered(t)
<1>1. InUse(t.ic) \subseteq InUse(s.ic)
  BY DEF Works, InUse
<1> QED
  BY <1>1 DEF Works, Numbered

\* A handler that leaves the list of clients alone attends, whatever it has made
\* of the ICs (b) before it does what Serves says.
LEMMA QuietAttends ==
  ASSUME IInv, NEW c \in Client, Takes(c), NEW b \in Server,
         b.clients = clients, b.free = free_clients, b.last = connect_id,
         b.out = to_client, b.handled = handled,
         Numbered(Core) => Numbered(b), Up(Core) => Up(b),
         \A i \in Id :
            \/ b.ic[i].connect_id \in {ic[i].connect_id, NoId}
            \/ /\ Head(to_server[c]).op = "CREATE_IC"
               /\ \E k \in DOMAIN clients :
                     clients[k].client_win = c /\ b.ic[i].connect_id = clients[k].connect_id,
         Serves(b, Core', {<<c, Head(to_server[c]).op>>}),
         Head(to_server[c]).op \notin {"XCONNECT", "DISCONNECT", "FORWARD_EVENT", "SYNC_REPLY"},
         Head(to_server[c]).op = "CLOSE" =>
            \A k \in DOMAIN clients : clients[k].client_win = c =>
                \A i \in Id : ic'[i].connect_id # clients[k].connect_id
  PROVE  Attends(c)
<1>1. /\ clients' = clients /\ handled' = handled
      /\ UNCHANGED <<free_clients, connect_id>>
  BY DEF Serves, Works, Core
<1>2. Core' \in Server /\ (Numbered(Core) => Numbered(Core')) /\ (Up(Core) => Up(Core'))
  BY WorksNumbered DEF Serves, Works
<1>3. Sends(Core, Core', {<<c, Head(to_server[c]).op>>})
  BY DEF Serves, Sends, NewAnswers, Core
<1>4. ASSUME NEW i \in Id
      PROVE  \/ ic'[i].connect_id \in {ic[i].connect_id, NoId}
             \/ /\ Head(to_server[c]).op = "CREATE_IC"
                /\ \E k \in DOMAIN clients :
                      clients[k].client_win = c /\ ic'[i].connect_id = clients[k].connect_id
  <2>1. ic'[i].connect_id \in {b.ic[i].connect_id, NoId}
    BY DEF Serves, Works, Core
  <2> QED
    BY <2>1
<1>5. ASSUME NEW k \in DOMAIN clients
      PROVE  /\ handled'[clients[k].client_win] \o Keys(clients'[k].pending)
                    = (handled[clients[k].client_win] \o Keys(clients[k].pending)) \o
                      (IF clients[k].client_win = c THEN KeysOf(Head(to_server[c]))
                       ELSE <<>>)
             /\ clients'[k].pending # <<>> => clients'[k].sync
             /\ clients'[k].sync => clients[k].sync
  <2>1. /\ handled[clients[k].client_win] \in Seq(Number)
        /\ Keys(clients[k].pending) \in Seq(Number)
    BY RecordTyped DEF IInv
  <2>2. \A x \in Seq(Number) : x \o <<>> = x
    BY ConcatEmptySeq
  <2>5. PICK x \in Seq(Number) :
            x = handled[clients[k].client_win] \o Keys(clients[k].pending)
    BY <2>1, ConcatProperties
  <2>3. KeysOf(Head(to_server[c])) = <<>>
    BY DEF KeysOf
  <2>4. clients[k].pending # <<>> => clients[k].sync
    BY DEF IInv, WaitHasAnswer
  <2> QED
    BY <1>1, <2>2, <2>3, <2>4, <2>5, ZenonT(30)
<1>6. Head(to_server[c]).op # "SYNC_REPLY"
  OBVIOUS
<1> QED
  BY <1>1, <1>2, <1>3, <1>4, <1>5, <1>6 DEF Attends

\* The same if the ICs are only what Serves makes of them.
LEMMA ServesAttends ==
  ASSUME IInv, NEW c \in Client, Takes(c),
         Serves(Core, Core', {<<c, Head(to_server[c]).op>>}),
         Head(to_server[c]).op \notin {"XCONNECT", "DISCONNECT", "FORWARD_EVENT", "SYNC_REPLY"},
         Head(to_server[c]).op = "CLOSE" =>
            \A k \in DOMAIN clients : clients[k].client_win = c =>
                \A i \in Id : ic'[i].connect_id # clients[k].connect_id
  PROVE  IInv'
<1>1. PICK b : b = Core
  OBVIOUS
<1>2. /\ b \in Server /\ b.clients = clients /\ b.free = free_clients
      /\ b.last = connect_id /\ b.out = to_client /\ b.handled = handled
      /\ b.ic = ic
  BY <1>1 DEF IInv, Typed, Core
<1>3. Serves(b, Core', {<<c, Head(to_server[c]).op>>})
  BY <1>1
<1>4. (Numbered(Core) => Numbered(b)) /\ (Up(Core) => Up(b))
  BY <1>1
<1>5. Attends(c)
  BY <1>2, <1>3, <1>4, QuietAttends
<1> QED
  BY <1>5, AttendsKeeps

\* What a message that is received says, and where its record is.
LEMMA Received1 ==
  ASSUME IInv, NEW c \in Client, NEW op, Received(c, op)
  PROVE  /\ Takes(c) /\ Head(to_server[c]).op = op
         /\ Head(to_server[c]) \in Message
         /\ op # "XCONNECT" => RecordOf(Core, c) # 0
         /\ Core \in Server
         /\ \A t : t \in Server /\ Store(t) => Core' = t
<1>1. to_server[c] \in Seq(Message) /\ Core \in Server
  BY DEF IInv, Typed
<1>2. to_server[c] # <<>>
  BY DEF Received
<1>3. Head(to_server[c]) \in Message
  BY <1>1, <1>2, Popped
<1> QED
  BY <1>1, <1>3, Stored DEF Received, Takes

\* A request that is only answered.
LEMMA QueryKeeps ==
  ASSUME IInv, NEW c \in Client, NEW op \in Queries, Query(c, op)
  PROVE  IInv'
<1>1. /\ Takes(c) /\ Head(to_server[c]).op = op /\ Core \in Server
      /\ op # "XCONNECT" => RecordOf(Core, c) # 0
      /\ \A t : t \in Server /\ Store(t) => Core' = t
  BY Received1 DEF Query
<1>2. op \in Op
        /\ op \notin {"XCONNECT", "DISCONNECT", "FORWARD_EVENT", "SYNC_REPLY", "CLOSE"}
  BY DEF Queries, Op, Answered
<1>3. PICK m : m = Msg(op, NoId, 0)
  OBVIOUS
<1>4. m \in Message /\ m.op = op
  BY <1>2, <1>3, Small, MsgType DEF NoId
<1>5. PICK A : A = {<<c, Head(to_server[c]).op>>}
  OBVIOUS
<1>6. Serves(Core, Answer(Core, c, m), A)
  BY <1>1, <1>2, <1>4, <1>5, AnswerServes
<1>7. Answer(Core, c, m) \in Server
  BY <1>6 DEF Serves, Works
<1>8. Core' = Answer(Core, c, m)
  BY <1>1, <1>3, <1>7 DEF Query
<1> QED
  BY <1>1, <1>2, <1>5, <1>6, <1>8, ServesAttends

\* OpenMessageProc(): the client is told of the trigger keys, and answered.
LEMMA OpenKeeps ==
  ASSUME IInv, NEW c \in Client, Open(c)
  PROVE  IInv'
<1>1. /\ Takes(c) /\ Head(to_server[c]).op = "OPEN" /\ Core \in Server
      /\ RecordOf(Core, c) # 0
      /\ \A t : t \in Server /\ Store(t) => Core' = t
  BY Received1 DEF Open
<1>2. PICK m : m = Msg("REGISTER_TRIGGERKEYS", NoId, 0)
  OBVIOUS
<1>3. PICK n : n = Msg("OPEN", NoId, 0)
  OBVIOUS
<1>4. /\ m \in Message /\ m.op = "REGISTER_TRIGGERKEYS"
      /\ n \in Message /\ n.op = "OPEN"
  BY <1>2, <1>3, Small DEF Msg, Message, Op, Answered, NoId
<1>5. "REGISTER_TRIGGERKEYS" \notin Answered
  BY DEF Answered, Queries
<1>6. PICK A : A = {<<c, "OPEN">>}
  OBVIOUS
<1>7. PICK b : b = Answer(Core, c, m)
  OBVIOUS
<1>8. Serves(Core, b, {})
  BY <1>1, <1>4, <1>5, <1>7, AnswerServes
<1>9. b \in Server /\ RecordOf(b, c) # 0
  BY <1>1, <1>8 DEF Serves, Works, RecordOf
<1>10. Serves(b, Answer(b, c, n), A)
  BY <1>4, <1>6, <1>9, AnswerServes
<1>11. Serves(Core, Answer(b, c, n), A)
  BY <1>1, <1>8, <1>10, AnswerLast
<1>12. Answer(b, c, n) \in Server
  BY <1>11 DEF Serves, Works
<1>13. Core' = Answer(b, c, n)
  BY <1>1, <1>2, <1>3, <1>7, <1>12 DEF Open
<1> QED
  BY <1>1, <1>6, <1>11, <1>13, ServesAttends

\* CloseMessageProc(): the ICs of the connection go.
LEMMA CloseKeeps ==
  ASSUME IInv, NEW c \in Client, Close(c)
  PROVE  IInv'
<1>1. /\ Takes(c) /\ Head(to_server[c]).op = "CLOSE" /\ Core \in Server
      /\ RecordOf(Core, c) # 0
      /\ \A t : t \in Server /\ Store(t) => Core' = t
  BY Received1 DEF Close
<1>2. PICK n : n = Msg("CLOSE", NoId, 0)
  OBVIOUS
<1>3. n \in Message /\ n.op = "CLOSE"
  BY <1>2, Small DEF Msg, Message, Op, Answered, NoId
<1>4. PICK A : A = {<<c, "CLOSE">>}
  OBVIOUS
<1>5. PICK id : id = Connection(Core, c)
  OBVIOUS
<1>6. /\ RecordOf(Core, c) \in DOMAIN clients
      /\ clients[RecordOf(Core, c)].client_win = c
      /\ id = clients[RecordOf(Core, c)].connect_id
  BY <1>1, <1>5, RecordPlace DEF Connection, Core
<1>7. id # NoId
  BY <1>6 DEF IInv, Listed, Core, NoId
<1>8. PICK D : D = {i \in Id : ic[i].connect_id = id}
  OBVIOUS
<1>9. D \in SUBSET InUse(ic) /\ ic = Core.ic
  BY <1>7, <1>8 DEF InUse, Core
<1>10. PICK b : b = Delete(Core, D)
  OBVIOUS
<1>11. CleanAll(Core, id) = b
  BY <1>8, <1>10 DEF CleanAll, Core
<1>12. Serves(Core, b, {})
  BY <1>1, <1>9, <1>10, DeleteServes
<1>13. b \in Server /\ RecordOf(b, c) # 0
  BY <1>1, <1>12 DEF Serves, Works, RecordOf
<1>14. Serves(b, Answer(b, c, n), A) /\ Answer(b, c, n).ic = b.ic
  BY <1>3, <1>4, <1>13, AnswerServes
<1>15. Serves(Core, Answer(b, c, n), A)
  BY <1>1, <1>12, <1>14, AnswerLast
<1>16. Answer(b, c, n) \in Server
  BY <1>15 DEF Serves, Works
<1>17. Core' = Answer(b, c, n)
  BY <1>1, <1>2, <1>5, <1>11, <1>16 DEF Close
<1>18. ASSUME NEW k \in DOMAIN clients, clients[k].client_win = c, NEW i \in Id
       PROVE  ic'[i].connect_id # clients[k].connect_id
  <2>1. clients[k].connect_id = id
    BY <1>6, <1>18 DEF IInv, Listed, Core
  <2>2. ic' = b.ic
    BY <1>14, <1>17 DEF Core
  <2>3. b.ic[i] = IF i \in D THEN Unused ELSE ic[i]
    BY <1>10 DEF Delete, Core
  <2> QED
    BY <1>7, <1>8, <2>1, <2>2, <2>3 DEF Unused
<1> QED
  BY <1>1, <1>4, <1>15, <1>17, <1>18, ServesAttends

\* DestroyICMessageProc()
LEMMA DestroyKeeps ==
  ASSUME IInv, NEW c \in Client, DestroyIC(c)
  PROVE  IInv'
<1>1. /\ Takes(c) /\ Head(to_server[c]).op = "DESTROY_IC" /\ Core \in Server
      /\ RecordOf(Core, c) # 0 /\ Head(to_server[c]) \in Message
      /\ \A t : t \in Server /\ Store(t) => Core' = t
  BY Received1 DEF DestroyIC
<1>2. PICK i : i = Head(to_server[c]).icid
  OBVIOUS
<1>3. PICK n : n = Msg("DESTROY_IC", i, 0)
  OBVIOUS
<1>4. n \in Message /\ n.op = "DESTROY_IC"
  BY <1>1, <1>2, <1>3, Small DEF Msg, Message, Op, Answered
<1>5. PICK A : A = {<<c, "DESTROY_IC">>}
  OBVIOUS
<1>6. PICK b : b = IF i \in InUse(Core.ic) THEN Delete(Core, {i}) ELSE Core
  OBVIOUS
<1>7. Serves(Core, b, {})
  BY <1>1, <1>6, DeleteServes, ServesSelf
<1>8. b \in Server /\ RecordOf(b, c) # 0
  BY <1>1, <1>7 DEF Serves, Works, RecordOf
<1>9. Serves(b, Answer(b, c, n), A)
  BY <1>4, <1>5, <1>8, AnswerServes
<1>10. Serves(Core, Answer(b, c, n), A)
  BY <1>1, <1>7, <1>9, AnswerLast
<1>11. Answer(b, c, n) \in Server
  BY <1>10 DEF Serves, Works
<1>12. Core' = Answer(b, c, n)
  BY <1>1, <1>2, <1>3, <1>6, <1>11 DEF DestroyIC, Destroyed
<1> QED
  BY <1>1, <1>5, <1>10, <1>12, ServesAttends

\* What is left alone is kept.
LEMMA NothingKeeps ==
  ASSUME IInv, NEW c \in Client, Takes(c), Core' = Core,
         Head(to_server[c]).op \notin
            {"XCONNECT", "DISCONNECT", "FORWARD_EVENT", "SYNC_REPLY", "CLOSE"}
  PROVE  IInv'
<1>1. Core \in Server
  BY DEF IInv, Typed
<1>2. PICK A : A = {<<c, Head(to_server[c]).op>>}
  OBVIOUS
<1>3. Serves(Core, Core, A)
  BY <1>1, ServesSelf
<1> QED
  BY <1>2, <1>3, ServesAttends

\* _Xi18nChangeIC() of an IC that is there.
LEMMA SetICValuesKeeps ==
  ASSUME IInv, NEW c \in Client, SetICValues(c)
  PROVE  IInv'
<1>1. /\ Takes(c) /\ Head(to_server[c]).op = "SET_IC_VALUES" /\ Core \in Server
      /\ RecordOf(Core, c) # 0 /\ Head(to_server[c]) \in Message
      /\ \A t : t \in Server /\ Store(t) => Core' = t
  BY Received1 DEF SetICValues
<1>2. PICK i : i = Head(to_server[c]).icid
  OBVIOUS
<1>3. CASE i \notin InUse(ic)
  <2>1. Core' = Core
    BY <1>1, <1>2, <1>3 DEF SetICValues
  <2> QED
    BY <1>1, <2>1, NothingKeeps
<1>4. CASE i \in InUse(ic)
  <2>1. PICK n : n = Msg("SET_IC_VALUES", i, 0)
    OBVIOUS
  <2>2. n \in Message /\ n.op = "SET_IC_VALUES"
    BY <1>1, <1>2, <2>1, Small DEF Msg, Message, Op, Answered
  <2>3. PICK p \in Preedit, text \in {FALSE, CommitsOnSwitch}, due \in BOOLEAN :
            Store(Answer(CheckIcExist(SetValues(Core, i, p, text), i, due), c, n))
    BY <1>2, <1>4, <2>1 DEF SetICValues
  <2>4. PICK b : b = SetValues(Core, i, p, text)
    OBVIOUS
  <2>5. PICK d : d = CheckIcExist(b, i, due)
    OBVIOUS
  <2>6. PICK A : A = {<<c, "SET_IC_VALUES">>}
    OBVIOUS
  <2>7. Serves(Core, b, {})
    <3>1. i \in InUse(Core.ic)
      BY <1>4 DEF Core
    <3> QED
      BY <1>1, <2>4, <3>1, SetValuesServes
  <2>8. b \in Server
    BY <2>7 DEF Serves, Works
  <2>9. Serves(b, d, {})
    BY <2>5, <2>8, CheckServes
  <2>10. Serves(Core, d, {})
    BY <1>1, <2>7, <2>9, Twice
  <2>11. d \in Server /\ RecordOf(d, c) # 0
    BY <1>1, <2>10 DEF Serves, Works, RecordOf
  <2>12. Serves(d, Answer(d, c, n), A)
    BY <2>2, <2>6, <2>11, AnswerServes
  <2>13. Serves(Core, Answer(d, c, n), A)
    BY <1>1, <2>10, <2>12, AnswerLast
  <2>14. Answer(d, c, n) \in Server
    BY <2>13 DEF Serves, Works
  <2>15. Core' = Answer(d, c, n)
    BY <1>1, <2>3, <2>4, <2>5, <2>14
  <2> QED
    BY <1>1, <2>6, <2>13, <2>15, ServesAttends
<1> QED
  BY <1>3, <1>4

\* _Xi18nGetIC()
LEMMA GetICValuesKeeps ==
  ASSUME IInv, NEW c \in Client, GetICValues(c)
  PROVE  IInv'
<1>1. /\ Takes(c) /\ Head(to_server[c]).op = "GET_IC_VALUES" /\ Core \in Server
      /\ RecordOf(Core, c) # 0 /\ Head(to_server[c]) \in Message
      /\ \A t : t \in Server /\ Store(t) => Core' = t
  BY Received1 DEF GetICValues
<1>2. PICK i : i = Head(to_server[c]).icid
  OBVIOUS
<1>3. CASE i \notin InUse(ic)
  <2>1. Core' = Core
    BY <1>1, <1>2, <1>3 DEF GetICValues
  <2> QED
    BY <1>1, <2>1, NothingKeeps
<1>4. CASE i \in InUse(ic)
  <2>1. PICK n : n = Msg("GET_IC_VALUES", i, 0)
    OBVIOUS
  <2>2. n \in Message /\ n.op = "GET_IC_VALUES"
    BY <1>1, <1>2, <2>1, Small DEF Msg, Message, Op, Answered
  <2>3. PICK due \in BOOLEAN : Store(Answer(CheckIcExist(Core, i, due), c, n))
    BY <1>2, <1>4, <2>1 DEF GetICValues
  <2>4. PICK d : d = CheckIcExist(Core, i, due)
    OBVIOUS
  <2>5. PICK A : A = {<<c, "GET_IC_VALUES">>}
    OBVIOUS
  <2>6. Serves(Core, d, {})
    BY <1>1, <2>4, CheckServes
  <2>7. d \in Server /\ RecordOf(d, c) # 0
    BY <1>1, <2>6 DEF Serves, Works, RecordOf
  <2>8. Serves(d, Answer(d, c, n), A)
    BY <2>2, <2>5, <2>7, AnswerServes
  <2>9. Serves(Core, Answer(d, c, n), A)
    BY <1>1, <2>6, <2>8, AnswerLast
  <2>10. Answer(d, c, n) \in Server
    BY <2>9 DEF Serves, Works
  <2>11. Core' = Answer(d, c, n)
    BY <1>1, <2>3, <2>4, <2>10
  <2> QED
    BY <1>1, <2>5, <2>9, <2>11, ServesAttends
<1> QED
  BY <1>3, <1>4

\* ResetICMessageProc()
LEMMA ResetKeeps ==
  ASSUME IInv, NEW c \in Client, ResetIC(c)
  PROVE  IInv'
<1>1. /\ Takes(c) /\ Head(to_server[c]).op = "RESET_IC" /\ Core \in Server
      /\ RecordOf(Core, c) # 0 /\ Head(to_server[c]) \in Message
      /\ \A t : t \in Server /\ Store(t) => Core' = t
  BY Received1 DEF ResetIC
<1>2. PICK n : n = Msg("RESET_IC", Head(to_server[c]).icid, 0)
  OBVIOUS
<1>3. n \in Message /\ n.op = "RESET_IC"
  BY <1>1, <1>2, Small DEF Msg, Message, Op, Answered
<1>4. PICK A : A = {<<c, "RESET_IC">>}
  OBVIOUS
<1>5. Serves(Core, Answer(Core, c, n), A)
  BY <1>1, <1>3, <1>4, AnswerServes
<1>6. Answer(Core, c, n) \in Server
  BY <1>5 DEF Serves, Works
<1>7. Core' = Answer(Core, c, n)
  BY <1>1, <1>2, <1>6 DEF ResetIC
<1> QED
  BY <1>1, <1>4, <1>5, <1>7, ServesAttends

\* What answers nobody may as well be allowed to.
LEMMA ServesMore ==
  ASSUME NEW s \in Server, NEW t, NEW A, Serves(s, t, {})
  PROVE  Serves(s, t, A)
<1>1. Serves(s, s, A)
  BY ServesSelf
<1> QED
  BY <1>1, AnswerFirst

\* SetICFocusMessageProc()
LEMMA SetFocusKeeps ==
  ASSUME IInv, NEW c \in Client, SetICFocus(c)
  PROVE  IInv'
<1>1. /\ Takes(c) /\ Head(to_server[c]).op = "SET_IC_FOCUS" /\ Core \in Server
      /\ \A t : t \in Server /\ Store(t) => Core' = t
  BY Received1 DEF SetICFocus
<1>2. PICK i : i = Head(to_server[c]).icid
  OBVIOUS
<1>3. PICK p \in Preedit, due \in BOOLEAN :
          Store(IF i \in InUse(ic) THEN CheckIcExist(PreeditState(Core, i, p), i, due)
                ELSE Core)
  BY <1>2 DEF SetICFocus
<1>4. CASE i \notin InUse(ic)
  <2>1. Core' = Core
    BY <1>1, <1>3, <1>4
  <2> QED
    BY <1>1, <2>1, NothingKeeps
<1>5. CASE i \in InUse(ic)
  <2>1. PICK b : b = PreeditState(Core, i, p)
    OBVIOUS
  <2>2. PICK d : d = CheckIcExist(b, i, due)
    OBVIOUS
  <2>3. Serves(Core, b, {})
    <3>1. i \in InUse(Core.ic)
      BY <1>5 DEF Core
    <3> QED
      BY <1>1, <2>1, <3>1, PreeditServes
  <2>4. b \in Server
    BY <2>3 DEF Serves, Works
  <2>5. Serves(b, d, {})
    BY <2>2, <2>4, CheckServes
  <2>6. Serves(Core, d, {})
    BY <1>1, <2>3, <2>5, Twice
  <2>7. d \in Server
    BY <2>6 DEF Serves, Works
  <2>8. Core' = d
    BY <1>1, <1>3, <1>5, <2>1, <2>2, <2>7
  <2>9. Serves(Core, d, {<<c, Head(to_server[c]).op>>})
    BY <1>1, <2>6, ServesMore
  <2> QED
    BY <1>1, <2>8, <2>9, ServesAttends
<1> QED
  BY <1>4, <1>5

\* The sweep that may come after XUnsetICFocus().
LEMMA UnsetFocusKeeps ==
  ASSUME IInv, NEW c \in Client, UnsetICFocus(c)
  PROVE  IInv'
<1>1. /\ Takes(c) /\ Head(to_server[c]).op = "UNSET_IC_FOCUS" /\ Core \in Server
      /\ \A t : t \in Server /\ Store(t) => Core' = t
  BY Received1 DEF UnsetICFocus
<1>2. PICK due \in BOOLEAN : Store(CheckIcExist(Core, Head(to_server[c]).icid, due))
  BY DEF UnsetICFocus
<1>3. PICK d : d = CheckIcExist(Core, Head(to_server[c]).icid, due)
  OBVIOUS
<1>4. Serves(Core, d, {})
  BY <1>1, <1>3, CheckServes
<1>5. d \in Server
  BY <1>4 DEF Serves, Works
<1>6. Core' = d
  BY <1>1, <1>2, <1>3, <1>5
<1>7. Serves(Core, d, {<<c, Head(to_server[c]).op>>})
  BY <1>1, <1>4, ServesMore
<1> QED
  BY <1>1, <1>6, <1>7, ServesAttends

\* TriggerNotifyMessageProc()
LEMMA TriggerKeeps ==
  ASSUME IInv, NEW c \in Client, TriggerNotify(c)
  PROVE  IInv'
<1>1. /\ Takes(c) /\ Head(to_server[c]).op = "TRIGGER_NOTIFY" /\ Core \in Server
      /\ RecordOf(Core, c) # 0 /\ Head(to_server[c]) \in Message
      /\ \A t : t \in Server /\ Store(t) => Core' = t
  BY Received1 DEF TriggerNotify
<1>2. PICK i : i = Head(to_server[c]).icid
  OBVIOUS
<1>3. PICK p, text, due :
          Store(CheckIcExist(Triggered(Core, c, i, p, text), i, due))
  <2>1. PICK p \in {"keep", "off"} : \E text \in {FALSE, p = "off"} : \E due \in BOOLEAN :
            Store(CheckIcExist(Triggered(Core, c, i, p, text), i, due))
    BY <1>2 DEF TriggerNotify
  <2> QED
    BY <2>1
<1>4. PICK b : b = Triggered(Core, c, i, p, text)
  OBVIOUS
<1>5. PICK d : d = CheckIcExist(b, i, due)
  OBVIOUS
<1>6. PICK A : A = {<<c, "TRIGGER_NOTIFY">>}
  OBVIOUS
<1>7. Serves(Core, b, A)
  <2>1. i \in Nat
    BY <1>1, <1>2 DEF Message
  <2> QED
    BY <1>1, <1>4, <1>6, <2>1, TriggeredServes
<1>8. b \in Server
  BY <1>7 DEF Serves, Works
<1>9. Serves(b, d, {})
  BY <1>5, <1>8, CheckServes
<1>10. Serves(Core, d, A)
  BY <1>1, <1>7, <1>9, AnswerFirst
<1>11. d \in Server
  BY <1>10 DEF Serves, Works
<1>12. Core' = d
  BY <1>1, <1>3, <1>4, <1>5, <1>11
<1> QED
  BY <1>1, <1>6, <1>10, <1>12, ServesAttends

\* _Xi18nChangeIC() of a new IC: it has the connection of the client.
LEMMA CreateKeeps ==
  ASSUME IInv, NEW c \in Client, CreateIC(c)
  PROVE  IInv'
<1>1. /\ Takes(c) /\ Head(to_server[c]).op = "CREATE_IC" /\ Core \in Server
      /\ RecordOf(Core, c) # 0 /\ Head(to_server[c]) \in Message
      /\ \A t : t \in Server /\ Store(t) => Core' = t
  BY Received1 DEF CreateIC
<1>2. PICK id : id = Connection(Core, c)
  OBVIOUS
<1>3. PICK new : new = [connect_id |-> id, connected |-> FALSE,
                        focus_win |-> <<c, Head(to_server[c]).n>>]
  OBVIOUS
<1>4. PICK i \in NewIds, p \in {"keep", "on"}, due \in BOOLEAN :
          Store(Answer(CheckIcExist(PreeditState(
                    [Core EXCEPT !.ic[i] = new, !.ic_free = @ \ {i},
                                 !.icid = IF i > @ THEN i ELSE @], i, p), i, due), c,
                Msg("CREATE_IC", i, 0)))
  BY <1>2, <1>3 DEF CreateIC
<1>5. PICK b : b = [Core EXCEPT !.ic[i] = new, !.ic_free = @ \ {i},
                                !.icid = IF i > @ THEN i ELSE @]
  OBVIOUS
<1>6. PICK n : n = Msg("CREATE_IC", i, 0)
  OBVIOUS
<1>7. /\ RecordOf(Core, c) \in DOMAIN clients
      /\ clients[RecordOf(Core, c)].client_win = c
      /\ id = clients[RecordOf(Core, c)].connect_id
  BY <1>1, <1>2, RecordPlace DEF Connection, Core
<1>8. id \in Nat /\ id # NoId
  BY <1>7 DEF IInv, Listed, Typed, Server, Core, NoId
<1>9. i \in Id /\ icid \in 0 .. MaxIC /\ ic_free \subseteq 1 .. icid
      /\ InUse(ic) \subseteq 1 .. icid
  BY ConstantsOK DEF NewIds, IInv, Numbered, Core, Id
<1>10. new \in ICRecord /\ new.connect_id = id
  <2>1. Head(to_server[c]).n \in Number
    BY <1>1 DEF Message
  <2> QED
    BY <1>3, <1>8, <2>1 DEF ICRecord, FocusWin
<1>11. /\ b.clients = clients /\ b.free = free_clients /\ b.last = connect_id
       /\ b.out = to_client /\ b.handled = handled /\ b.buf = commit_buf
       /\ b.running = running
       /\ b.ic = [ic EXCEPT ![i] = new] /\ b.ic_free = ic_free \ {i}
       /\ b.icid = IF i > icid THEN i ELSE icid
  BY <1>5 DEF Core
<1>12. ic \in [Id -> ICRecord] /\ b.ic \in [Id -> ICRecord]
  BY <1>1, <1>9, <1>10, <1>11 DEF Server, Core
<1>13. b \in Server
  <2>1. b.ic_free \in SUBSET Id /\ b.icid \in Nat
    BY <1>1, <1>9, <1>11 DEF Server, Core, Id
  <2>2. b = [clients |-> b.clients, free |-> b.free, last |-> b.last, ic |-> b.ic,
             ic_free |-> b.ic_free, icid |-> b.icid, buf |-> b.buf,
             running |-> b.running, out |-> b.out, handled |-> b.handled]
    BY <1>5 DEF Core
  <2>3. /\ b.clients \in Seq(Record) /\ b.free \in Seq(Nat) /\ b.last \in Nat
        /\ b.buf \in Nat \X Nat /\ b.running \in BOOLEAN
        /\ b.out \in [Client -> Seq(Message)] /\ b.handled \in [Client -> Seq(Number)]
    BY <1>1, <1>11 DEF Server, Core
  <2> QED
    BY <1>12, <2>1, <2>2, <2>3 DEF Server
<1>14. i \in InUse(b.ic) /\ InUse(b.ic) \subseteq InUse(ic) \cup {i}
  BY <1>8, <1>9, <1>10, <1>11, <1>12 DEF InUse
<1>15. Numbered(b)
  <2>1. i \in Nat /\ i >= 1 /\ i <= MaxIC /\ icid \in Nat /\ icid <= MaxIC /\ MaxIC \in Nat
    BY <1>9, ConstantsOK DEF Id
  <2>2. PICK m : m = b.icid
    OBVIOUS
  <2>3. m = IF i > icid THEN i ELSE icid
    BY <1>11, <2>2
  <2>4. m \in 0 .. MaxIC /\ 1 .. icid \subseteq 1 .. m /\ i \in 1 .. m
    BY <2>1, <2>3
  <2>5. b.ic_free \subseteq 1 .. m /\ InUse(b.ic) \subseteq 1 .. m
    BY <1>9, <1>11, <1>14, <2>4
  <2> QED
    BY <2>2, <2>4, <2>5 DEF Numbered
<1>16. Up(Core) => Up(b)
  <2>1. ASSUME Linked(Core) PROVE Linked(b)
    BY <1>7, <1>9, <1>10, <1>11, <1>12, <1>14, <2>1 DEF Linked, Core, InUse
  <2> QED
    BY <1>11, <2>1 DEF Up, Core
<1>17. \A j \in Id :
           \/ b.ic[j].connect_id \in {ic[j].connect_id, NoId}
           \/ \E k \in DOMAIN clients :
                 clients[k].client_win = c /\ b.ic[j].connect_id = clients[k].connect_id
  BY <1>7, <1>9, <1>10, <1>11, <1>12
<1>18. PICK d : d = PreeditState(b, i, p)
  OBVIOUS
<1>19. PICK e : e = CheckIcExist(d, i, due)
  OBVIOUS
<1>20. Serves(b, d, {})
  BY <1>13, <1>14, <1>18, PreeditServes
<1>21. d \in Server
  BY <1>20 DEF Serves, Works
<1>22. Serves(d, e, {})
  BY <1>19, <1>21, CheckServes
<1>23. Serves(b, e, {})
  BY <1>13, <1>20, <1>22, Twice
<1>24. e \in Server /\ RecordOf(e, c) # 0
  BY <1>1, <1>11, <1>23 DEF Serves, Works, RecordOf, Core
<1>25. n \in Message /\ n.op = "CREATE_IC"
  BY <1>6, <1>9, Small DEF Msg, Message, Op, Answered
<1>26. Serves(e, Answer(e, c, n), {<<c, "CREATE_IC">>})
  BY <1>24, <1>25, AnswerServes
<1>27. Serves(b, Answer(e, c, n), {<<c, "CREATE_IC">>})
  BY <1>13, <1>23, <1>26, AnswerLast
<1>28. Answer(e, c, n) \in Server
  BY <1>27 DEF Serves, Works
<1>29. Core' = Answer(e, c, n)
  BY <1>1, <1>4, <1>5, <1>6, <1>18, <1>19, <1>28
<1>30. Attends(c)
  BY <1>1, <1>11, <1>13, <1>15, <1>16, <1>17, <1>27, <1>29, QuietAttends
<1> QED
  BY <1>30, AttendsKeeps

----------------------------------------------------------------------------
(* Keys.                                                                   *)

\* No two records have the same window or the same connect_id.
Distinct(s) ==
    \A k, l \in DOMAIN s.clients :
        /\ s.clients[k].client_win = s.clients[l].client_win => k = l
        /\ s.clients[k].connect_id = s.clients[l].connect_id => k = l

\* What becomes of the key n that is taken up for the record k of c: xcin is
\* given it, and if it is handed back the connection waits for the answer.
Took(s, t, c, k, n) ==
    /\ Works(s, t)
    /\ Sends(s, t, {})
    /\ t.handled = [s.handled EXCEPT ![c] = Append(@, n)]
    /\ \/ t.clients = s.clients
       \/ /\ t.clients = [s.clients EXCEPT ![k] = [@ EXCEPT !.sync = TRUE]]
          /\ stage[c] = "dead" \/ Places(t.out[c], Synchronous) # {}

\* What was sent is still there.
LEMMA SendsGrow ==
  ASSUME NEW s, NEW t, NEW A, Sends(s, t, A), NEW d \in Client, NEW ops
  PROVE  Places(s.out[d], ops) \subseteq Places(t.out[d], ops)
BY DEF Sends, Places

\* What is done after it changes nothing about the key.
LEMMA TookThen ==
  ASSUME NEW s \in Server, NEW t, NEW u, NEW c \in Client, NEW k, NEW n,
         Took(s, t, c, k, n), Serves(t, u, {})
  PROVE  Took(s, u, c, k, n)
<1>1. Works(s, u)
  BY WorksThen DEF Took, Serves
<1>2. Sends(s, u, {})
  <2>1. Sends(s, u, {} \cup {})
    BY SendsThen DEF Took, Serves
  <2> QED
    BY <2>1
<1>3. Places(t.out[c], Synchronous) \subseteq Places(u.out[c], Synchronous)
  BY SendsGrow DEF Serves
<1>4. u.clients = t.clients /\ u.handled = t.handled
  BY DEF Serves
<1> QED
  BY <1>1, <1>2, <1>3, <1>4 DEF Took

\* xi18n_forwardEvent() sends to the record the key came from, and waits.
LEMMA BackTook ==
  ASSUME NEW s \in Server, Distinct(s), NEW c \in Client, NEW k \in DOMAIN s.clients,
         s.clients[k].client_win = c, NEW m \in Message, m.op = "FORWARD_EVENT"
  PROVE  LET t == ForwardBack(s, Connection(s, c), m)
         IN  /\ Works(s, t) /\ Sends(s, t, {}) /\ t.handled = s.handled
             /\ t.clients = [s.clients EXCEPT ![k] = [@ EXCEPT !.sync = TRUE]]
             /\ stage[c] = "dead" \/ Places(t.out[c], Synchronous) # {}
<1>1. RecordOf(s, c) = k
  BY RecordPlace DEF Distinct
<1>2. FindClient(s, Connection(s, c)) = k
  BY <1>1, FindPlace DEF Connection, Distinct
<1> DEFINE r == [s.clients[k] EXCEPT !.sync = TRUE]
           w == [s EXCEPT !.clients = [s.clients EXCEPT ![k] = r]]
<1>3. s.clients[k] \in Record /\ s.clients \in Seq(Record)
  BY ElementOfSeq DEF Server
<1>4. r \in Record /\ r.client_win = c /\ r.connect_id = s.clients[k].connect_id
  BY <1>3 DEF Record
<1>5. ForwardBack(s, Connection(s, c), m) = SendAt(w, k, m)
  BY <1>2 DEF ForwardBack
<1>6. /\ w.clients = [s.clients EXCEPT ![k] = r] /\ w.free = s.free /\ w.last = s.last
      /\ w.icid = s.icid /\ w.ic_free = s.ic_free /\ w.ic = s.ic /\ w.out = s.out
      /\ w.buf = s.buf /\ w.running = s.running /\ w.handled = s.handled
  BY DEF Server
<1>7. w.clients \in Seq(Record)
  BY <1>3, <1>4, <1>6, ExceptSeq
<1>8. w \in Server
  BY <1>7 DEF Server
<1> HIDE DEF w
<1>9. /\ DOMAIN w.clients = DOMAIN s.clients
      /\ w.clients[k] = r
      /\ \A l \in DOMAIN s.clients : w.clients[l].connect_id = s.clients[l].connect_id
  BY <1>4, <1>6
<1>10. Linked(s) => Linked(w)
  BY <1>6, <1>9 DEF Linked
<1>11. Works(s, w)
  BY <1>6, <1>8, <1>10 DEF Works, Up
<1>12. Sends(s, w, {})
  BY <1>6 DEF Sends, NewAnswers
<1>13. m.op \notin Answered /\ k # 0 /\ m.op \in Synchronous
  <2>1. DOMAIN s.clients \subseteq Nat \ {0}
    BY <1>3
  <2> QED
    BY <2>1 DEF Answered, Queries, Synchronous
<1>14. Serves(w, SendAt(w, k, m), {})
  BY <1>8, <1>9, <1>13, SendAtServes
<1>15. Works(s, SendAt(w, k, m))
  BY <1>11, <1>14, WorksThen DEF Serves
<1>16. Sends(s, SendAt(w, k, m), {})
  <2>1. Sends(s, SendAt(w, k, m), {} \cup {})
    BY <1>12, <1>14, SendsThen DEF Serves
  <2> QED
    BY <2>1
<1>17. stage[c] = "dead" \/ Places(SendAt(w, k, m).out[c], Synchronous) # {}
  <2> SUFFICES ASSUME stage[c] # "dead"
               PROVE  Places(SendAt(w, k, m).out[c], Synchronous) # {}
    OBVIOUS
  <2>1. SendAt(w, k, m) = [w EXCEPT !.out[c] = Append(@, m)]
    BY <1>4, <1>9, <1>13 DEF SendAt
  <2>2. SendAt(w, k, m).out[c] = Append(w.out[c], m)
    BY <1>8, <2>1, SMTT(20) DEF Server
  <2>3. PICK q \in Seq(Message) : q = w.out[c]
    BY <1>8 DEF Server
  <2>4. Len(q) + 1 \in Places(Append(q, m), Synchronous)
    BY <1>13, PushedPlaces
  <2> QED
    BY <2>2, <2>3, <2>4
<1>18. SendAt(w, k, m).clients = w.clients /\ SendAt(w, k, m).handled = w.handled
  BY <1>14 DEF Serves
<1> QED
  BY <1>5, <1>6, <1>15, <1>16, <1>17, <1>18

\* A key that xcin is given is taken up, whatever it makes of it.
LEMMA HandleKeyTook ==
  ASSUME NEW s \in Server, Distinct(s), NEW c \in Client, NEW k \in DOMAIN s.clients,
         s.clients[k].client_win = c, NEW m \in Message, NEW o
  PROVE  Took(s, HandleKey(s, c, m, o), c, k, m.n)
<1> DEFINE h == [s.handled EXCEPT ![c] = Append(@, m.n)]
<1>1. PICK g : g = [s EXCEPT !.handled[c] = Append(@, m.n)]
  OBVIOUS
<1>2. h \in [Client -> Seq(Number)]
  <2>1. s.handled \in [Client -> Seq(Number)] /\ m.n \in Number
    BY DEF Server, Message
  <2>2. Append(s.handled[c], m.n) \in Seq(Number)
    BY <2>1, AppendProperties
  <2> QED
    BY <2>1, <2>2
<1>3. /\ g.clients = s.clients /\ g.free = s.free /\ g.last = s.last
      /\ g.icid = s.icid /\ g.ic_free = s.ic_free /\ g.ic = s.ic /\ g.out = s.out
      /\ g.buf = s.buf /\ g.running = s.running /\ g.handled = h
  BY <1>1 DEF Server
<1>4. g \in Server
  BY <1>1, <1>2 DEF Server
<1> HIDE DEF h
<1>5. Works(s, g)
  BY <1>3, <1>4 DEF Works, Up, Linked
<1>6. Sends(s, g, {})
  BY <1>3 DEF Sends, NewAnswers
<1>7. Took(s, g, c, k, m.n)
  BY <1>3, <1>5, <1>6 DEF Took, h
<1>8. CASE m.icid \notin InUse(s.ic)
  BY <1>1, <1>7, <1>8 DEF HandleKey
<1>9. CASE m.icid \in InUse(s.ic)
  <2>1. PICK i : i = m.icid
    OBVIOUS
  <2>2. i \in InUse(g.ic)
    BY <1>3, <1>9, <2>1
  <2>3. PICK told : told = Commit(IF o.commit THEN CommitString(g, i) ELSE g)
    OBVIOUS
  <2>4. Serves(g, told, {}) /\ told.ic = g.ic
    BY <1>4, <2>2, <2>3, TextServes, CommitServes
  <2>5. told \in Server /\ told.clients = s.clients /\ i \in InUse(told.ic)
    BY <1>3, <2>2, <2>4 DEF Serves, Works
  <2>6. Took(s, told, c, k, m.n)
    BY <1>7, <2>4, TookThen
  <2>7. PICK b : b = Msg("FORWARD_EVENT", i, m.n)
    OBVIOUS
  <2>8. PICK u : u = IF o.ret = "off" THEN Disconnect(told, i)
                     ELSE IF o.ret = "back"
                     THEN ForwardBack(told, Connection(told, c), b)
                     ELSE told
    OBVIOUS
  <2>9. HandleKey(s, c, m, o) = CheckIcExist(u, i, o.due)
    BY <1>1, <1>9, <2>1, <2>3, <2>7, <2>8 DEF HandleKey, Forwarded
  <2>10. Took(s, u, c, k, m.n)
    <3>1. CASE o.ret = "off"
      BY <2>2, <2>5, <2>6, <2>8, <3>1, ConnectServes, TookThen
    <3>2. CASE o.ret # "off" /\ o.ret # "back"
      BY <2>6, <2>8, <3>2
    <3>3. CASE o.ret = "back"
      <4>1. b \in Message /\ b.op = "FORWARD_EVENT"
        <5>1. i \in Nat /\ m.n \in Number
          BY <2>1 DEF Message
        <5> QED
          BY <2>7, <5>1 DEF Msg, Message, Op, Synchronous
      <4>2. Distinct(told)
        BY <2>5 DEF Distinct
      <4>3. u = ForwardBack(told, Connection(told, c), b)
        BY <2>8, <3>3
      <4>4. /\ Works(told, u) /\ Sends(told, u, {}) /\ u.handled = told.handled
            /\ u.clients = [told.clients EXCEPT ![k] = [@ EXCEPT !.sync = TRUE]]
            /\ stage[c] = "dead" \/ Places(u.out[c], Synchronous) # {}
        BY <2>5, <4>1, <4>2, <4>3, BackTook, SMTT(20)
      <4>5. Works(s, u)
        BY <2>6, <4>4, WorksThen DEF Took
      <4>6. Sends(s, u, {} \cup {})
        BY <2>6, <4>4, SendsThen DEF Took
      <4> QED
        BY <2>5, <2>6, <4>4, <4>5, <4>6 DEF Took
    <3> QED
      BY <3>1, <3>2, <3>3
  <2>11. u \in Server
    BY <2>10 DEF Took, Works
  <2>12. Serves(u, CheckIcExist(u, i, o.due), {})
    BY <2>11, CheckServes
  <2> QED
    BY <2>9, <2>10, <2>12, TookThen
<1> QED
  BY <1>8, <1>9

\* A handler that changes one record attends, if no key is lost by it and the
\* connection does not wait in vain.
LEMMA RecordAttends ==
  ASSUME IInv, NEW c \in Client, Takes(c),
         Head(to_server[c]).op \notin {"XCONNECT", "DISCONNECT", "CREATE_IC", "CLOSE"},
         Works(Core, Core'), Sends(Core, Core', {}),
         NEW k \in DOMAIN clients, clients[k].client_win = c,
         NEW r \in Record, r.client_win = c, r.connect_id = clients[k].connect_id,
         clients' = [clients EXCEPT ![k] = r],
         \A d \in Client : d # c => handled'[d] = handled[d],
         handled'[c] \o Keys(r.pending) =
            (handled[c] \o Keys(clients[k].pending)) \o KeysOf(Head(to_server[c])),
         r.pending # <<>> => r.sync,
         r.sync /\ Alive(c) =>
            \/ clients[k].sync /\ Head(to_server[c]).op # "SYNC_REPLY"
            \/ Places(to_client'[c], Synchronous) # {}
  PROVE  IInv'
<1>1. Core' \in Server /\ UNCHANGED <<free_clients, connect_id>>
      /\ (Numbered(Core) => Numbered(Core')) /\ (Up(Core) => Up(Core'))
  BY WorksNumbered DEF Works, Core
<1>2. \A i \in Id : ic'[i].connect_id \in {ic[i].connect_id, NoId}
  BY DEF Works, Core
<1>3. Sends(Core, Core', {<<c, Head(to_server[c]).op>>})
  BY DEF Sends
<1>4. /\ DOMAIN clients' = DOMAIN clients
      /\ clients'[k] = r
      /\ \A l \in DOMAIN clients : l # k => clients'[l] = clients[l]
  OBVIOUS
<1>5. ASSUME NEW l \in DOMAIN clients
      PROVE  /\ clients'[l].client_win = clients[l].client_win
             /\ clients'[l].connect_id = clients[l].connect_id
             /\ handled'[clients[l].client_win] \o Keys(clients'[l].pending)
                    = (handled[clients[l].client_win] \o Keys(clients[l].pending)) \o
                      (IF clients[l].client_win = c THEN KeysOf(Head(to_server[c]))
                       ELSE <<>>)
             /\ clients'[l].pending # <<>> => clients'[l].sync
             /\ clients'[l].sync /\ Alive(clients[l].client_win) =>
                   \/ /\ clients[l].sync
                      /\ Head(to_server[c]).op # "SYNC_REPLY" \/ clients[l].client_win # c
                   \/ Places(to_client'[clients[l].client_win], Synchronous) # {}
  <2>1. CASE l = k
    BY <1>4, <2>1
  <2>2. CASE l # k
    <3>1. clients'[l] = clients[l]
      BY <1>4, <2>2
    <3>2. clients[l].client_win # c
      BY <2>2 DEF IInv, Listed, Core
    <3>3. /\ clients[l].client_win \in Client
          /\ handled[clients[l].client_win] \in Seq(Number)
          /\ Keys(clients[l].pending) \in Seq(Number)
      BY RecordTyped DEF IInv
    <3>4. \A x \in Seq(Number) : x \o <<>> = x
      BY ConcatEmptySeq
    <3>5. PICK x \in Seq(Number) :
              x = handled[clients[l].client_win] \o Keys(clients[l].pending)
      BY <3>3, ConcatProperties
    <3>6. handled'[clients[l].client_win] = handled[clients[l].client_win]
      BY <3>2, <3>3
    <3>7. clients[l].pending # <<>> => clients[l].sync
      BY DEF IInv, WaitHasAnswer
    <3> QED
      BY <3>1, <3>2, <3>4, <3>5, <3>6, <3>7
  <2> QED
    BY <2>1, <2>2
<1>6. \A d \in Client : ~HasRecord(d) => handled'[d] = handled[d]
  BY DEF HasRecord
<1>7. Attends(c)
  BY <1>1, <1>2, <1>3, <1>4, <1>5, <1>6 DEF Attends
<1> QED
  BY <1>7, AttendsKeeps

\* There are no keys among no messages.
LEMMA KeysNone == Keys(<<>>) = <<>> /\ <<>> \in Seq(Message) /\ <<>> \in Seq(Key)
                  /\ <<>> \in Seq(Number)
<1>1. <<>> \in Seq(Message) /\ <<>> \in Seq(Key) /\ <<>> \in Seq(Number)
  BY EmptySeq
<1>2. Places(<<>>, {"FORWARD_EVENT"}) = {}
  BY DEF Places
<1> QED
  BY <1>1, <1>2, KeysType

\* ForwardEventMessageProc(): the key is taken up, or goes to the end of those
\* held back.
LEMMA ForwardKeeps ==
  ASSUME IInv, NEW c \in Client, ForwardEvent(c)
  PROVE  IInv'
<1>1. /\ Takes(c) /\ Head(to_server[c]).op = "FORWARD_EVENT" /\ Core \in Server
      /\ RecordOf(Core, c) # 0 /\ Head(to_server[c]) \in Message
      /\ \A t : t \in Server /\ Store(t) => Core' = t
  BY Received1 DEF ForwardEvent
<1>2. PICK k : k = RecordOf(Core, c)
  OBVIOUS
<1>3. k \in DOMAIN clients /\ clients[k].client_win = c /\ Core.clients = clients
      /\ Core.handled = handled /\ Core.out = to_client
  BY <1>1, <1>2, RecordPlace DEF Core
<1>4. PICK m : m = Head(to_server[c])
  OBVIOUS
<1>5. m \in Key /\ m \in Message /\ m.n \in Number /\ KeysOf(m) = <<m.n>>
  BY <1>1, <1>4 DEF Key, Message, KeysOf
<1>6. PICK o : Store(Forward(Core, c, k, m, o))
  BY <1>2, <1>4 DEF ForwardEvent
<1>7. /\ clients[k] \in Record /\ clients[k].pending \in Seq(Key)
      /\ clients[k].pending \in Seq(Message)
      /\ Keys(clients[k].pending) \in Seq(Number) /\ handled[c] \in Seq(Number)
  BY <1>3, RecordTyped, PendingKeys DEF IInv
<1>8. PICK H \in Seq(Number) : H = handled[c]
  BY <1>7
<1>9. PICK q \in Seq(Key) : q = clients[k].pending /\ q \in Seq(Message)
  BY <1>7
<1>10. CASE clients[k].sync
  <2>1. PICK r : r = [clients[k] EXCEPT !.pending = Append(q, m)]
    OBVIOUS
  <2>2. PICK t : t = [Core EXCEPT !.clients = [clients EXCEPT ![k] = r]]
    OBVIOUS
  <2>3. Forward(Core, c, k, m, o) = t
    <3>1. Forward(Core, c, k, m, o) = AddQueue(Core, k, m)
      BY <1>3, <1>10 DEF Forward
    <3>2. AddQueue(Core, k, m) = [Core EXCEPT !.clients = [clients EXCEPT ![k] = r]]
      BY <1>3, <1>9, <2>1 DEF AddQueue
    <3> QED
      BY <2>2, <3>1, <3>2
  <2>4. Append(q, m) \in Seq(Key)
    BY <1>5, AppendProperties
  <2>5. r \in Record /\ r.client_win = c /\ r.connect_id = clients[k].connect_id
        /\ r.sync /\ r.pending = Append(q, m)
    BY <1>3, <1>7, <1>10, <2>1, <2>4 DEF Record
  <2>6. [clients EXCEPT ![k] = r] \in Seq(Record)
    BY <1>1, <1>3, <2>5, ExceptSeq DEF Server
  <2>7. /\ t.clients = [clients EXCEPT ![k] = r] /\ t.free = Core.free
        /\ t.last = Core.last /\ t.icid = Core.icid /\ t.ic_free = Core.ic_free
        /\ t.ic = Core.ic /\ t.out = Core.out /\ t.buf = Core.buf
        /\ t.running = Core.running /\ t.handled = Core.handled
    BY <2>2 DEF Core
  <2>8. t \in Server
    BY <1>1, <2>2, <2>6 DEF Server
  <2>9. Core' = t
    BY <1>1, <1>6, <2>3, <2>8
  <2>10. Linked(Core) => Linked(t)
    BY <1>3, <2>5, <2>7 DEF Linked
  <2>11. Works(Core, Core') /\ Sends(Core, Core', {})
    BY <2>7, <2>8, <2>9, <2>10 DEF Works, Up, Sends, NewAnswers
  <2>12. clients' = [clients EXCEPT ![k] = r] /\ handled' = handled
    BY <1>3, <2>7, <2>9 DEF Core
  <2>13. handled'[c] \o Keys(r.pending) =
            (handled[c] \o Keys(clients[k].pending)) \o KeysOf(m)
    <3>1. Keys(r.pending) = Append(Keys(q), m.n)
      BY <1>1, <1>4, <1>5, <1>9, <2>5, KeysAppend
    <3>2. PICK K \in Seq(Number) : K = Keys(q)
      BY <1>7, <1>9
    <3>3. H \o Append(K, m.n) = Append(H \o K, m.n)
      BY <1>5, ConcatAppend
    <3>4. H \o K \in Seq(Number)
      BY ConcatProperties
    <3>5. Append(H \o K, m.n) = (H \o K) \o <<m.n>>
      BY <1>5, <3>4, AppendIsConcat
    <3> QED
      BY <1>5, <1>8, <1>9, <2>12, <3>1, <3>2, <3>3, <3>5
  <2> QED
    BY <1>1, <1>3, <1>4, <1>10, <2>5, <2>11, <2>12, <2>13, RecordAttends
<1>11. CASE ~clients[k].sync
  <2>1. q = <<>>
    BY <1>3, <1>9, <1>11 DEF IInv, WaitHasAnswer
  <2>2. PICK t : t = HandleKey(Core, c, m, o)
    OBVIOUS
  <2>3. Distinct(Core)
    BY DEF IInv, Listed, Distinct
  <2>4. Took(Core, t, c, k, m.n)
    BY <1>1, <1>3, <1>5, <2>2, <2>3, HandleKeyTook
  <2>5. Core' = t
    BY <1>1, <1>3, <1>6, <1>11, <2>2, <2>4 DEF Forward, Took, Works
  <2>6. PICK r : r = clients'[k]
    OBVIOUS
  <2>7. /\ clients' = [clients EXCEPT ![k] = r] /\ r \in Record
        /\ r.client_win = c /\ r.connect_id = clients[k].connect_id
        /\ r.pending = <<>>
        /\ r.sync => stage[c] = "dead" \/ Places(to_client'[c], Synchronous) # {}
    <3>1. clients' = t.clients /\ to_client' = t.out
      BY <2>5 DEF Core
    <3>2. CASE t.clients = clients
      <4>1. clients \in Seq(Record)
        BY <1>1, <1>3 DEF Server
      <4>2. [clients EXCEPT ![k] = clients[k]] = clients
        BY <1>3, <4>1
      <4> QED
        BY <1>3, <1>7, <1>9, <1>11, <2>1, <2>6, <3>1, <3>2, <4>2
    <3>3. CASE /\ t.clients = [clients EXCEPT ![k] = [@ EXCEPT !.sync = TRUE]]
               /\ stage[c] = "dead" \/ Places(t.out[c], Synchronous) # {}
      <4>1. r = [clients[k] EXCEPT !.sync = TRUE]
        BY <1>3, <2>6, <3>1, <3>3
      <4> QED
        BY <1>3, <1>7, <1>9, <2>1, <3>1, <3>3, <4>1 DEF Record
    <3> QED
      BY <1>3, <2>4, <3>2, <3>3 DEF Took
  <2>8. handled' = [handled EXCEPT ![c] = Append(@, m.n)]
    BY <1>3, <2>4, <2>5 DEF Took, Core
  <2>9. handled'[c] = Append(H, m.n) /\ \A d \in Client : d # c => handled'[d] = handled[d]
    BY <1>1, <1>3, <1>8, <2>8 DEF Server
  <2>10. handled'[c] \o Keys(r.pending) =
            (handled[c] \o Keys(clients[k].pending)) \o KeysOf(m)
    <3>1. H \o <<>> = H
      BY ConcatEmptySeq
    <3>2. Append(H, m.n) \in Seq(Number) /\ Append(H, m.n) = H \o <<m.n>>
      BY <1>5, AppendIsConcat, AppendProperties
    <3>3. Append(H, m.n) \o <<>> = Append(H, m.n)
      BY <3>2, ConcatEmptySeq
    <3> QED
      BY <1>5, <1>8, <1>9, <2>1, <2>7, <2>9, <3>1, <3>2, <3>3, KeysNone
  <2>11. Works(Core, Core') /\ Sends(Core, Core', {})
    BY <2>4, <2>5 DEF Took
  <2>12. r.pending # <<>> => r.sync
    BY <2>7
  <2>13. r.sync /\ Alive(c) => Places(to_client'[c], Synchronous) # {}
    BY <2>7 DEF Alive
  <2> QED
    BY <1>1, <1>3, <1>4, <2>7, <2>9, <2>10, <2>11, <2>12, <2>13, RecordAttends
<1> QED
  BY <1>10, <1>11

\* One turn of ProcessQueue(): nothing while the connection waits.
TakeUp(u, c, k, m, o) ==
    IF u.clients[k].sync THEN u
    ELSE HandleKey([u EXCEPT !.clients[k].pending = Tail(@)], c, m, o)

IsAfter(f, s, c, k, q, os, N) ==
    f = [n \in 0 .. N |-> IF n = 0 THEN s ELSE TakeUp(f[n - 1], c, k, q[n], os[n])]

\* The function that ProcessQueue is defined by exists.
LEMMA AfterExists ==
  ASSUME NEW s, NEW c, NEW k, NEW q, NEW os
  PROVE  \A N \in Nat : \E f : IsAfter(f, s, c, k, q, os, N)
<1> DEFINE S == {N \in Nat : \E f : IsAfter(f, s, c, k, q, os, N)}
<1>1. 0 \in S
  <2>1. IsAfter([n \in 0 .. 0 |-> s], s, c, k, q, os, 0)
    BY DEF IsAfter
  <2> QED
    BY <2>1
<1>2. ASSUME NEW N \in Nat, N \in S PROVE N + 1 \in S
  <2>1. PICK f : IsAfter(f, s, c, k, q, os, N)
    BY <1>2
  <2> DEFINE more == TakeUp(f[N], c, k, q[N + 1], os[N + 1])
             g == [n \in 0 .. N + 1 |-> IF n = N + 1 THEN more ELSE f[n]]
  <2>2. \A n \in 0 .. N :
          f[n] = IF n = 0 THEN s ELSE TakeUp(f[n - 1], c, k, q[n], os[n])
    BY <2>1 DEF IsAfter
  <2>3. ASSUME NEW n \in 0 .. N + 1
        PROVE  g[n] = IF n = 0 THEN s ELSE TakeUp(g[n - 1], c, k, q[n], os[n])
    <3>1. CASE n = N + 1
      <4>1. g[n] = more /\ g[n - 1] = f[N] /\ n # 0
        BY <3>1
      <4> QED
        BY <3>1, <4>1
    <3>2. CASE n = 0
      BY <2>2, <3>2
    <3>3. CASE n \in 1 .. N
      <4>1. g[n] = f[n] /\ g[n - 1] = f[n - 1] /\ n # 0 /\ n \in 0 .. N
        BY <3>3
      <4> HIDE DEF g
      <4> QED
        BY <2>2, <4>1
    <3> QED
      BY <3>1, <3>2, <3>3
  <2>4. IsAfter(g, s, c, k, q, os, N + 1)
    <3>1. g = [n \in 0 .. N + 1 |-> g[n]]
      OBVIOUS
    <3> HIDE DEF g
    <3> QED
      BY <2>3, <3>1 DEF IsAfter
  <2> QED
    BY <2>4
<1> HIDE DEF S
<1>3. \A N \in Nat : N \in S
  BY <1>1, <1>2, SetInduction
<1> QED
  BY <1>3 DEF S

\* What holds after n turns: those given and those left are those that were
\* there, in order, and if any are left the connection waits.
Pushed(s, u, c, k, q, n) ==
    /\ Works(s, u)
    /\ Sends(s, u, {})
    /\ \A d \in Client : d # c => u.handled[d] = s.handled[d]
    /\ \E r \in Record :
          /\ u.clients = [s.clients EXCEPT ![k] = r]
          /\ r.client_win = c /\ r.connect_id = s.clients[k].connect_id
          /\ u.handled[c] \o Keys(r.pending) = s.handled[c] \o Keys(q)
          /\ ~r.sync => r.pending = SubSeq(q, n + 1, Len(q))
          /\ r.sync => stage[c] = "dead" \/ Places(u.out[c], Synchronous) # {}

\* One turn more.
LEMMA PushOne ==
  ASSUME NEW s \in Server, Distinct(s), NEW c \in Client, NEW k \in DOMAIN s.clients,
         s.clients[k].client_win = c, NEW q \in Seq(Key),
         NEW n \in Nat, n + 1 <= Len(q), NEW u, Pushed(s, u, c, k, q, n), NEW o
  PROVE  Pushed(s, TakeUp(u, c, k, q[n + 1], o), c, k, q, n + 1)
<1>1. PICK r \in Record :
          /\ u.clients = [s.clients EXCEPT ![k] = r]
          /\ r.client_win = c /\ r.connect_id = s.clients[k].connect_id
          /\ u.handled[c] \o Keys(r.pending) = s.handled[c] \o Keys(q)
          /\ ~r.sync => r.pending = SubSeq(q, n + 1, Len(q))
          /\ r.sync => stage[c] = "dead" \/ Places(u.out[c], Synchronous) # {}
  BY DEF Pushed
<1>2. /\ Works(s, u) /\ Sends(s, u, {}) /\ u \in Server
      /\ \A d \in Client : d # c => u.handled[d] = s.handled[d]
  BY DEF Pushed, Works
<1>3. u.clients[k] = r /\ DOMAIN u.clients = DOMAIN s.clients
      /\ u.clients \in Seq(Record)
  BY <1>1, <1>2 DEF Server
<1>4. CASE r.sync
  <2>1. TakeUp(u, c, k, q[n + 1], o) = u
    BY <1>3, <1>4 DEF TakeUp
  <2> QED
    BY <1>1, <1>2, <1>4, <2>1 DEF Pushed
<1>5. CASE ~r.sync
  <2>1. PICK m : m = q[n + 1]
    OBVIOUS
  <2>2. n + 1 \in 1 .. Len(q) /\ Len(q) \in n + 1 .. Len(q) /\ Len(q) \in Nat
    <3>1. Len(q) \in Nat
      OBVIOUS
    <3> QED
      BY <3>1
  <2>3. m \in Key /\ m \in Message /\ m.n \in Number /\ KeysOf(m) = <<m.n>>
    BY <2>1, <2>2, ElementOfSeq DEF Key, Message, KeysOf
  <2>4. PICK p : p = r.pending
    OBVIOUS
  <2>5. p \in Seq(Key) /\ p \in Seq(Message)
    BY <2>4, PendingKeys DEF Record
  <2>6. p = SubSeq(q, n + 1, Len(q))
    BY <1>1, <1>5, <2>4
  <2>7. /\ Head(p) = m /\ Tail(p) = SubSeq(q, (n + 1) + 1, Len(q))
        /\ p = <<q[n + 1]>> \o SubSeq(q, (n + 1) + 1, Len(q))
    BY <2>1, <2>2, <2>6, HeadTailOfSubSeq, SubSeqRecursiveFirst
  <2>8. p # <<>>
    <3>1. Len(p) = Len(q) - (n + 1) + 1
      <4>1. \A i \in n + 1 .. Len(q) : q[i] \in Key
        BY <2>2, ElementOfSeq
      <4>2. n + 1 \in Int /\ Len(q) \in Int
        BY <2>2
      <4> QED
        BY <2>2, <2>6, <4>1, <4>2, SubSeqProperties
    <3> QED
      BY <2>2, <3>1
  <2>9. Tail(p) \in Seq(Key)
    BY <2>5, <2>8, HeadTailProperties
  <2>10. PICK r1 : r1 = [r EXCEPT !.pending = Tail(p)]
    OBVIOUS
  <2>11. r1 \in Record /\ r1.client_win = c /\ r1.connect_id = r.connect_id
         /\ ~r1.sync /\ r1.pending = Tail(p)
    BY <1>1, <1>5, <2>9, <2>10 DEF Record
  <2>12. PICK v : v = [u EXCEPT !.clients = [u.clients EXCEPT ![k] = r1]]
    OBVIOUS
  <2>13. TakeUp(u, c, k, q[n + 1], o) = HandleKey(v, c, m, o)
    <3>1. [u EXCEPT !.clients[k].pending = Tail(@)] = v
      BY <1>3, <2>4, <2>10, <2>12
    <3> QED
      BY <1>3, <1>5, <2>1, <3>1 DEF TakeUp
  <2>14. /\ v.clients = [u.clients EXCEPT ![k] = r1] /\ v.free = u.free
         /\ v.last = u.last /\ v.icid = u.icid /\ v.ic_free = u.ic_free
         /\ v.ic = u.ic /\ v.out = u.out /\ v.buf = u.buf
         /\ v.running = u.running /\ v.handled = u.handled
    BY <1>2, <2>12 DEF Server
  <2>15. v.clients \in Seq(Record) /\ DOMAIN v.clients = DOMAIN s.clients
         /\ v.clients[k] = r1
         /\ \A l \in DOMAIN s.clients : l # k => v.clients[l] = s.clients[l]
    <3>1. k \in 1 .. Len(u.clients)
      BY <1>3
    <3>2. v.clients \in Seq(Record)
      BY <1>3, <2>11, <2>14, <3>1, ExceptSeq
    <3> QED
      BY <1>1, <1>3, <2>14, <3>2
  <2>16. v \in Server
    BY <1>2, <2>12, <2>14, <2>15 DEF Server
  <2>17. \A l \in DOMAIN s.clients :
            /\ v.clients[l].client_win = s.clients[l].client_win
            /\ v.clients[l].connect_id = s.clients[l].connect_id
            /\ v.clients[l].connect_id = u.clients[l].connect_id
    BY <1>1, <1>3, <2>11, <2>15
  <2>18. Distinct(v)
    BY <2>15, <2>17 DEF Distinct
  <2>19. Works(u, v)
    <3>1. Linked(u) => Linked(v)
      BY <1>3, <2>14, <2>15, <2>17 DEF Linked
    <3> QED
      BY <2>14, <2>16, <3>1 DEF Works, Up
  <2>20. Sends(u, v, {})
    BY <2>14 DEF Sends, NewAnswers
  <2>21. PICK t : t = HandleKey(v, c, m, o)
    OBVIOUS
  <2>22. Took(v, t, c, k, m.n)
    BY <2>3, <2>11, <2>15, <2>16, <2>18, <2>21, HandleKeyTook
  <2>23. Works(s, t)
    <3>1. Works(s, v)
      BY <1>2, <2>19, WorksThen
    <3> QED
      BY <2>22, <3>1, WorksThen DEF Took
  <2>24. Sends(s, t, {})
    <3>1. Sends(s, v, {} \cup {})
      BY <1>2, <2>20, SendsThen
    <3>2. Sends(s, v, {})
      BY <3>1
    <3>3. Sends(s, t, {} \cup {})
      BY <2>22, <3>2, SendsThen DEF Took
    <3> QED
      BY <3>3
  <2>25. /\ t.handled[c] = Append(u.handled[c], m.n)
         /\ \A d \in Client : d # c => t.handled[d] = s.handled[d]
    <3>1. PICK h : h = u.handled
      OBVIOUS
    <3>2. h \in [Client -> Seq(Number)]
      BY <1>2, <3>1 DEF Server
    <3>3. t.handled = [h EXCEPT ![c] = Append(h[c], m.n)]
      BY <2>14, <2>22, <3>1 DEF Took
    <3>4. t.handled[c] = Append(h[c], m.n) /\ \A d \in Client : d # c => t.handled[d] = h[d]
      BY <3>2, <3>3
    <3> QED
      BY <1>2, <3>1, <3>4
  <2>26. Append(u.handled[c], m.n) \o Keys(Tail(p)) = s.handled[c] \o Keys(q)
    <3>1. PICK H : H = u.handled[c]
      OBVIOUS
    <3>2. H \in Seq(Number)
      BY <1>2, <3>1 DEF Server
    <3>3. PICK K : K = Keys(Tail(p))
      OBVIOUS
    <3>4. K \in Seq(Number) /\ Keys(p) = <<m.n>> \o K
      BY <2>3, <2>5, <2>7, <2>8, <3>3, KeysTail
    <3>5. H \o (<<m.n>> \o K) = Append(H, m.n) \o K
      BY <2>3, <3>2, <3>4, MoveOver, SMTT(20)
    <3> QED
      BY <1>1, <2>4, <3>1, <3>3, <3>4, <3>5
  <2>27. PICK r2 : r2 = t.clients[k]
    OBVIOUS
  <2>28. /\ t.clients = [s.clients EXCEPT ![k] = r2] /\ r2 \in Record
         /\ r2.client_win = c /\ r2.connect_id = s.clients[k].connect_id
         /\ r2.pending = Tail(p)
         /\ r2.sync => stage[c] = "dead" \/ Places(t.out[c], Synchronous) # {}
    <3>1. v.clients = [s.clients EXCEPT ![k] = r1]
      BY <1>1, <2>14
    <3>2. CASE t.clients = v.clients
      BY <1>1, <2>11, <2>15, <2>27, <3>1, <3>2
    <3>3. CASE /\ t.clients = [v.clients EXCEPT ![k] = [@ EXCEPT !.sync = TRUE]]
               /\ stage[c] = "dead" \/ Places(t.out[c], Synchronous) # {}
      <4>1. PICK r3 : r3 = [r1 EXCEPT !.sync = TRUE]
        OBVIOUS
      <4>2. r3 \in Record /\ r3.client_win = c /\ r3.connect_id = r.connect_id
            /\ r3.pending = Tail(p)
        BY <2>11, <4>1 DEF Record
      <4>3. t.clients = [s.clients EXCEPT ![k] = r3]
        BY <2>15, <3>1, <3>3, <4>1
      <4>4. r2 = r3
        BY <2>27, <4>3
      <4> QED
        BY <1>1, <3>3, <4>2, <4>3, <4>4
    <3> QED
      BY <2>22, <3>2, <3>3 DEF Took
  <2>29. Pushed(s, t, c, k, q, n + 1)
    BY <2>7, <2>23, <2>24, <2>25, <2>26, <2>28 DEF Pushed
  <2> QED
    BY <2>13, <2>21, <2>29
<1> QED
  BY <1>4, <1>5

\* ProcessQueue() empties the queue, or stops when the connection waits again.
LEMMA QueuePushed ==
  ASSUME NEW s \in Server, Distinct(s), NEW c \in Client, NEW k \in DOMAIN s.clients,
         s.clients[k].client_win = c, NEW q, q = s.clients[k].pending,
         ~s.clients[k].sync, NEW os
  PROVE  Pushed(s, ProcessQueue(s, c, k, os), c, k, q, Len(q))
<1>1. s.clients[k] \in Record /\ q \in Seq(Key) /\ Len(q) \in Nat
  <2>1. s.clients[k] \in Record
    BY ElementOfSeq DEF Server
  <2>2. q \in Seq(Key)
    BY <2>1 DEF Record
  <2> QED
    BY <2>1, <2>2, LenProperties
<1>2. PICK f : IsAfter(f, s, c, k, q, os, Len(q)) /\ ProcessQueue(s, c, k, os) = f[Len(q)]
  <2> DEFINE f == CHOOSE g : IsAfter(g, s, c, k, s.clients[k].pending, os,
                                     Len(s.clients[k].pending))
  <2>1. Len(s.clients[k].pending) \in Nat
    BY <1>1
  <2>2. \E g : IsAfter(g, s, c, k, s.clients[k].pending, os, Len(s.clients[k].pending))
    BY <2>1, AfterExists
  <2>3. IsAfter(f, s, c, k, s.clients[k].pending, os, Len(s.clients[k].pending))
    BY <2>2
  <2>4. ProcessQueue(s, c, k, os) = f[Len(s.clients[k].pending)]
    BY DEF ProcessQueue, IsAfter, TakeUp
  <2> QED
    BY <2>3, <2>4
<1>3. \A n \in 0 .. Len(q) :
          f[n] = IF n = 0 THEN s ELSE TakeUp(f[n - 1], c, k, q[n], os[n])
  BY <1>2 DEF IsAfter
<1> DEFINE S == {n \in Nat : n <= Len(q) => Pushed(s, f[n], c, k, q, n)}
<1>4. 0 \in S
  <2>1. f[0] = s
    BY <1>1, <1>3
  <2>2. Works(s, s) /\ Sends(s, s, {})
    BY ServesSelf DEF Serves
  <2>3. s.clients = [s.clients EXCEPT ![k] = s.clients[k]]
    <3>1. s.clients \in Seq(Record)
      BY DEF Server
    <3> QED
      BY <3>1
  <2>4. SubSeq(q, 0 + 1, Len(q)) = q
    BY <1>1, SubSeqFull
  <2>5. Pushed(s, s, c, k, q, 0)
    BY <1>1, <2>2, <2>3, <2>4 DEF Pushed
  <2> QED
    BY <2>1, <2>5
<1>5. ASSUME NEW n \in Nat, n \in S PROVE n + 1 \in S
  <2> SUFFICES ASSUME n + 1 <= Len(q) PROVE Pushed(s, f[n + 1], c, k, q, n + 1)
    OBVIOUS
  <2>1. n <= Len(q) /\ n + 1 \in 0 .. Len(q) /\ n + 1 # 0 /\ (n + 1) - 1 = n
    BY <1>1
  <2>2. Pushed(s, f[n], c, k, q, n)
    BY <1>5, <2>1
  <2>3. f[n + 1] = TakeUp(f[n], c, k, q[n + 1], os[n + 1])
    BY <1>3, <2>1
  <2> QED
    BY <1>1, <2>2, <2>3, PushOne
<1> HIDE DEF S
<1>6. \A n \in Nat : n \in S
  BY <1>4, <1>5, SetInduction
<1>7. Pushed(s, f[Len(q)], c, k, q, Len(q))
  BY <1>1, <1>6 DEF S
<1> QED
  BY <1>2, <1>7

\* SyncReplyMessageProc()
LEMMA SyncKeeps ==
  ASSUME IInv, NEW c \in Client, SyncReply(c)
  PROVE  IInv'
<1>1. /\ Takes(c) /\ Head(to_server[c]).op = "SYNC_REPLY" /\ Core \in Server
      /\ RecordOf(Core, c) # 0 /\ Head(to_server[c]) \in Message
      /\ \A t : t \in Server /\ Store(t) => Core' = t
  BY Received1 DEF SyncReply
<1>2. PICK k : k = RecordOf(Core, c)
  OBVIOUS
<1>3. k \in DOMAIN clients /\ clients[k].client_win = c /\ Core.clients = clients
      /\ Core.handled = handled /\ Core.out = to_client
  BY <1>1, <1>2, RecordPlace DEF Core
<1>4. clients[k] \in Record /\ clients \in Seq(Record)
  BY <1>1, <1>3, RecordTyped DEF IInv, Server
<1>5. PICK r0 : r0 = [clients[k] EXCEPT !.sync = FALSE]
  OBVIOUS
<1>6. r0 \in Record /\ r0.client_win = c /\ r0.connect_id = clients[k].connect_id
      /\ ~r0.sync /\ r0.pending = clients[k].pending
  BY <1>3, <1>4, <1>5 DEF Record
<1>7. PICK s : s = [Core EXCEPT !.clients = [clients EXCEPT ![k] = r0]]
  OBVIOUS
<1>8. [Core EXCEPT !.clients[k].sync = FALSE] = s
  BY <1>3, <1>5, <1>7
<1>9. /\ s.clients = [clients EXCEPT ![k] = r0] /\ s.free = Core.free
      /\ s.last = Core.last /\ s.icid = Core.icid /\ s.ic_free = Core.ic_free
      /\ s.ic = Core.ic /\ s.out = Core.out /\ s.buf = Core.buf
      /\ s.running = Core.running /\ s.handled = Core.handled
  BY <1>7 DEF Core
<1>10. s.clients \in Seq(Record) /\ s.clients[k] = r0 /\ DOMAIN s.clients = DOMAIN clients
       /\ \A l \in DOMAIN clients : l # k => s.clients[l] = clients[l]
  <2>1. k \in 1 .. Len(clients)
    BY <1>3, <1>4
  <2>2. s.clients \in Seq(Record)
    BY <1>4, <1>6, <1>9, <2>1, ExceptSeq
  <2> QED
    BY <1>3, <1>9, <2>2
<1>11. s \in Server
  BY <1>1, <1>7, <1>10 DEF Server
<1>12. \A l \in DOMAIN clients : /\ s.clients[l].client_win = clients[l].client_win
                                 /\ s.clients[l].connect_id = clients[l].connect_id
  BY <1>3, <1>6, <1>10
<1>13. Distinct(s)
  BY <1>3, <1>10, <1>12 DEF Distinct, IInv, Listed
<1>14. Works(Core, s) /\ Sends(Core, s, {})
  <2>1. Linked(Core) => Linked(s)
    BY <1>3, <1>9, <1>10, <1>12 DEF Linked
  <2> QED
    BY <1>9, <1>11, <2>1 DEF Works, Up, Sends, NewAnswers
<1>15. PICK os : Store(ProcessQueue(s, c, k, os))
  BY <1>2, <1>8 DEF SyncReply
<1>16. PICK t : t = ProcessQueue(s, c, k, os)
  OBVIOUS
<1>17. PICK q : q = clients[k].pending
  OBVIOUS
<1>18. Pushed(s, t, c, k, q, Len(q))
  BY <1>3, <1>6, <1>10, <1>11, <1>13, <1>16, <1>17, QueuePushed
<1>19. Core' = t
  BY <1>1, <1>15, <1>16, <1>18 DEF Pushed, Works
<1>20. PICK r \in Record :
          /\ t.clients = [s.clients EXCEPT ![k] = r]
          /\ r.client_win = c /\ r.connect_id = s.clients[k].connect_id
          /\ t.handled[c] \o Keys(r.pending) = s.handled[c] \o Keys(q)
          /\ ~r.sync => r.pending = SubSeq(q, Len(q) + 1, Len(q))
          /\ r.sync => stage[c] = "dead" \/ Places(t.out[c], Synchronous) # {}
  BY <1>18 DEF Pushed
<1>21. r.pending # <<>> => r.sync
  <2>1. Len(q) \in Nat
    BY <1>4, <1>17 DEF Record
  <2>2. SubSeq(q, Len(q) + 1, Len(q)) = <<>>
    BY <2>1, SubSeqEmpty
  <2> QED
    BY <1>20, <2>2
<1>22. clients' = [clients EXCEPT ![k] = r] /\ handled' = t.handled
       /\ to_client' = t.out
  BY <1>9, <1>19, <1>20 DEF Core
<1>23. handled'[c] \o Keys(r.pending) =
          (handled[c] \o Keys(clients[k].pending)) \o KeysOf(Head(to_server[c]))
  <2>1. KeysOf(Head(to_server[c])) = <<>>
    BY <1>1 DEF KeysOf
  <2>2. PICK x : x = handled[c] \o Keys(clients[k].pending)
    OBVIOUS
  <2>3. x \in Seq(Number)
    <3>1. handled[c] \in Seq(Number) /\ Keys(clients[k].pending) \in Seq(Number)
      BY <1>3, RecordTyped DEF IInv
    <3> QED
      BY <2>2, <3>1, ConcatProperties
  <2>4. x \o <<>> = x
    BY <2>3, ConcatEmptySeq
  <2>5. s.handled = handled
    BY <1>3, <1>9
  <2> QED
    BY <1>17, <1>20, <1>22, <2>1, <2>2, <2>4, <2>5
<1>24. \A d \in Client : d # c => handled'[d] = handled[d]
  BY <1>3, <1>9, <1>18, <1>22 DEF Pushed
<1>25. r.sync /\ Alive(c) => Places(to_client'[c], Synchronous) # {}
  BY <1>20, <1>22 DEF Alive
<1>26. Works(Core, Core') /\ Sends(Core, Core', {})
  <2>1. Works(Core, t)
    BY <1>1, <1>14, <1>18, WorksThen DEF Pushed
  <2>2. Sends(Core, t, {} \cup {})
    BY <1>14, <1>18, SendsThen DEF Pushed
  <2>3. Sends(Core, t, {})
    BY <2>2
  <2> QED
    BY <1>19, <2>1, <2>3
<1>27. r.connect_id = clients[k].connect_id
  BY <1>6, <1>10, <1>20
<1> QED
  BY <1>1, <1>3, <1>20, <1>21, <1>22, <1>23, <1>24, <1>25, <1>26, <1>27, RecordAttends

----------------------------------------------------------------------------
(* Connections that are made and ended, and messages that nobody gets.     *)

\* What is lost is lost on nobody that has a record.
LEMMA LostKeeps ==
  ASSUME IInv, NEW c \in Client, Lost(c)
  PROVE  IInv'
<1>1. /\ to_server[c] \in Seq(Message) /\ to_server[c] # <<>> /\ Core \in Server
      /\ Head(to_server[c]).op # "XCONNECT" /\ RecordOf(Core, c) = 0
      /\ Takes(c)
  BY DEF IInv, Typed, Lost, Takes
<1>2. Core' = Core
  BY <1>1, Stored DEF Lost
<1>3. \A k \in DOMAIN clients : clients[k].client_win # c
  BY <1>1, RecordPlace DEF Core
<1>4. Head(to_server[c]).op # "DISCONNECT"
  <2> SUFFICES ASSUME Head(to_server[c]).op = "DISCONNECT" PROVE FALSE
    OBVIOUS
  <2>1. "DISCONNECT" \in Answered
    BY DEF Answered
  <2>2. /\ 1 \in Places(to_server[c], Answered) /\ to_server[c][1] = Head(to_server[c])
        /\ 1 \in Places(to_server[c], {"DISCONNECT"})
    BY <1>1, <2>1, PoppedPlaces
  <2>3. waits[c] = "DISCONNECT" /\ Sent(c, "DISCONNECT")
    BY <2>2 DEF IInv, Awaited, Sent
  <2>4. HasRecord(c)
    BY <2>3 DEF IInv, Staged
  <2> QED
    BY <1>3, <2>4 DEF HasRecord
<1>5. /\ clients' = clients /\ handled' = handled /\ ic' = ic /\ to_client' = to_client
      /\ UNCHANGED <<free_clients, connect_id>>
  BY <1>2 DEF Core
<1>6. ASSUME NEW k \in DOMAIN clients
      PROVE  /\ handled'[clients[k].client_win] \o Keys(clients'[k].pending)
                    = (handled[clients[k].client_win] \o Keys(clients[k].pending)) \o
                      (IF clients[k].client_win = c THEN KeysOf(Head(to_server[c]))
                       ELSE <<>>)
             /\ clients'[k].pending # <<>> => clients'[k].sync
  <2>1. /\ handled[clients[k].client_win] \in Seq(Number)
        /\ Keys(clients[k].pending) \in Seq(Number)
    BY RecordTyped DEF IInv
  <2>2. \A x \in Seq(Number) : x \o <<>> = x
    BY ConcatEmptySeq
  <2>3. PICK x \in Seq(Number) :
            x = handled[clients[k].client_win] \o Keys(clients[k].pending)
    BY <2>1, ConcatProperties
  <2>4. clients[k].pending # <<>> => clients[k].sync
    BY DEF IInv, WaitHasAnswer
  <2> QED
    BY <1>3, <1>5, <2>2, <2>3, <2>4
<1>7. Sends(Core, Core', {<<c, Head(to_server[c]).op>>})
  <2>1. Serves(Core, Core, {<<c, Head(to_server[c]).op>>})
    BY <1>1, ServesSelf
  <2> QED
    BY <1>2, <2>1 DEF Serves
<1>8. /\ Core' \in Server /\ (Numbered(Core) => Numbered(Core'))
      /\ (Up(Core) => Up(Core'))
  BY <1>1, <1>2
<1>9. Attends(c)
  BY <1>1, <1>3, <1>4, <1>5, <1>6, <1>7, <1>8 DEF Attends
<1> QED
  BY <1>9, AttendsKeeps

\* _Xi18nNewClient(): one record more, with a connect_id that nobody has.
LEMMA NewClientJoins ==
  ASSUME NEW s \in Server, Listed(s), NEW c \in Client,
         \A k \in DOMAIN s.clients : s.clients[k].client_win # c
  PROVE  LET t == NewClient(s, c)
         IN  /\ t \in Server /\ Listed(t)
             /\ t.ic = s.ic /\ t.ic_free = s.ic_free /\ t.icid = s.icid
             /\ t.buf = s.buf /\ t.running = s.running /\ t.out = s.out
             /\ t.handled = s.handled
             /\ \A k \in DOMAIN s.clients :
                   \E l \in DOMAIN t.clients : t.clients[l] = s.clients[k]
             /\ \A l \in DOMAIN t.clients :
                   \/ \E id \in Nat : t.clients[l] = Fresh(c, id)
                   \/ \E k \in DOMAIN s.clients : t.clients[l] = s.clients[k]
             /\ \E l \in DOMAIN t.clients, id \in Nat : t.clients[l] = Fresh(c, id)
<1> DEFINE id == IF s.free # <<>> THEN Head(s.free) ELSE s.last + 1
           free == IF s.free # <<>> THEN Tail(s.free) ELSE s.free
           last == IF s.free # <<>> THEN s.last ELSE s.last + 1
           list == <<Fresh(c, id)>> \o s.clients
           t == [s EXCEPT !.clients = list, !.free = free, !.last = last]
<1>1. NewClient(s, c) = t
  <2>1. CASE s.free # <<>>
    BY <2>1 DEF NewClient, Server
  <2>2. CASE s.free = <<>>
    BY <2>2 DEF NewClient, Server
  <2> QED
    BY <2>1, <2>2
<1>2. s.clients \in Seq(Record) /\ s.free \in Seq(Nat) /\ s.last \in Nat
  BY DEF Server
<1>3. /\ id \in 1 .. last /\ last \in Nat /\ s.last <= last
      /\ \A k \in DOMAIN s.clients : s.clients[k].connect_id # id
      /\ free \in Seq(Nat)
      /\ \A k \in DOMAIN free : \E j \in DOMAIN s.free : free[k] = s.free[j]
      /\ \A k \in DOMAIN free : free[k] # id
      /\ \A k, l \in DOMAIN free : free[k] = free[l] => k = l
  <2>1. CASE s.free # <<>>
    <3>1. /\ Head(s.free) = s.free[1] /\ Tail(s.free) \in Seq(Nat)
          /\ Len(Tail(s.free)) = Len(s.free) - 1
          /\ \A i \in 1 .. Len(Tail(s.free)) : Tail(s.free)[i] = s.free[i + 1]
      BY <1>2, <2>1, HeadTailProperties
    <3>2. Len(s.free) \in Nat /\ Len(s.free) > 0 /\ DOMAIN s.free = 1 .. Len(s.free)
          /\ DOMAIN Tail(s.free) = 1 .. Len(s.free) - 1
      BY <1>2, <2>1, <3>1
    <3>3. /\ 1 \in DOMAIN s.free
          /\ \A i \in DOMAIN Tail(s.free) :
                i + 1 \in DOMAIN s.free /\ i + 1 # 1 /\ i \in Nat
                /\ Tail(s.free)[i] = s.free[i + 1]
      BY <3>1, <3>2
    <3>4. /\ \A k \in DOMAIN s.free :
                /\ s.free[k] \in 1 .. s.last
                /\ \A l \in DOMAIN s.clients : s.clients[l].connect_id # s.free[k]
          /\ \A k, l \in DOMAIN s.free : s.free[k] = s.free[l] => k = l
      BY DEF Listed
    <3>5. \A k, l \in DOMAIN Tail(s.free) : Tail(s.free)[k] = Tail(s.free)[l] => k = l
      <4> SUFFICES ASSUME NEW k \in DOMAIN Tail(s.free), NEW l \in DOMAIN Tail(s.free),
                          Tail(s.free)[k] = Tail(s.free)[l]
                   PROVE  k = l
        OBVIOUS
      <4>1. k + 1 = l + 1 /\ k \in Nat /\ l \in Nat
        BY <3>3, <3>4
      <4> QED
        BY <4>1
    <3>6. \A k \in DOMAIN Tail(s.free) : Tail(s.free)[k] # Head(s.free)
      BY <3>1, <3>3, <3>4
    <3>7. id = Head(s.free) /\ free = Tail(s.free) /\ last = s.last
      BY <2>1
    <3> HIDE DEF id, free, last
    <3> QED
      BY <1>2, <3>1, <3>3, <3>4, <3>5, <3>6, <3>7, SMTT(20)
  <2>2. CASE s.free = <<>>
    <3>1. id = s.last + 1 /\ free = <<>> /\ last = s.last + 1
      BY <2>2
    <3>2. \A k \in DOMAIN s.clients : s.clients[k].connect_id \in 1 .. s.last
      BY DEF Listed
    <3>3. DOMAIN free = {}
      BY <3>1
    <3> HIDE DEF id, free, last
    <3> QED
      BY <1>2, <2>2, <3>1, <3>2, <3>3
  <2> QED
    BY <2>1, <2>2
<1> HIDE DEF id, free, last
<1>4. Fresh(c, id) \in Record /\ Fresh(c, id).client_win = c
      /\ Fresh(c, id).connect_id = id
  <2>1. <<>> \in Seq(Key)
    BY KeysNone
  <2> QED
    BY <1>3, <2>1 DEF Fresh, Record
<1>5. PICK e : e = Fresh(c, id)
  OBVIOUS
<1>6. /\ list \in Seq(Record) /\ 1 \in DOMAIN list /\ list[1] = e
      /\ \A k \in DOMAIN s.clients :
            k \in Nat /\ k + 1 \in DOMAIN list /\ list[k + 1] = s.clients[k]
      /\ \A l \in DOMAIN list :
            \/ l = 1
            \/ l \in Nat /\ l - 1 \in DOMAIN s.clients /\ list[l] = s.clients[l - 1]
  <2>1. <<e>> \in Seq(Record) /\ Len(<<e>>) = 1 /\ <<e>>[1] = e
    BY <1>4, <1>5
  <2>2. list = <<e>> \o s.clients
    BY <1>5
  <2> HIDE DEF list
  <2>3. /\ list \in Seq(Record) /\ Len(list) = 1 + Len(s.clients)
        /\ \A i \in 1 .. 1 + Len(s.clients) :
              list[i] = IF i <= 1 THEN <<e>>[i] ELSE s.clients[i - 1]
    BY <1>2, <2>1, <2>2, ConcatProperties
  <2>4. Len(s.clients) \in Nat /\ DOMAIN s.clients = 1 .. Len(s.clients)
        /\ DOMAIN list = 1 .. 1 + Len(s.clients)
    BY <1>2, <2>3
  <2> QED
    BY <2>1, <2>3, <2>4
<1> HIDE DEF list
<1>7. /\ t.clients = list /\ t.free = free /\ t.last = last
      /\ t.ic = s.ic /\ t.ic_free = s.ic_free /\ t.icid = s.icid
      /\ t.buf = s.buf /\ t.running = s.running /\ t.out = s.out
      /\ t.handled = s.handled
  BY DEF Server
<1>8. t \in Server
  BY <1>3, <1>6 DEF Server
<1> HIDE DEF t
<1>9. Listed(t)
  <2>1. ASSUME NEW k \in DOMAIN list, NEW l \in DOMAIN list
        PROVE  /\ list[k].client_win = list[l].client_win => k = l
               /\ list[k].connect_id = list[l].connect_id => k = l
    <3>1. CASE k = 1 /\ l = 1
      BY <3>1
    <3>2. CASE k = 1 /\ l # 1
      BY <1>3, <1>4, <1>5, <1>6, <3>2
    <3>3. CASE k # 1 /\ l = 1
      BY <1>3, <1>4, <1>5, <1>6, <3>3, ZenonT(30)
    <3>4. CASE k # 1 /\ l # 1
      <4>1. /\ k \in Nat /\ l \in Nat
            /\ k - 1 \in DOMAIN s.clients /\ list[k] = s.clients[k - 1]
            /\ l - 1 \in DOMAIN s.clients /\ list[l] = s.clients[l - 1]
        BY <1>6, <3>4
      <4>2. /\ s.clients[k - 1].client_win = s.clients[l - 1].client_win => k - 1 = l - 1
            /\ s.clients[k - 1].connect_id = s.clients[l - 1].connect_id => k - 1 = l - 1
        BY <4>1 DEF Listed
      <4> QED
        BY <4>1, <4>2
    <3> QED
      BY <3>1, <3>2, <3>3, <3>4
  <2>2. \A k \in DOMAIN s.clients : s.clients[k].connect_id \in 1 .. last
    BY <1>2, <1>3 DEF Listed
  <2>3. \A k \in DOMAIN list : list[k].connect_id \in 1 .. last
    BY <1>3, <1>4, <1>5, <1>6, <2>2
  <2>4. \A k \in DOMAIN free :
            /\ free[k] \in 1 .. last
            /\ \A l \in DOMAIN s.clients : s.clients[l].connect_id # free[k]
    BY <1>2, <1>3, SMTT(20) DEF Listed
  <2>5. ASSUME NEW k \in DOMAIN free, NEW l \in DOMAIN list
        PROVE  list[l].connect_id # free[k]
    <3>1. CASE l = 1
      <4>1. list[l].connect_id = id
        BY <1>4, <1>5, <1>6, <3>1
      <4> QED
        BY <1>3, <4>1
    <3>2. CASE l # 1
      <4>1. l - 1 \in DOMAIN s.clients /\ list[l] = s.clients[l - 1]
        BY <1>6, <3>2
      <4> QED
        BY <2>4, <4>1
    <3> QED
      BY <3>1, <3>2
  <2> QED
    BY <1>3, <1>7, <2>1, <2>3, <2>4, <2>5 DEF Listed
<1>10. id \in Nat
  BY <1>3
<1> QED
  BY <1>1, <1>5, <1>6, <1>7, <1>8, <1>9, <1>10

\* A sequence without its k-th element.
LEMMA Removed ==
  ASSUME NEW S, NEW q \in Seq(S), NEW k \in DOMAIN q
  PROVE  /\ RemoveAt(q, k) \in Seq(S)
         /\ \A l \in DOMAIN RemoveAt(q, k) :
               /\ l \in Nat
               /\ l < k => l \in DOMAIN q /\ RemoveAt(q, k)[l] = q[l]
               /\ l >= k => l + 1 \in DOMAIN q /\ RemoveAt(q, k)[l] = q[l + 1]
         /\ \A j \in DOMAIN q :
               /\ j < k => j \in DOMAIN RemoveAt(q, k) /\ RemoveAt(q, k)[j] = q[j]
               /\ j > k => j - 1 \in DOMAIN RemoveAt(q, k) /\ RemoveAt(q, k)[j - 1] = q[j]
<1>1. PICK L \in Nat : L = Len(q) /\ DOMAIN q = 1 .. L
  BY LenProperties
<1>2. k \in 1 .. L
  BY <1>1
<1> DEFINE a == SubSeq(q, 1, k - 1)
           b == SubSeq(q, k + 1, L)
<1>3. \A i \in 1 .. L : q[i] \in S
  BY <1>1
<1>4. /\ a \in Seq(S) /\ Len(a) = k - 1
      /\ \A i \in 1 .. k - 1 : a[i] = q[i]
  <2>1. 1 \in Int /\ k - 1 \in Int /\ \A i \in 1 .. k - 1 : q[i] \in S
    BY <1>2, <1>3
  <2>2. /\ a \in Seq(S)
        /\ Len(a) = IF 1 <= k - 1 THEN (k - 1) - 1 + 1 ELSE 0
        /\ \A i \in 1 .. (k - 1) - 1 + 1 : a[i] = q[1 + i - 1]
    BY <2>1, SubSeqProperties
  <2> QED
    BY <1>2, <2>2
<1>5. /\ b \in Seq(S) /\ Len(b) = L - k
      /\ \A i \in 1 .. L - k : b[i] = q[k + i]
  <2>1. k + 1 \in Int /\ L \in Int /\ \A i \in k + 1 .. L : q[i] \in S
    BY <1>2, <1>3
  <2>2. /\ b \in Seq(S)
        /\ Len(b) = IF k + 1 <= L THEN L - (k + 1) + 1 ELSE 0
        /\ \A i \in 1 .. L - (k + 1) + 1 : b[i] = q[(k + 1) + i - 1]
    BY <2>1, SubSeqProperties
  <2>3. /\ L - (k + 1) + 1 = L - k
        /\ ~(k + 1 <= L) => L - k = 0
        /\ \A i \in 1 .. L - k : (k + 1) + i - 1 = k + i
    BY <1>2
  <2>4. \A i \in 1 .. L - k : b[i] = q[k + i]
    BY <2>2, <2>3
  <2> QED
    BY <2>2, <2>3, <2>4
<1>6. RemoveAt(q, k) = a \o b
  BY <1>1 DEF RemoveAt
<1> HIDE DEF a, b
<1>7. /\ a \o b \in Seq(S) /\ Len(a \o b) = L - 1
      /\ \A i \in 1 .. L - 1 : (a \o b)[i] = IF i <= k - 1 THEN a[i] ELSE b[i - (k - 1)]
  <2>1. /\ a \o b \in Seq(S) /\ Len(a \o b) = Len(a) + Len(b)
        /\ \A i \in 1 .. Len(a) + Len(b) :
              (a \o b)[i] = IF i <= Len(a) THEN a[i] ELSE b[i - Len(a)]
    BY <1>4, <1>5, ConcatProperties
  <2>2. Len(a) + Len(b) = L - 1
    BY <1>2, <1>4, <1>5
  <2> QED
    BY <1>4, <2>1, <2>2
<1>8. DOMAIN (a \o b) = 1 .. L - 1
  BY <1>7, LenProperties
<1>9. \A i \in 1 .. L - 1 :
          /\ i < k => (a \o b)[i] = q[i]
          /\ i >= k => (a \o b)[i] = q[i + 1]
  <2> SUFFICES ASSUME NEW i \in 1 .. L - 1
               PROVE  /\ i < k => (a \o b)[i] = q[i]
                      /\ i >= k => (a \o b)[i] = q[i + 1]
    OBVIOUS
  <2>1. CASE i < k
    BY <1>2, <1>4, <1>7, <2>1
  <2>2. CASE i >= k
    <3>1. i - (k - 1) \in 1 .. L - k /\ k + (i - (k - 1)) = i + 1
      BY <1>2, <2>2
    <3>2. b[i - (k - 1)] = q[i + 1]
      BY <1>5, <3>1
    <3>3. ~(i <= k - 1)
      BY <1>2, <2>2
    <3>4. (a \o b)[i] = b[i - (k - 1)]
      BY <1>7, <3>3
    <3> QED
      BY <1>2, <2>2, <3>2, <3>4
  <2> QED
    BY <1>2, <2>1, <2>2
<1>10. \A l \in DOMAIN (a \o b) :
          /\ l \in Nat
          /\ l < k => l \in DOMAIN q /\ (a \o b)[l] = q[l]
          /\ l >= k => l + 1 \in DOMAIN q /\ (a \o b)[l] = q[l + 1]
  BY <1>1, <1>2, <1>8, <1>9
<1>11. \A j \in DOMAIN q :
          /\ j < k => j \in DOMAIN (a \o b) /\ (a \o b)[j] = q[j]
          /\ j > k => j - 1 \in DOMAIN (a \o b) /\ (a \o b)[j - 1] = q[j]
  BY <1>1, <1>2, <1>8, <1>9, SMTT(20)
<1> QED
  BY <1>6, <1>7, <1>10, <1>11

\* _Xi18nDeleteClient(): one record less.
LEMMA DeleteClientLeaves ==
  ASSUME NEW s \in Server, Listed(s), NEW k \in DOMAIN s.clients
  PROVE  LET t == DeleteClient(s, s.clients[k].connect_id)
         IN  /\ t \in Server /\ Listed(t)
             /\ t.ic = s.ic /\ t.ic_free = s.ic_free /\ t.icid = s.icid
             /\ t.buf = s.buf /\ t.running = s.running /\ t.out = s.out
             /\ t.handled = s.handled
             /\ \A j \in DOMAIN s.clients : j # k =>
                   \E l \in DOMAIN t.clients : t.clients[l] = s.clients[j]
             /\ \A l \in DOMAIN t.clients :
                   \E j \in DOMAIN s.clients : j # k /\ t.clients[l] = s.clients[j]
<1>1. PICK id : id = s.clients[k].connect_id
  OBVIOUS
<1>2. s.clients \in Seq(Record) /\ s.free \in Seq(Nat) /\ s.last \in Nat
  BY DEF Server
<1>3. id \in Nat
  <2>1. s.clients[k] \in Record
    BY <1>2, ElementOfSeq
  <2> QED
    BY <1>1, <2>1 DEF Record
<1>4. FindClient(s, id) = k
  BY <1>1, FindPlace DEF Listed
<1> DEFINE list == RemoveAt(s.clients, k)
           free == <<id>> \o s.free
           t == [s EXCEPT !.clients = list, !.free = free]
<1>5. DeleteClient(s, id) = t
  BY <1>4 DEF DeleteClient
<1>6. /\ list \in Seq(Record)
      /\ \A l \in DOMAIN list :
            /\ l \in Nat
            /\ l < k => l \in DOMAIN s.clients /\ list[l] = s.clients[l]
            /\ l >= k => l + 1 \in DOMAIN s.clients /\ list[l] = s.clients[l + 1]
      /\ \A j \in DOMAIN s.clients :
            /\ j < k => j \in DOMAIN list /\ list[j] = s.clients[j]
            /\ j > k => j - 1 \in DOMAIN list /\ list[j - 1] = s.clients[j]
  BY <1>2, Removed
<1>7. k \in Nat /\ \A j \in DOMAIN s.clients : j \in Nat
  BY <1>2
<1>8. /\ free \in Seq(Nat) /\ 1 \in DOMAIN free /\ free[1] = id
      /\ \A i \in DOMAIN s.free : i \in Nat /\ i + 1 \in DOMAIN free /\ free[i + 1] = s.free[i]
      /\ \A i \in DOMAIN free :
            \/ i = 1
            \/ i \in Nat /\ i - 1 \in DOMAIN s.free /\ free[i] = s.free[i - 1]
  <2>1. <<id>> \in Seq(Nat) /\ Len(<<id>>) = 1 /\ <<id>>[1] = id
    BY <1>3
  <2>2. /\ free \in Seq(Nat) /\ Len(free) = 1 + Len(s.free)
        /\ \A i \in 1 .. 1 + Len(s.free) :
              free[i] = IF i <= 1 THEN <<id>>[i] ELSE s.free[i - 1]
    BY <1>2, <2>1, ConcatProperties
  <2> HIDE DEF free
  <2>3. Len(s.free) \in Nat /\ DOMAIN s.free = 1 .. Len(s.free)
        /\ DOMAIN free = 1 .. 1 + Len(s.free)
    BY <1>2, <2>2
  <2>4. 1 \in DOMAIN free /\ free[1] = id
    BY <2>1, <2>2, <2>3
  <2>5. ASSUME NEW i \in DOMAIN s.free
        PROVE  i \in Nat /\ i + 1 \in DOMAIN free /\ free[i + 1] = s.free[i]
    <3>1. i \in Nat /\ i + 1 \in 1 .. 1 + Len(s.free) /\ ~(i + 1 <= 1) /\ (i + 1) - 1 = i
      BY <2>3
    <3> QED
      BY <2>2, <2>3, <3>1
  <2>6. ASSUME NEW i \in DOMAIN free, i # 1
        PROVE  i \in Nat /\ i - 1 \in DOMAIN s.free /\ free[i] = s.free[i - 1]
    BY <2>2, <2>3, <2>6
  <2> QED
    BY <2>2, <2>4, <2>5, <2>6
<1> HIDE DEF list, free
<1>9. /\ t.clients = list /\ t.free = free /\ t.last = s.last
      /\ t.ic = s.ic /\ t.ic_free = s.ic_free /\ t.icid = s.icid
      /\ t.buf = s.buf /\ t.running = s.running /\ t.out = s.out
      /\ t.handled = s.handled
  BY DEF Server
<1>10. t \in Server
  BY <1>6, <1>8 DEF Server
<1> HIDE DEF t
<1>11. \A l \in DOMAIN list :
          \E j \in DOMAIN s.clients : j # k /\ list[l] = s.clients[j]
  <2> SUFFICES ASSUME NEW l \in DOMAIN list
               PROVE  \E j \in DOMAIN s.clients : j # k /\ list[l] = s.clients[j]
    OBVIOUS
  <2>1. CASE l < k
    BY <1>6, <1>7, <2>1
  <2>2. CASE l >= k
    BY <1>6, <1>7, <2>2
  <2> QED
    BY <1>6, <1>7, <2>1, <2>2
<1>12. \A j \in DOMAIN s.clients : j # k => \E l \in DOMAIN list : list[l] = s.clients[j]
  <2> SUFFICES ASSUME NEW j \in DOMAIN s.clients, j # k
               PROVE  \E l \in DOMAIN list : list[l] = s.clients[j]
    OBVIOUS
  <2>1. j < k \/ j > k
    BY <1>7
  <2> QED
    BY <1>6, <2>1
<1>13. Listed(t)
  <2>1. ASSUME NEW l \in DOMAIN list, NEW m \in DOMAIN list
        PROVE  /\ list[l].client_win = list[m].client_win => l = m
               /\ list[l].connect_id = list[m].connect_id => l = m
    <3>1. PICK x : x = IF l < k THEN l ELSE l + 1
      OBVIOUS
    <3>2. PICK y : y = IF m < k THEN m ELSE m + 1
      OBVIOUS
    <3>3. x \in DOMAIN s.clients /\ list[l] = s.clients[x]
      BY <1>6, <1>7, <3>1
    <3>4. y \in DOMAIN s.clients /\ list[m] = s.clients[y]
      BY <1>6, <1>7, <3>2
    <3>5. x = y => l = m
      BY <1>6, <1>7, <3>1, <3>2
    <3> QED
      BY <3>3, <3>4, <3>5 DEF Listed
  <2>2. \A l \in DOMAIN list : list[l].connect_id \in 1 .. s.last /\ list[l].connect_id # id
    BY <1>1, <1>11 DEF Listed
  <2>3. \A i \in DOMAIN free :
            /\ free[i] \in 1 .. s.last
            /\ \A l \in DOMAIN list : list[l].connect_id # free[i]
    <3> SUFFICES ASSUME NEW i \in DOMAIN free
                 PROVE  /\ free[i] \in 1 .. s.last
                        /\ \A l \in DOMAIN list : list[l].connect_id # free[i]
      OBVIOUS
    <3>1. CASE i = 1
      BY <1>1, <1>8, <2>2, <3>1 DEF Listed
    <3>2. CASE i # 1
      <4>1. i - 1 \in DOMAIN s.free /\ free[i] = s.free[i - 1]
        BY <1>8, <3>2
      <4> QED
        BY <1>11, <4>1 DEF Listed
    <3> QED
      BY <3>1, <3>2
  <2>4. ASSUME NEW i \in DOMAIN free, NEW j \in DOMAIN free, free[i] = free[j]
        PROVE  i = j
    <3>1. \A x \in DOMAIN s.free : s.free[x] # id
      BY <1>1 DEF Listed
    <3>2. CASE i = 1 \/ j = 1
      BY <1>8, <2>4, <3>1, <3>2
    <3>3. CASE i # 1 /\ j # 1
      <4>1. /\ i \in Nat /\ i - 1 \in DOMAIN s.free /\ free[i] = s.free[i - 1]
            /\ j \in Nat /\ j - 1 \in DOMAIN s.free /\ free[j] = s.free[j - 1]
        BY <1>8, <3>3
      <4>2. i - 1 = j - 1
        BY <2>4, <4>1 DEF Listed
      <4> QED
        BY <4>1, <4>2
    <3> QED
      BY <3>2, <3>3
  <2> QED
    BY <1>9, <2>1, <2>2, <2>3, <2>4 DEF Listed
<1> QED
  BY <1>1, <1>5, <1>9, <1>10, <1>11, <1>12, <1>13

\* What is left under way when the request that is waited for is taken.
LEMMA RequestTaken ==
  ASSUME IInv, NEW c \in Client, Takes(c), Head(to_server[c]).op \in Answered
  PROVE  /\ waits[c] = Head(to_server[c]).op
         /\ Sent(c, Head(to_server[c]).op)
         /\ to_server[c][1] = Head(to_server[c]) /\ 1 \in DOMAIN to_server[c]
         /\ Places(to_server'[c], Answered) = {}
         /\ to_server[c] \in Seq(Message) /\ to_server[c] # <<>>
         /\ to_server'[c] = Tail(to_server[c])
         /\ \A d \in Client : d # c => to_server'[d] = to_server[d]
<1>1. /\ to_server[c] \in Seq(Message) /\ to_server[c] # <<>>
      /\ to_server'[c] = Tail(to_server[c])
      /\ \A d \in Client : d # c => to_server'[d] = to_server[d]
  BY DEF IInv, Typed, Takes
<1>2. /\ 1 \in Places(to_server[c], Answered) /\ to_server[c][1] = Head(to_server[c])
      /\ 1 \in Places(to_server[c], {Head(to_server[c]).op})
  BY <1>1, PoppedPlaces
<1>3. waits[c] = Head(to_server[c]).op /\ Places(to_server[c], Answered) = {1}
  BY <1>2 DEF IInv, Awaited
<1>4. ASSUME NEW n \in Places(Tail(to_server[c]), Answered) PROVE FALSE
  <2>1. n \in Nat \ {0} /\ n + 1 \in Places(to_server[c], Answered)
    BY <1>1, <1>4, PoppedPlaces
  <2> QED
    BY <1>3, <2>1
<1> QED
  BY <1>1, <1>2, <1>3, <1>4 DEF Sent, Places

\* What is typed stays typed.
LEMMA TakesTyped ==
  ASSUME IInv, NEW c \in Client, Takes(c), Core' \in Server
  PROVE  Typed'
<1>1. to_server' \in [Client -> Seq(Message)]
  <2>1. to_server[c] \in Seq(Message) /\ to_server[c] # <<>>
    BY DEF IInv, Typed, Takes
  <2>2. Tail(to_server[c]) \in Seq(Message)
    BY <2>1, Popped
  <2> QED
    BY <2>2 DEF IInv, Typed, Takes
<1>2. UNCHANGED <<stage, waits, held, mask, typed>>
  BY DEF Takes, clientVars
<1> QED
  BY <1>1, <1>2 DEF IInv, Typed

\* A step that makes or ends the connection of c, and leaves those of others.
OthersKept(c) ==
    /\ \A l \in DOMAIN clients' :
          \/ /\ clients'[l].client_win = c /\ clients'[l].pending = <<>>
             /\ clients'[l].sync = FALSE
          \/ /\ \E k \in DOMAIN clients : clients'[l] = clients[k]
             /\ clients'[l].client_win # c
    /\ \A d \in Client : d # c => handled'[d] = handled[d]

\* The keys of the others stay in order,
LEMMA OthersInOrder ==
  ASSUME IInv, NEW c \in Client, Takes(c), OthersKept(c),
         HasRecord(c)' =>
            handled'[c] = <<>> /\ Keys(to_server'[c]) = <<>> /\ typed[c] = 0
  PROVE  KeysInOrder'
<1> SUFFICES ASSUME NEW d \in Client, NEW l \in DOMAIN clients',
                    clients'[l].client_win = d
             PROVE  handled'[d] \o Keys(clients'[l].pending) \o Keys(to_server'[d])
                        = [n \in 1 .. typed'[d] |-> n]
  BY Zenon DEF KeysInOrder, Keys
<1>1. /\ typed' = typed
      /\ \A e \in Client : e # c => to_server'[e] = to_server[e]
  BY DEF IInv, Typed, Takes, clientVars
<1>2. CASE d = c
  <2>1. clients'[l].pending = <<>>
    BY <1>2 DEF OthersKept
  <2>2. HasRecord(c)'
    BY <1>2 DEF HasRecord
  <2>3. <<>> \o <<>> \o <<>> = [n \in 1 .. 0 |-> n]
    OBVIOUS
  <2> QED
    BY <1>1, <1>2, <2>1, <2>2, <2>3, KeysNone
<1>3. CASE d # c
  <2>1. PICK k \in DOMAIN clients : clients'[l] = clients[k]
    BY <1>3 DEF OthersKept
  <2>2. handled[d] \o Keys(clients[k].pending) \o Keys(to_server[d])
            = [n \in 1 .. typed[d] |-> n]
    BY <2>1 DEF IInv, KeysInOrder
  <2> QED
    BY <1>1, <1>3, <2>1, <2>2 DEF OthersKept
<1> QED
  BY <1>2, <1>3

\* and they go on having something to wait for.
LEMMA OthersWait ==
  ASSUME IInv, NEW c \in Client, Takes(c), OthersKept(c),
         NEW A, Sends(Core, Core', A)
  PROVE  WaitHasAnswer'
<1> SUFFICES ASSUME NEW l \in DOMAIN clients'
             PROVE  LET d == clients'[l].client_win
                    IN  /\ clients'[l].pending # <<>> => clients'[l].sync
                        /\ clients'[l].sync /\ stage'[d] # "dead" =>
                              \/ Places(to_client'[d], Synchronous) # {}
                              \/ Places(to_server'[d], {"SYNC_REPLY"}) # {}
  BY DEF WaitHasAnswer, Alive
<1>1. /\ stage' = stage
      /\ \A e \in Client : e # c => to_server'[e] = to_server[e]
  BY DEF IInv, Typed, Takes, clientVars
<1>2. CASE clients'[l].client_win = c
  BY <1>2 DEF OthersKept
<1>3. CASE clients'[l].client_win # c
  <2>1. PICK k \in DOMAIN clients : clients'[l] = clients[k]
    BY <1>3 DEF OthersKept
  <2>2. PICK d \in Client : d = clients[k].client_win
    BY RecordTyped DEF IInv
  <2>3. /\ clients[k].pending # <<>> => clients[k].sync
        /\ clients[k].sync /\ stage[d] # "dead" =>
              \/ Places(to_client[d], Synchronous) # {}
              \/ Places(to_server[d], {"SYNC_REPLY"}) # {}
    BY <2>2 DEF IInv, WaitHasAnswer, Alive
  <2>4. Places(to_client[d], Synchronous) \subseteq Places(to_client'[d], Synchronous)
    <3>1. Places(Core.out[d], Synchronous) \subseteq Places(Core'.out[d], Synchronous)
      BY SendsGrow
    <3> QED
      BY <3>1 DEF Core
  <2> QED
    BY <1>1, <1>3, <2>1, <2>2, <2>3, <2>4
<1> QED
  BY <1>2, <1>3

\* ReadXConnectMessage(): the client gets its record.
LEMMA ReadXConnectKeeps ==
  ASSUME IInv, NEW c \in Client, ReadXConnect(c)
  PROVE  IInv'
<1>1. /\ Takes(c) /\ Head(to_server[c]).op = "XCONNECT" /\ Core \in Server
      /\ \A t : t \in Server /\ Store(t) => Core' = t
  BY Received1 DEF ReadXConnect
<1>2. "XCONNECT" \in Answered
  BY DEF Answered
<1>3. /\ waits[c] = "XCONNECT" /\ Sent(c, "XCONNECT")
      /\ Places(to_server'[c], Answered) = {}
      /\ to_server[c] \in Seq(Message) /\ to_server[c] # <<>>
      /\ to_server'[c] = Tail(to_server[c])
      /\ \A d \in Client : d # c => to_server'[d] = to_server[d]
  BY <1>1, <1>2, RequestTaken
<1>4. ~HasRecord(c) /\ stage[c] = "off" /\ typed[c] = 0
  BY <1>3 DEF IInv, Staged
<1>5. Core.clients = clients /\ Core.handled = handled /\ Core.out = to_client
      /\ Core.ic = ic
  BY DEF Core
<1>6. PICK t : t = NewClient(Core, c)
  OBVIOUS
<1>7. /\ t \in Server /\ Listed(t)
      /\ t.ic = ic /\ t.ic_free = Core.ic_free /\ t.icid = Core.icid
      /\ t.buf = Core.buf /\ t.running = Core.running /\ t.out = to_client
      /\ t.handled = handled
      /\ \A k \in DOMAIN clients :
            \E l \in DOMAIN t.clients : t.clients[l] = clients[k]
      /\ \A l \in DOMAIN t.clients :
            \/ \E id \in Nat : t.clients[l] = Fresh(c, id)
            \/ \E k \in DOMAIN clients : t.clients[l] = clients[k]
      /\ \E l \in DOMAIN t.clients, id \in Nat : t.clients[l] = Fresh(c, id)
  <2>1. \A k \in DOMAIN Core.clients : Core.clients[k].client_win # c
    BY <1>4, <1>5 DEF HasRecord
  <2>2. Listed(Core)
    BY DEF IInv
  <2> QED
    BY <1>1, <1>5, <1>6, <2>1, <2>2, NewClientJoins
<1>8. \A id : /\ Fresh(c, id).client_win = c /\ Fresh(c, id).pending = <<>>
              /\ Fresh(c, id).sync = FALSE
  BY DEF Fresh
<1>9. PICK m : m = Msg("XCONNECT", NoId, 0)
  OBVIOUS
<1>10. m \in Message /\ m.op = "XCONNECT"
  BY <1>9, Small DEF Msg, Message, Op, Answered, NoId
<1>11. PICK u : u = Answer(t, c, m)
  OBVIOUS
<1>12. Serves(t, u, {<<c, "XCONNECT">>})
  <2>1. RecordOf(t, c) # 0
    BY <1>7, <1>8, RecordPlace
  <2> QED
    BY <1>7, <1>10, <1>11, <2>1, AnswerServes
<1>13. Core' = u /\ u \in Server
  BY <1>1, <1>6, <1>9, <1>11, <1>12 DEF ReadXConnect, Serves, Works
<1>14. /\ clients' = t.clients /\ handled' = handled
       /\ free_clients' = t.free /\ connect_id' = t.last
       /\ \A i \in Id : ic'[i].connect_id \in {ic[i].connect_id, NoId}
  BY <1>7, <1>12, <1>13 DEF Serves, Works, Core
<1>15. UNCHANGED <<stage, waits, typed>>
  BY <1>1 DEF Takes, clientVars
<1>16. Sends(Core, Core', {<<c, Head(to_server[c]).op>>})
  BY <1>1, <1>5, <1>7, <1>12, <1>13 DEF Serves, Sends, NewAnswers
<1>17. /\ \A k \in DOMAIN clients : \E l \in DOMAIN clients' : clients'[l] = clients[k]
       /\ \A l \in DOMAIN clients' :
            \/ /\ clients'[l].client_win = c /\ clients'[l].pending = <<>>
               /\ clients'[l].sync = FALSE
            \/ /\ \E k \in DOMAIN clients : clients'[l] = clients[k]
               /\ clients'[l].client_win # c
       /\ HasRecord(c)'
       /\ \A d \in Client : d # c => (HasRecord(d)' <=> HasRecord(d))
  <2>1. \A k \in DOMAIN clients : clients[k].client_win # c
    BY <1>4 DEF HasRecord
  <2>2. \A k \in DOMAIN clients : \E l \in DOMAIN clients' : clients'[l] = clients[k]
    BY <1>7, <1>14
  <2>3. \A l \in DOMAIN clients' :
            \/ /\ clients'[l].client_win = c /\ clients'[l].pending = <<>>
               /\ clients'[l].sync = FALSE
            \/ /\ \E k \in DOMAIN clients : clients'[l] = clients[k]
               /\ clients'[l].client_win # c
    BY <1>7, <1>8, <1>14, <2>1
  <2>4. HasRecord(c)'
    BY <1>7, <1>8, <1>14 DEF HasRecord
  <2>5. \A d \in Client : d # c => (HasRecord(d)' <=> HasRecord(d))
    BY <2>2, <2>3 DEF HasRecord
  <2> QED
    BY <2>2, <2>3, <2>4, <2>5
<1>18. Typed'
  BY <1>1, <1>13, TakesTyped
<1>19. Listed(Core)'
  BY <1>7, <1>14 DEF Listed, Core
<1>20. Numbered(Core)' /\ Up(Core)'
  <2>1. Numbered(t)
    BY <1>5, <1>7 DEF IInv, Numbered
  <2>2. Up(t)
    <3>1. Linked(Core) => Linked(t)
      BY <1>5, <1>7 DEF Linked
    <3> QED
      BY <1>7, <3>1 DEF IInv, Up
  <2> QED
    BY <1>12, <1>13, <2>1, <2>2, WorksNumbered DEF Serves, Works
<1>21. \A d \in Client : Awaited(d)'
  BY <1>1, <1>16, TakesAwaited DEF IInv
<1>22. ASSUME NEW d \in Client PROVE Staged(d)'
  <2>1. CASE d = c
    <3>1. ~Sent(c, "XCONNECT")'
      BY <1>2, <1>3 DEF Sent, Places
    <3> QED
      BY <1>3, <1>4, <1>15, <1>17, <2>1, <3>1 DEF Staged, None
  <2>2. CASE d # c
    BY <1>3, <1>15, <1>17, <2>2 DEF IInv, Staged, Sent
  <2> QED
    BY <2>1, <2>2
<1>23. ASSUME NEW d \in Client PROVE Cleaned(d)'
  <2>1. CASE d = c
    <3>1. ~Closed(c)'
      BY <1>3, <1>4, <1>15 DEF Closed
    <3> QED
      BY <2>1, <3>1 DEF Cleaned
  <2>2. CASE d # c
    <3>1. Closed(d)' <=> Closed(d)
      BY <1>3, <1>15, <2>2 DEF Closed, Sent
    <3>2. \A k \in DOMAIN clients : clients[k].connect_id # NoId
      BY <1>5 DEF IInv, Listed, NoId
    <3>3. Cleaned(d)
      BY DEF IInv
    <3> QED
      BY <1>14, <1>17, <2>2, <3>1, <3>2, <3>3 DEF Cleaned
  <2> QED
    BY <2>1, <2>2
<1>24. ASSUME NEW d \in Client PROVE KeysPlaced(d)'
  <2>1. KeysPlaced(d)
    BY DEF IInv
  <2>2. CASE d = c
    <3>1. PICK q \in Seq(Message) : q = to_server[c]
      BY <1>3
    <3>2. \A n, h \in DOMAIN q :
              n < h /\ q[n].op = "DISCONNECT" => q[h].op # "FORWARD_EVENT"
      BY <2>1, <2>2, <3>1 DEF KeysPlaced
    <3>3. \A n, h \in DOMAIN Tail(q) :
              n < h /\ Tail(q)[n].op = "DISCONNECT" => Tail(q)[h].op # "FORWARD_EVENT"
      BY <1>3, <3>1, <3>2, TailPlaced
    <3>4. HasRecord(d)'
      BY <1>17, <2>2 DEF HasRecord
    <3>5. to_server'[d] = Tail(q)
      BY <1>3, <2>2, <3>1
    <3> QED
      BY <3>3, <3>4, <3>5 DEF KeysPlaced
  <2>3. CASE d # c
    BY <1>3, <1>14, <1>17, <2>1, <2>3 DEF KeysPlaced
  <2> QED
    BY <2>2, <2>3
<1>25. KeysInOrder' /\ WaitHasAnswer'
  <2>1. /\ Takes(c) /\ Sends(Core, Core', {<<c, Head(to_server[c]).op>>})
        /\ OthersKept(c)
    BY <1>1, <1>14, <1>16, <1>17 DEF OthersKept
  <2>2. handled'[c] = <<>> /\ Keys(to_server'[c]) = <<>> /\ typed[c] = 0
    BY <1>3, <1>4, <1>14, TailPlaced DEF IInv, KeysPlaced
  <2> QED
    BY <2>1, <2>2, OthersInOrder, OthersWait
<1> QED
  BY <1>18, <1>19, <1>20, <1>21, <1>22, <1>23, <1>24, <1>25 DEF IInv

\* DisConnectMessageProc(): the client is answered, and its record goes.
LEMMA DisConnectKeeps ==
  ASSUME IInv, NEW c \in Client, DisConnect(c)
  PROVE  IInv'
<1>1. /\ Takes(c) /\ Head(to_server[c]).op = "DISCONNECT" /\ Core \in Server
      /\ RecordOf(Core, c) # 0
      /\ \A t : t \in Server /\ Store(t) => Core' = t
  BY Received1 DEF DisConnect
<1>2. "DISCONNECT" \in Answered
  BY DEF Answered
<1>3. /\ waits[c] = "DISCONNECT" /\ Sent(c, "DISCONNECT")
      /\ Places(to_server'[c], Answered) = {}
      /\ to_server[c] \in Seq(Message) /\ to_server[c] # <<>>
      /\ to_server[c][1] = Head(to_server[c]) /\ 1 \in DOMAIN to_server[c]
      /\ to_server'[c] = Tail(to_server[c])
      /\ \A d \in Client : d # c => to_server'[d] = to_server[d]
  BY <1>1, <1>2, RequestTaken
<1>4. HasRecord(c) /\ stage[c] \in {"closed", "dead"}
  BY <1>3 DEF IInv, Staged
<1>5. Core.clients = clients /\ Core.handled = handled /\ Core.out = to_client
      /\ Core.ic = ic /\ Core.free = free_clients /\ Core.last = connect_id
  BY DEF Core
<1>6. PICK k \in DOMAIN clients : k = RecordOf(Core, c) /\ clients[k].client_win = c
  BY <1>1, <1>5, RecordPlace
<1>7. \A i \in Id : ic[i].connect_id # clients[k].connect_id
  <2>1. Closed(c)
    BY <1>3 DEF Closed
  <2> QED
    BY <1>6, <2>1 DEF IInv, Cleaned
<1>8. PICK m : m = Msg("DISCONNECT", NoId, 0)
  OBVIOUS
<1>9. m \in Message /\ m.op = "DISCONNECT"
  BY <1>8, Small DEF Msg, Message, Op, Answered, NoId
<1>10. PICK a : a = Answer(Core, c, m)
  OBVIOUS
<1>11. Serves(Core, a, {<<c, "DISCONNECT">>}) /\ a.ic = ic
  BY <1>1, <1>5, <1>9, <1>10, AnswerServes
<1>12. /\ a \in Server /\ Listed(a) /\ Numbered(a) /\ Up(a)
       /\ a.clients = clients /\ a.handled = handled
  <2>1. /\ a \in Server /\ a.clients = clients /\ a.handled = handled
        /\ a.free = free_clients /\ a.last = connect_id /\ Works(Core, a)
    BY <1>5, <1>11 DEF Serves, Works
  <2>2. Listed(Core) /\ Numbered(Core) /\ Up(Core)
    BY DEF IInv
  <2>3. Listed(a)
    BY <1>5, <2>1, <2>2 DEF Listed
  <2> QED
    BY <2>1, <2>2, <2>3, WorksNumbered DEF Works
<1>13. PICK t : t = DeleteClient(a, a.clients[k].connect_id)
  OBVIOUS
<1>14. /\ t \in Server /\ Listed(t)
       /\ t.ic = a.ic /\ t.ic_free = a.ic_free /\ t.icid = a.icid
       /\ t.buf = a.buf /\ t.running = a.running /\ t.out = a.out
       /\ t.handled = a.handled
       /\ \A j \in DOMAIN clients : j # k =>
             \E l \in DOMAIN t.clients : t.clients[l] = clients[j]
       /\ \A l \in DOMAIN t.clients :
             \E j \in DOMAIN clients : j # k /\ t.clients[l] = clients[j]
  BY <1>12, <1>13, DeleteClientLeaves
<1>15. PICK u : u = [t EXCEPT !.handled[c] = <<>>]
  OBVIOUS
<1>16. /\ u \in Server
       /\ u.clients = t.clients /\ u.free = t.free /\ u.last = t.last
       /\ u.ic = t.ic /\ u.ic_free = t.ic_free /\ u.icid = t.icid
       /\ u.buf = t.buf /\ u.running = t.running /\ u.out = t.out
       /\ u.handled = [t.handled EXCEPT ![c] = <<>>]
  <2>1. <<>> \in Seq(Number)
    OBVIOUS
  <2> QED
    BY <1>14, <1>15, <2>1 DEF Server
<1>17. Core' = u
  <2>1. u = [Gone(Core, c) EXCEPT !.handled[c] = <<>>]
    BY <1>5, <1>6, <1>8, <1>10, <1>12, <1>13, <1>15 DEF Gone, Connection
  <2> QED
    BY <1>1, <1>16, <2>1 DEF DisConnect
<1>18. /\ clients' = t.clients /\ free_clients' = t.free /\ connect_id' = t.last
       /\ ic' = ic /\ handled' = [handled EXCEPT ![c] = <<>>]
       /\ ic_free' = a.ic_free /\ icid' = a.icid
  BY <1>11, <1>12, <1>14, <1>16, <1>17 DEF Core
<1>19. UNCHANGED <<stage, waits, typed>>
  BY <1>1 DEF Takes, clientVars
<1>20. Sends(Core, Core', {<<c, Head(to_server[c]).op>>})
  BY <1>1, <1>5, <1>11, <1>14, <1>16, <1>17 DEF Serves, Sends, NewAnswers
<1>21. \A j \in DOMAIN clients : j # k <=> clients[j].client_win # c
  BY <1>5, <1>6 DEF IInv, Listed
<1>22. /\ \A j \in DOMAIN clients : clients[j].client_win # c =>
              \E l \in DOMAIN clients' : clients'[l] = clients[j]
       /\ \A l \in DOMAIN clients' :
              /\ \E j \in DOMAIN clients : clients'[l] = clients[j]
              /\ clients'[l].client_win # c
       /\ ~HasRecord(c)'
       /\ \A d \in Client : d # c => (HasRecord(d)' <=> HasRecord(d))
  <2>1. \A j \in DOMAIN clients : clients[j].client_win # c =>
              \E l \in DOMAIN clients' : clients'[l] = clients[j]
    BY <1>14, <1>18, <1>21
  <2>2. \A l \in DOMAIN clients' :
              /\ \E j \in DOMAIN clients : clients'[l] = clients[j]
              /\ clients'[l].client_win # c
    BY <1>14, <1>18, <1>21
  <2>3. ~HasRecord(c)'
    BY <2>2 DEF HasRecord
  <2>4. \A d \in Client : d # c => (HasRecord(d)' <=> HasRecord(d))
    BY <2>1, <2>2 DEF HasRecord
  <2> QED
    BY <2>1, <2>2, <2>3, <2>4
<1>23. Typed'
  BY <1>1, <1>16, <1>17, TakesTyped
<1>24. Listed(Core)'
  BY <1>14, <1>18 DEF Listed, Core
<1>25. Numbered(Core)' /\ Up(Core)'
  <2>1. Numbered(u)
    BY <1>12, <1>14, <1>16 DEF Numbered
  <2>2. Up(u)
    <3>1. Linked(a) => Linked(u)
      <4> SUFFICES ASSUME Linked(a), NEW i \in InUse(u.ic)
                   PROVE  \E l \in DOMAIN u.clients :
                              u.clients[l].connect_id = u.ic[i].connect_id
        BY DEF Linked
      <4>1. i \in InUse(a.ic) /\ i \in Id /\ u.ic[i] = ic[i] /\ a.ic[i] = ic[i]
        BY <1>11, <1>14, <1>16 DEF InUse
      <4>2. PICK j \in DOMAIN clients : clients[j].connect_id = ic[i].connect_id
        BY <1>12, <4>1 DEF Linked
      <4>3. j # k
        BY <1>7, <4>1, <4>2
      <4> QED
        BY <1>14, <1>16, <4>1, <4>2, <4>3
    <3> QED
      BY <1>12, <1>14, <1>16, <3>1 DEF Up
  <2> QED
    BY <1>17, <2>1, <2>2
<1>26. \A d \in Client : Awaited(d)'
  BY <1>1, <1>20, TakesAwaited DEF IInv
<1>27. ASSUME NEW d \in Client PROVE Staged(d)'
  <2>1. CASE d = c
    <3>1. ~Sent(c, "DISCONNECT")'
      BY <1>2, <1>3 DEF Sent, Places
    <3>2. "DISCONNECT" \notin {None, "XCONNECT"}
      BY DEF None
    <3> QED
      BY <1>3, <1>4, <1>19, <1>22, <2>1, <3>1, <3>2 DEF Staged
  <2>2. CASE d # c
    BY <1>3, <1>19, <1>22, <2>2 DEF IInv, Staged, Sent
  <2> QED
    BY <2>1, <2>2
<1>28. ASSUME NEW d \in Client PROVE Cleaned(d)'
  <2>1. CASE d = c
    BY <1>22, <2>1 DEF Cleaned
  <2>2. CASE d # c
    <3>1. Closed(d)' <=> Closed(d)
      BY <1>3, <1>19, <2>2 DEF Closed, Sent
    <3>2. Cleaned(d)
      BY DEF IInv
    <3> QED
      BY <1>18, <1>22, <2>2, <3>1, <3>2 DEF Cleaned
  <2> QED
    BY <2>1, <2>2
<1>29. Keys(to_server'[c]) = <<>>
  <2>1. PICK q \in Seq(Message) : q = to_server[c] /\ q # <<>> /\ q[1] = Head(q)
    BY <1>3
  <2>2. Tail(q) \in Seq(Message) /\ \A n \in DOMAIN Tail(q) :
            n \in Nat \ {0} /\ n + 1 \in DOMAIN q /\ Tail(q)[n] = q[n + 1]
    BY <2>1, Popped
  <2>3. \A n \in DOMAIN q : 1 < n => q[n].op # "FORWARD_EVENT"
    BY <1>1, <1>3, <2>1 DEF IInv, KeysPlaced
  <2>4. ASSUME NEW n \in DOMAIN Tail(q) PROVE Tail(q)[n].op # "FORWARD_EVENT"
    BY <2>2, <2>3
  <2> QED
    BY <1>3, <2>1, <2>2, <2>4, KeysType DEF Places
<1>30. ASSUME NEW d \in Client PROVE KeysPlaced(d)'
  <2>1. KeysPlaced(d)
    BY DEF IInv
  <2>2. CASE d = c
    <3>1. PICK q \in Seq(Message) : q = to_server[c]
      BY <1>3
    <3>2. \A n, m2 \in DOMAIN q :
              n < m2 /\ q[n].op = "DISCONNECT" => q[m2].op # "FORWARD_EVENT"
      BY <2>1, <2>2, <3>1 DEF KeysPlaced
    <3>3. \A n, m2 \in DOMAIN Tail(q) :
              n < m2 /\ Tail(q)[n].op = "DISCONNECT" => Tail(q)[m2].op # "FORWARD_EVENT"
      BY <1>3, <3>1, <3>2, TailPlaced
    <3>4. to_server'[d] = Tail(q) /\ Keys(Tail(q)) = <<>>
      BY <1>3, <1>29, <2>2, <3>1
    <3>5. handled'[d] = <<>>
      BY <1>18, <2>2, <1>1 DEF Core, Server
    <3> QED
      BY <3>3, <3>4, <3>5 DEF KeysPlaced
  <2>3. CASE d # c
    BY <1>3, <1>18, <1>22, <2>1, <2>3 DEF KeysPlaced
  <2> QED
    BY <2>2, <2>3
<1>31. KeysInOrder' /\ WaitHasAnswer'
  <2>1. OthersKept(c)
    BY <1>18, <1>22 DEF OthersKept
  <2> QED
    BY <1>1, <1>20, <1>22, <2>1, OthersInOrder, OthersWait
<1> QED
  BY <1>23, <1>24, <1>25, <1>26, <1>27, <1>28, <1>30, <1>31 DEF IInv

\* Whatever message the server takes.
LEMMA ServeKeeps ==
  ASSUME IInv, NEW c \in Client, Serve(c)
  PROVE  IInv'
<1>1. ASSUME NEW op \in Queries, Query(c, op) PROVE IInv'
  BY <1>1, QueryKeeps
<1>2. CASE ConnectMessage(c) \/ QueryExtension(c) \/ EncodingNegotiation(c)
             \/ GetIMValues(c)
  BY <1>1, <1>2 DEF ConnectMessage, QueryExtension, EncodingNegotiation,
     GetIMValues, Queries
<1>3. CASE ReadXConnect(c) \/ Open(c) \/ Close(c) \/ DisConnect(c)
  BY <1>3, ReadXConnectKeeps, OpenKeeps, CloseKeeps, DisConnectKeeps
<1>4. CASE CreateIC(c) \/ DestroyIC(c) \/ SetICValues(c) \/ GetICValues(c)
             \/ ResetIC(c)
  BY <1>4, CreateKeeps, DestroyKeeps, SetICValuesKeeps, GetICValuesKeeps, ResetKeeps
<1>5. CASE SetICFocus(c) \/ UnsetICFocus(c) \/ TriggerNotify(c)
  BY <1>5, SetFocusKeeps, UnsetFocusKeeps, TriggerKeeps
<1>6. CASE ForwardEvent(c) \/ SyncReply(c) \/ Lost(c)
  BY <1>6, ForwardKeeps, SyncKeeps, LostKeeps
<1> QED
  BY <1>2, <1>3, <1>4, <1>5, <1>6 DEF Serve

----------------------------------------------------------------------------
(* The steps of the clients.                                               *)

\* A client changes nothing at the server.
LEMMA ServerStays ==
  ASSUME IInv, UNCHANGED serverVars, to_client' \in [Client -> Seq(Message)]
  PROVE  /\ Core' \in Server
         /\ Listed(Core)' /\ Numbered(Core)' /\ Up(Core)'
         /\ \A d \in Client : HasRecord(d)' <=> HasRecord(d)
         /\ clients' = clients /\ handled' = handled /\ ic' = ic
<1>1. UNCHANGED <<clients, free_clients, connect_id, ic, ic_free, icid, commit_buf,
                  running, handled>>
  BY DEF serverVars
<1>2. Core' \in Server
  BY <1>1 DEF IInv, Typed, Core, Server
<1>3. Listed(Core)'
  BY <1>1 DEF IInv, Listed, Core
<1>4. Numbered(Core)'
  BY <1>1 DEF IInv, Numbered, Core
<1>5. Up(Core)'
  BY <1>1 DEF IInv, Up, Linked, Core
<1>6. \A d \in Client : HasRecord(d)' <=> HasRecord(d)
  BY <1>1 DEF HasRecord
<1> QED
  BY <1>1, <1>2, <1>3, <1>4, <1>5, <1>6

\* A client that awaits nothing sends m.
Asks(c, m) ==
    /\ m \in Message /\ waits[c] = None
    /\ to_server' = [to_server EXCEPT ![c] = Append(@, m)]
    /\ UNCHANGED <<to_client, serverVars, stage>>
    /\ held' \in [Client -> SUBSET Nat] /\ mask' \in [Client -> SUBSET Nat]
    /\ waits' = IF m.op \in Answered THEN [waits EXCEPT ![c] = m.op] ELSE waits
    /\ \/ /\ m.op = "XCONNECT" /\ stage[c] = "off"
          /\ typed' = [typed EXCEPT ![c] = 0]
       \/ /\ <<stage[c], m.op>> \in {<<"known", "OPEN">>, <<"open", "CLOSE">>,
                                     <<"closed", "DISCONNECT">>}
          /\ typed' = typed
       \/ /\ m.op \notin {"XCONNECT", "OPEN", "CLOSE", "DISCONNECT", "FORWARD_EVENT"}
          /\ stage[c] = "open"
          /\ typed' = typed
       \/ /\ m.op = "FORWARD_EVENT" /\ m.n = typed[c] + 1
          /\ stage[c] = "open"
          /\ typed' = [typed EXCEPT ![c] = @ + 1]

\* Nothing that is answered is under way to or from a client that awaits nothing.
LEMMA NothingAwaited ==
  ASSUME IInv, NEW c \in Client, waits[c] = None
  PROVE  Places(to_server[c], Answered) = {} /\ Places(to_client[c], Answered) = {}
<1>1. None \notin Answered
  BY DEF None, Answered, Queries
<1>2. \A n \in Places(to_server[c], Answered) : to_server[c][n].op \in Answered
  BY DEF Places
<1>3. \A n \in Places(to_client[c], Answered) : to_client[c][n].op \in Answered
  BY DEF Places
<1> QED
  BY <1>1, <1>2, <1>3 DEF IInv, Awaited

\* What a client sends when it awaits nothing keeps the invariant.
LEMMA AsksKeeps ==
  ASSUME IInv, NEW c \in Client, NEW m, Asks(c, m)
  PROVE  IInv'
<1>1. /\ m \in Message /\ waits[c] = None
      /\ to_server[c] \in Seq(Message)
      /\ to_server'[c] = Append(to_server[c], m)
      /\ \A d \in Client : d # c => to_server'[d] = to_server[d]
      /\ to_client' = to_client /\ stage' = stage
      /\ \A d \in Client : d # c => waits'[d] = waits[d]
      /\ \A d \in Client : d # c => typed'[d] = typed[d]
      /\ waits'[c] = IF m.op \in Answered THEN m.op ELSE None
  BY DEF IInv, Typed, Asks
<1>2. /\ Core' \in Server
      /\ Listed(Core)' /\ Numbered(Core)' /\ Up(Core)'
      /\ \A d \in Client : HasRecord(d)' <=> HasRecord(d)
      /\ clients' = clients /\ handled' = handled /\ ic' = ic
  <2>1. to_client' \in [Client -> Seq(Message)]
    BY <1>1 DEF IInv, Typed, Core, Server
  <2> QED
    BY <2>1, ServerStays DEF Asks
<1>3. Places(to_server[c], Answered) = {} /\ Places(to_client[c], Answered) = {}
  BY <1>1, NothingAwaited
<1>4. {"XCONNECT", "OPEN", "CLOSE", "DISCONNECT"} \subseteq Answered
      /\ None \notin Answered
  BY DEF None, Answered, Queries
<1>5. PICK q \in Seq(Message) : q = to_server[c]
  BY <1>1
<1>6. /\ \A n \in DOMAIN Append(q, m) :
            /\ n \in Nat
            /\ \/ n \in DOMAIN q /\ Append(q, m)[n] = q[n]
               \/ n = Len(q) + 1 /\ Append(q, m)[n] = m
      /\ \A n \in DOMAIN q : n \in Nat /\ n < Len(q) + 1
      /\ Append(q, m) \in Seq(Message) /\ Len(q) + 1 \in DOMAIN Append(q, m)
      /\ Append(q, m)[Len(q) + 1] = m
  <2>1. /\ Append(q, m) \in Seq(Message)
        /\ Len(Append(q, m)) = Len(q) + 1 /\ Len(q) \in Nat
        /\ \A n \in 1 .. Len(q) : Append(q, m)[n] = q[n]
        /\ Append(q, m)[Len(q) + 1] = m
        /\ DOMAIN q = 1 .. Len(q)
    BY <1>1, AppendProperties, LenProperties
  <2>2. DOMAIN Append(q, m) = 1 .. Len(q) + 1
    BY <2>1
  <2>3. \A n \in DOMAIN Append(q, m) : n \in Nat /\ (n \in 1 .. Len(q) \/ n = Len(q) + 1)
    BY <2>1, <2>2
  <2>4. \A n \in DOMAIN q : n \in Nat /\ n < Len(q) + 1
    BY <2>1
  <2>5. Len(q) + 1 \in DOMAIN Append(q, m)
    BY <2>1, <2>2
  <2> QED
    BY <2>1, <2>3, <2>4, <2>5
<1>7. Typed'
  <2>1. to_server' \in [Client -> Seq(Message)]
    BY <1>1, <1>5, <1>6 DEF IInv, Typed, Asks
  <2>2. waits' \in [Client -> Answered \cup {None}]
    BY DEF IInv, Typed, Asks
  <2>3. typed' \in [Client -> Nat]
    <3>1. typed \in [Client -> Nat] /\ typed[c] + 1 \in Nat
      BY DEF IInv, Typed
    <3> QED
      BY <3>1 DEF Asks
  <2> QED
    BY <1>1, <1>2, <2>1, <2>2, <2>3 DEF IInv, Typed, Asks
<1>8. \A op \in Answered : Sent(c, op)' <=> op = m.op
  <2> SUFFICES ASSUME NEW op \in Answered PROVE Sent(c, op)' <=> op = m.op
    OBVIOUS
  <2>1. \A n \in DOMAIN q : q[n].op # op
    BY <1>3, <1>5 DEF Places
  <2> QED
    BY <1>1, <1>5, <1>6, <2>1 DEF Sent, Places
<1>9. ASSUME NEW d \in Client PROVE Awaited(d)'
  <2>1. Awaited(d)
    BY DEF IInv
  <2>2. CASE d # c
    BY <1>1, <2>1, <2>2 DEF Awaited
  <2>3. CASE d = c
    <3>1. \A n \in Places(Append(q, m), Answered) :
              n = Len(q) + 1 /\ Append(q, m)[n] = m /\ m.op \in Answered
      BY <1>3, <1>5, <1>6 DEF Places
    <3>2. \A n \in Places(Append(q, m), Answered) :
              /\ Append(q, m)[n].op = waits'[c]
              /\ Places(Append(q, m), Answered) = {n}
      BY <1>1, <3>1
    <3> QED
      BY <1>1, <1>3, <1>5, <2>1, <2>3, <3>2 DEF Awaited
  <2> QED
    BY <2>2, <2>3
<1>10. ASSUME NEW d \in Client PROVE Staged(d)'
  <2>1. Staged(d) /\ typed[d] \in Nat
    BY DEF IInv, Typed
  <2>2. CASE d # c
    BY <1>1, <1>2, <2>1, <2>2 DEF Staged, Sent
  <2>3. CASE d = c /\ m.op \in Answered
    <3>1. waits'[c] = m.op /\ waits'[c] # None /\ stage'[c] = stage[c]
      BY <1>1, <1>4, <2>3
    <3>2. CASE m.op = "XCONNECT"
      <4>1. stage[c] = "off" /\ typed'[c] = 0
        BY <1>4, <3>2 DEF Asks, IInv, Typed
      <4>2. ~HasRecord(c)
        BY <1>1, <2>1, <2>3, <4>1 DEF Staged
      <4> QED
        BY <1>2, <1>4, <1>8, <2>3, <3>1, <3>2, <4>1, <4>2 DEF Staged
    <3>3. CASE m.op # "XCONNECT"
      <4>1. /\ stage[c] \in {"known", "open", "closed"}
            /\ m.op = "OPEN" => stage[c] = "known"
            /\ m.op = "CLOSE" => stage[c] = "open"
            /\ m.op = "DISCONNECT" => stage[c] = "closed"
            /\ m.op \notin {"OPEN", "CLOSE", "DISCONNECT"} => stage[c] = "open"
        BY <3>3 DEF Asks
      <4>2. HasRecord(c)
        BY <1>1, <1>4, <2>1, <2>3, <4>1 DEF Staged
      <4> QED
        BY <1>2, <1>4, <1>8, <2>3, <3>1, <3>3, <4>1, <4>2 DEF Staged
    <3> QED
      BY <3>2, <3>3
  <2>4. CASE d = c /\ m.op \notin Answered
    <3>1. waits' = waits /\ stage[c] = "open"
      BY <1>4, <2>4 DEF Asks
    <3> QED
      BY <1>1, <1>2, <1>4, <2>1, <2>4, <3>1 DEF Staged
  <2> QED
    BY <2>2, <2>3, <2>4
<1>11. ASSUME NEW d \in Client PROVE Cleaned(d)'
  <2>1. Closed(d)' => Closed(d)
    <3>1. CASE d # c
      BY <1>1, <3>1 DEF Closed, Sent
    <3>2. CASE d = c
      <4>1. stage'[c] = stage[c]
        BY <1>1
      <4>2. waits'[c] = "CLOSE" => Sent(c, "CLOSE")'
        BY <1>1, <1>4, <1>8
      <4>3. waits'[c] = "DISCONNECT" => stage[c] = "closed"
        BY <1>1, <1>4 DEF Asks
      <4> QED
        BY <3>2, <4>1, <4>2, <4>3 DEF Closed
    <3> QED
      BY <3>1, <3>2
  <2> QED
    BY <1>2, <2>1 DEF IInv, Cleaned
<1>12. m.op = "FORWARD_EVENT" => HasRecord(c)
  <2>1. m.op = "FORWARD_EVENT" => stage[c] = "open"
    BY DEF Asks
  <2> QED
    BY <1>1, <1>4, <2>1 DEF IInv, Staged
<1>13. Keys(Append(q, m)) = IF m.op = "FORWARD_EVENT" THEN Append(Keys(q), m.n)
                            ELSE Keys(q)
  BY <1>1, KeysAppend
<1>14. ASSUME NEW d \in Client PROVE KeysPlaced(d)'
  <2>1. KeysPlaced(d)
    BY DEF IInv
  <2>2. CASE d # c
    BY <1>1, <1>2, <2>1, <2>2 DEF KeysPlaced
  <2>3. CASE d = c
    <3>1. \A n \in DOMAIN q : q[n].op # "DISCONNECT"
      BY <1>3, <1>4, <1>5 DEF Places
    <3>2. \A n, l \in DOMAIN Append(q, m) :
              n < l /\ Append(q, m)[n].op = "DISCONNECT"
                  => Append(q, m)[l].op # "FORWARD_EVENT"
      BY <1>6, <3>1
    <3>3. to_server'[d] = Append(q, m) /\ handled'[d] = handled[d]
          /\ (HasRecord(d)' <=> HasRecord(d))
      BY <1>1, <1>2, <1>5, <2>3
    <3>4. ~HasRecord(d) => Keys(Append(q, m)) = <<>> /\ handled[d] = <<>>
      BY <1>5, <1>12, <1>13, <2>1, <2>3 DEF KeysPlaced
    <3> QED
      BY <3>2, <3>3, <3>4 DEF KeysPlaced
  <2> QED
    BY <2>2, <2>3
<1>15. KeysInOrder'
  <2> SUFFICES ASSUME NEW d \in Client, NEW k \in DOMAIN clients',
                      clients'[k].client_win = d
               PROVE  handled'[d] \o Keys(clients'[k].pending) \o Keys(to_server'[d])
                          = [n \in 1 .. typed'[d] |-> n]
    BY Zenon DEF KeysInOrder, Keys
  <2>1. k \in DOMAIN clients /\ clients[k].client_win = d
    BY <1>2
  <2>2. handled[d] \o Keys(clients[k].pending) \o Keys(to_server[d])
            = [n \in 1 .. typed[d] |-> n]
    BY <2>1 DEF IInv, KeysInOrder
  <2>3. CASE d # c
    BY <1>1, <1>2, <2>2, <2>3
  <2>4. CASE d = c /\ m.op # "FORWARD_EVENT"
    <3>1. typed' = typed
      <4>1. m.op # "XCONNECT"
        <5>1. HasRecord(c)
          BY <2>1, <2>4 DEF HasRecord
        <5>2. stage[c] # "off"
          BY <1>1, <5>1 DEF IInv, Staged
        <5> QED
          BY <5>2 DEF Asks
      <4> QED
        BY <2>4, <4>1 DEF Asks
    <3> QED
      BY <1>1, <1>2, <1>5, <1>13, <2>2, <2>4, <3>1
  <2>5. CASE d = c /\ m.op = "FORWARD_EVENT"
    <3>1. PICK T \in Nat : T = typed[c] /\ m.n = T + 1 /\ typed'[c] = T + 1
      BY <2>5 DEF Asks, IInv, Typed
    <3>2. PICK h \in Seq(Number) : h = handled[d] \o Keys(clients[k].pending)
      <4>1. handled[d] \in Seq(Number) /\ Keys(clients[k].pending) \in Seq(Number)
        BY <2>1, RecordTyped DEF IInv
      <4> QED
        BY <4>1, ConcatProperties
    <3>3. PICK w \in Seq(Number) : w = Keys(q)
      BY KeysType
    <3>4. PICK e \in Number : e = T + 1
      BY <3>1 DEF Number
    <3>5. h \o Append(w, e) = Append(h \o w, e)
      BY ConcatAppend
    <3>6. h \o w = [n \in 1 .. T |-> n]
      BY <1>5, <2>2, <2>5, <3>1, <3>2, <3>3
    <3>7. Append([n \in 1 .. T |-> n], T + 1) = [n \in 1 .. (T + 1) |-> n]
      OBVIOUS
    <3>8. h \o Keys(Append(q, m)) = [n \in 1 .. (T + 1) |-> n]
      BY <1>13, <2>5, <3>1, <3>3, <3>4, <3>5, <3>6, <3>7
    <3> QED
      BY <1>1, <1>2, <1>5, <2>5, <3>1, <3>2, <3>8
  <2> QED
    BY <2>3, <2>4, <2>5
<1>16. WaitHasAnswer'
  <2> SUFFICES ASSUME NEW k \in DOMAIN clients
               PROVE  LET d == clients[k].client_win
                      IN  /\ clients[k].pending # <<>> => clients[k].sync
                          /\ clients[k].sync /\ stage[d] # "dead" =>
                                \/ Places(to_client[d], Synchronous) # {}
                                \/ Places(to_server'[d], {"SYNC_REPLY"}) # {}
    BY <1>1, <1>2 DEF WaitHasAnswer, Alive
  <2>1. PICK d \in Client : d = clients[k].client_win
    BY RecordTyped DEF IInv
  <2>2. /\ clients[k].pending # <<>> => clients[k].sync
        /\ clients[k].sync /\ stage[d] # "dead" =>
              \/ Places(to_client[d], Synchronous) # {}
              \/ Places(to_server[d], {"SYNC_REPLY"}) # {}
    BY <2>1 DEF IInv, WaitHasAnswer, Alive
  <2>3. Places(to_server[d], {"SYNC_REPLY"}) \subseteq
            Places(to_server'[d], {"SYNC_REPLY"})
    <3>1. CASE d # c
      BY <1>1, <3>1
    <3>2. CASE d = c
      BY <1>1, <3>2, PushedPlaces
    <3> QED
      BY <3>1, <3>2
  <2> QED
    BY <2>1, <2>2, <2>3
<1> QED
  BY <1>2, <1>7, <1>9, <1>10, <1>11, <1>14, <1>15, <1>16 DEF IInv

\* The steps of a client that sends something are such.
LEMMA SessionKeeps ==
  ASSUME IInv, NEW c \in Client, Session(c)
  PROVE  IInv'
<1>1. PICK op : op = NextStage[stage[c]]
  OBVIOUS
<1>2. stage[c] \in {"off", "known", "open", "closed"}
  BY DEF IInv, Typed, Stage, Session
<1>3. /\ stage[c] = "off" => op = "XCONNECT"
      /\ stage[c] = "known" => op = "OPEN"
      /\ stage[c] = "open" => op = "CLOSE"
      /\ stage[c] = "closed" => op = "DISCONNECT"
  BY <1>1 DEF NextStage
<1>4. op \in Answered /\ op \in Op /\ NoId \in Nat /\ 0 \in Number
  BY <1>2, <1>3, Small DEF Answered, Op, NoId
<1>5. PICK m \in Message : m = Msg(op, NoId, 0) /\ m.op = op
  BY <1>4, MsgType
<1>6. /\ waits[c] = None /\ waits' = [waits EXCEPT ![c] = op]
      /\ to_server' = [to_server EXCEPT ![c] = Append(@, m)]
      /\ UNCHANGED <<to_client, serverVars, stage>>
  BY <1>1, <1>5 DEF Session, Request, Send1
<1>7. held' \in [Client -> SUBSET Nat] /\ mask' \in [Client -> SUBSET Nat]
  BY DEF IInv, Typed, Session
<1>8. /\ stage[c] = "off" => typed' = [typed EXCEPT ![c] = 0]
      /\ stage[c] # "off" => typed' = typed
  BY DEF Session
<1>9. Asks(c, m)
  BY <1>2, <1>3, <1>4, <1>5, <1>6, <1>7, <1>8 DEF Asks
<1> QED
  BY <1>9, AsksKeeps

\* whether they ask for something about an IC
LEMMA AskKeeps ==
  ASSUME IInv, NEW c \in Client, Ask(c)
  PROVE  IInv'
<1>1. stage[c] = "open" /\ UNCHANGED <<stage, mask, typed>>
  BY DEF Ask
<1>2. /\ held \in [Client -> SUBSET Nat] /\ mask \in [Client -> SUBSET Nat]
      /\ \A i \in held[c] : i \in Nat
  BY DEF IInv, Typed
<1>3. ASSUME NEW op \in Answered \ {"XCONNECT", "OPEN", "CLOSE", "DISCONNECT"},
             NEW i \in Nat, NEW n \in Number, Request(c, op, i, n),
             held' \in [Client -> SUBSET Nat]
      PROVE  IInv'
  <2>1. PICK m \in Message : m = Msg(op, i, n) /\ m.op = op
    BY MsgType DEF Op
  <2>2. /\ waits[c] = None /\ waits' = [waits EXCEPT ![c] = op]
        /\ to_server' = [to_server EXCEPT ![c] = Append(@, m)]
        /\ UNCHANGED <<to_client, serverVars>>
    BY <1>3, <2>1 DEF Request, Send1
  <2>3. op \notin {"XCONNECT", "OPEN", "CLOSE", "DISCONNECT", "FORWARD_EVENT"}
    BY DEF Answered, Queries
  <2>4. Asks(c, m)
    BY <1>1, <1>2, <1>3, <2>1, <2>2, <2>3 DEF Asks
  <2> QED
    BY <2>4, AsksKeeps
<1>4. NoId \in Nat /\ 0 \in Number /\ \A w \in Windows : w \in Number
  BY Small DEF NoId, Number
<1>5. CASE /\ held[c] = {}
           /\ \E op \in Queries : Request(c, op, NoId, 0)
           /\ UNCHANGED held
  <2>1. Queries \subseteq Answered \ {"XCONNECT", "OPEN", "CLOSE", "DISCONNECT"}
    BY DEF Answered, Queries
  <2> QED
    BY <1>2, <1>3, <1>4, <1>5, <2>1
<1>6. CASE \E w \in Windows : Request(c, "CREATE_IC", NoId, w) /\ UNCHANGED held
  <2>1. "CREATE_IC" \in Answered \ {"XCONNECT", "OPEN", "CLOSE", "DISCONNECT"}
    BY DEF Answered, Queries
  <2> QED
    BY <1>2, <1>3, <1>4, <1>6, <2>1
<1>7. ASSUME NEW i \in held[c], Request(c, "DESTROY_IC", i, 0),
             held' = [held EXCEPT ![c] = @ \ {i}]
      PROVE  IInv'
  <2>1. "DESTROY_IC" \in Answered \ {"XCONNECT", "OPEN", "CLOSE", "DISCONNECT"}
    BY DEF Answered, Queries
  <2>2. held' \in [Client -> SUBSET Nat]
    BY <1>2, <1>7
  <2> QED
    BY <1>2, <1>3, <1>4, <1>7, <2>1, <2>2
<1>8. ASSUME NEW i \in held[c], UNCHANGED held,
             NEW op \in {"SET_IC_VALUES", "GET_IC_VALUES", "RESET_IC", "TRIGGER_NOTIFY"},
             Request(c, op, i, 0)
      PROVE  IInv'
  <2>1. op \in Answered \ {"XCONNECT", "OPEN", "CLOSE", "DISCONNECT"}
    BY DEF Answered, Queries
  <2> QED
    BY <1>2, <1>3, <1>4, <1>8, <2>1
<1>9. ASSUME NEW i \in held[c], UNCHANGED <<waits, held>>, waits[c] = None,
             NEW op \in {"SET_IC_FOCUS", "UNSET_IC_FOCUS"}, Send1(c, Msg(op, i, 0))
      PROVE  IInv'
  <2>1. PICK m \in Message : m = Msg(op, i, 0) /\ m.op = op
    BY <1>2, <1>4, MsgType DEF Op
  <2>2. /\ to_server' = [to_server EXCEPT ![c] = Append(@, m)]
        /\ UNCHANGED <<to_client, serverVars>>
    BY <1>9, <2>1 DEF Send1
  <2>3. op \notin Answered /\
        op \notin {"XCONNECT", "OPEN", "CLOSE", "DISCONNECT", "FORWARD_EVENT"}
    BY DEF Answered, Queries
  <2>4. Asks(c, m)
    BY <1>1, <1>2, <1>9, <2>1, <2>2, <2>3 DEF Asks
  <2> QED
    BY <2>4, AsksKeeps
<1> QED
  BY <1>5, <1>6, <1>7, <1>8, <1>9 DEF Ask

\* or forward a key.
LEMMA TypeKeeps ==
  ASSUME IInv, NEW c \in Client, Type(c)
  PROVE  IInv'
<1>1. PICK i \in mask[c] \cap held[c] : Send1(c, Msg("FORWARD_EVENT", i, typed[c] + 1))
  BY DEF Type
<1>2. i \in Nat /\ typed[c] + 1 \in Number
  BY DEF IInv, Typed, Number
<1>3. PICK m \in Message : /\ m = Msg("FORWARD_EVENT", i, typed[c] + 1)
                           /\ m.op = "FORWARD_EVENT" /\ m.n = typed[c] + 1
  BY <1>2, MsgType DEF Op, Synchronous, Msg
<1>4. /\ to_server' = [to_server EXCEPT ![c] = Append(@, m)]
      /\ UNCHANGED <<to_client, serverVars>>
  BY <1>1, <1>3 DEF Send1
<1>5. "FORWARD_EVENT" \notin Answered
  BY DEF Answered, Queries
<1>6. Asks(c, m)
  BY <1>3, <1>4, <1>5 DEF Asks, Type, IInv, Typed
<1> QED
  BY <1>6, AsksKeeps

\* A client that reads its first message, and may send SYNC_REPLY.
Hears(c) ==
    /\ stage[c] # "dead" /\ to_client[c] # <<>>
    /\ to_client' = [to_client EXCEPT ![c] = Tail(@)]
    /\ UNCHANGED <<serverVars, typed>>
    /\ held' \in [Client -> SUBSET Nat] /\ mask' \in [Client -> SUBSET Nat]
    /\ \/ /\ Head(to_client[c]).op \in Answered
          /\ to_server' = to_server
          /\ waits' = [waits EXCEPT ![c] = None]
          /\ stage' = [stage EXCEPT ![c] =
                          IF Head(to_client[c]).op \in DOMAIN Reached
                          THEN Reached[Head(to_client[c]).op] ELSE @]
       \/ /\ Head(to_client[c]).op \in Synchronous
          /\ to_server' = [to_server EXCEPT ![c] =
                              Append(@, Msg("SYNC_REPLY", NoId, 0))]
          /\ UNCHANGED <<waits, stage>>
       \/ /\ Head(to_client[c]).op \notin Answered \cup Synchronous
          /\ UNCHANGED <<to_server, waits, stage>>

\* What a client does when it reads keeps the invariant.
LEMMA HearsKeeps ==
  ASSUME IInv, NEW c \in Client, Hears(c)
  PROVE  IInv'
<1>1. PICK q \in Seq(Message) : q = to_client[c] /\ q # <<>>
  BY DEF IInv, Typed, Core, Server, Hears
<1>2. PICK r \in Seq(Message) : r = to_server[c]
  BY DEF IInv, Typed
<1>3. PICK h \in Message : h = Head(q)
  BY <1>1, Popped
<1>4. PICK y \in Message : y = Msg("SYNC_REPLY", NoId, 0) /\ y.op = "SYNC_REPLY"
  BY Small, MsgType DEF Op, NoId
<1>5. /\ {"XCONNECT", "OPEN", "CLOSE", "DISCONNECT"} \subseteq Answered
      /\ None \notin Answered /\ Answered \cap Synchronous = {}
      /\ "SYNC_REPLY" \notin Answered
  BY DEF None, Answered, Queries, Synchronous
<1>6. /\ to_client'[c] = Tail(q) /\ Tail(q) \in Seq(Message)
      /\ to_client' \in [Client -> Seq(Message)]
      /\ \A d \in Client : d # c => to_client'[d] = to_client[d]
  <2>1. Tail(q) \in Seq(Message)
    BY <1>1, Popped
  <2> QED
    BY <1>1, <2>1 DEF Hears, IInv, Typed, Core, Server
<1>7. /\ Core' \in Server
      /\ Listed(Core)' /\ Numbered(Core)' /\ Up(Core)'
      /\ \A d \in Client : HasRecord(d)' <=> HasRecord(d)
      /\ clients' = clients /\ handled' = handled /\ ic' = ic
  BY <1>6, ServerStays DEF Hears
<1>8. /\ typed' = typed
      /\ \A d \in Client : d # c => /\ to_server'[d] = to_server[d]
                                  /\ waits'[d] = waits[d]
                                  /\ stage'[d] = stage[d]
      /\ \/ h.op \in Synchronous /\ to_server'[c] = Append(r, y)
         \/ h.op \notin Synchronous /\ to_server'[c] = r
      /\ h.op \notin Answered => waits'[c] = waits[c] /\ stage'[c] = stage[c]
  BY <1>1, <1>2, <1>3, <1>4, <1>5 DEF Hears, IInv, Typed
<1>9. \A ops : "SYNC_REPLY" \notin ops => Places(to_server'[c], ops) = Places(r, ops)
  <2> SUFFICES ASSUME NEW ops, "SYNC_REPLY" \notin ops
               PROVE  Places(to_server'[c], ops) = Places(r, ops)
    OBVIOUS
  <2>1. Places(Append(r, y), ops) = Places(r, ops)
    BY <1>4, PushedPlaces
  <2> QED
    BY <1>8, <2>1
<1>10. /\ \A n \in Places(r, Answered) : to_server'[c][n] = r[n]
       /\ \A n \in DOMAIN to_server'[c] :
             /\ n \in Nat
             /\ \/ n \in DOMAIN r /\ to_server'[c][n] = r[n]
                \/ to_server'[c][n].op = "SYNC_REPLY"
       /\ Places(r, {"SYNC_REPLY"}) \subseteq Places(to_server'[c], {"SYNC_REPLY"})
       /\ h.op \in Synchronous => Places(to_server'[c], {"SYNC_REPLY"}) # {}
  <2>1. CASE to_server'[c] = r
    <3>1. h.op \notin Synchronous \/ r = Append(r, y)
      BY <1>8, <2>1
    <3>2. r # Append(r, y)
      <4>1. Len(Append(r, y)) = Len(r) + 1 /\ Len(r) \in Nat
        BY <1>2, <1>4, AppendProperties, LenProperties
      <4> QED
        BY <4>1
    <3> QED
      BY <1>2, <2>1, <3>1, <3>2
  <2>2. CASE to_server'[c] = Append(r, y)
    <3>1. /\ \A n \in 1 .. Len(r) : Append(r, y)[n] = r[n]
          /\ Append(r, y)[Len(r) + 1] = y
          /\ DOMAIN r = 1 .. Len(r) /\ Len(r) \in Nat
          /\ Append(r, y) \in Seq(Message) /\ Len(Append(r, y)) = Len(r) + 1
      BY <1>2, <1>4, AppendProperties, LenProperties
    <3>2. DOMAIN Append(r, y) = 1 .. Len(r) + 1
      BY <3>1
    <3>3. \A n \in DOMAIN Append(r, y) :
              n \in Nat /\ (n \in 1 .. Len(r) \/ n = Len(r) + 1)
      BY <3>1, <3>2
    <3>4. \A n \in DOMAIN Append(r, y) :
              /\ n \in Nat
              /\ \/ n \in DOMAIN r /\ Append(r, y)[n] = r[n]
                 \/ Append(r, y)[n].op = "SYNC_REPLY"
      BY <1>4, <3>1, <3>3
    <3>5. /\ \A n \in Places(r, Answered) : Append(r, y)[n] = r[n]
          /\ Places(r, {"SYNC_REPLY"}) \subseteq Places(Append(r, y), {"SYNC_REPLY"})
          /\ Places(Append(r, y), {"SYNC_REPLY"}) # {}
      <4>1. y.op \in {"SYNC_REPLY"}
        BY <1>4
      <4>2. \A n \in Places(r, Answered) : Append(r, y)[n] = r[n]
        BY <3>1 DEF Places
      <4>3. Places(r, {"SYNC_REPLY"}) \subseteq Places(Append(r, y), {"SYNC_REPLY"})
        BY PushedPlaces
      <4>4. Len(r) + 1 \in Places(Append(r, y), {"SYNC_REPLY"})
        BY <4>1, PushedPlaces
      <4> QED
        BY <4>2, <4>3, <4>4
    <3> QED
      BY <2>2, <3>4, <3>5
  <2> QED
    BY <1>8, <2>1, <2>2
<1>11. \A op \in Answered : Sent(c, op)' <=> Sent(c, op)
  BY <1>2, <1>5, <1>9 DEF Sent
<1>12. h.op \in Answered =>
          /\ waits[c] = h.op /\ Places(r, Answered) = {}
          /\ Places(Tail(q), Answered) = {} /\ waits'[c] = None
  <2> SUFFICES ASSUME h.op \in Answered
               PROVE  /\ waits[c] = h.op /\ Places(r, Answered) = {}
                      /\ Places(Tail(q), Answered) = {} /\ waits'[c] = None
    OBVIOUS
  <2>1. 1 \in Places(q, Answered) /\ q[1] = h
    BY <1>1, <1>3, PoppedPlaces
  <2>2. waits[c] = h.op /\ Places(q, Answered) = {1}
    BY <1>1, <2>1 DEF IInv, Awaited
  <2>3. Places(r, Answered) = {}
    BY <1>1, <1>2, <2>2 DEF IInv, Awaited
  <2>4. ASSUME NEW n \in Places(Tail(q), Answered) PROVE FALSE
    <3>1. n \in Nat \ {0} /\ n + 1 \in Places(q, Answered)
      BY <1>1, <2>4, PoppedPlaces
    <3> QED
      BY <2>2, <3>1
  <2>5. waits'[c] = None
    BY <1>1, <1>3, <1>5 DEF Hears, IInv, Typed
  <2> QED
    BY <2>2, <2>3, <2>4, <2>5
<1>13. Typed'
  <2>1. to_server' \in [Client -> Seq(Message)]
    <3>1. Append(r, y) \in Seq(Message)
      BY <1>2, <1>4
    <3> QED
      BY <1>2, <1>4, <3>1 DEF IInv, Typed, Hears
  <2>2. waits' \in [Client -> Answered \cup {None}]
    BY DEF IInv, Typed, Hears
  <2>3. stage' \in [Client -> Stage]
    <3>1. \A op \in DOMAIN Reached : Reached[op] \in Stage
      BY DEF Reached, Stage
    <3>2. stage \in [Client -> Stage]
      BY DEF IInv, Typed
    <3>3. CASE stage' = stage
      BY <3>2, <3>3
    <3>4. CASE stage' # stage
      <4>1. stage' = [stage EXCEPT ![c] =
                        IF Head(to_client[c]).op \in DOMAIN Reached
                        THEN Reached[Head(to_client[c]).op] ELSE @]
        BY <3>4 DEF Hears
      <4> QED
        BY <3>1, <3>2, <4>1
    <3> QED
      BY <3>3, <3>4
  <2> QED
    BY <1>7, <1>8, <2>1, <2>2, <2>3 DEF IInv, Typed, Hears
<1>14. ASSUME NEW d \in Client PROVE Awaited(d)'
  <2>1. Awaited(d)
    BY DEF IInv
  <2>2. CASE d # c
    BY <1>6, <1>8, <2>1, <2>2 DEF Awaited
  <2>3. CASE d = c /\ h.op \in Answered
    <3>1. stage'[c] # "dead"
      BY <1>1, <1>3 DEF Hears, IInv, Typed, Reached
    <3> QED
      BY <1>5, <1>6, <1>9, <1>12, <2>3, <3>1 DEF Awaited
  <2>4. CASE d = c /\ h.op \notin Answered
    <3>1. stage'[c] # "dead" /\ waits'[c] = waits[c]
      BY <1>8, <2>4 DEF Hears
    <3>2. \A n \in Places(Tail(q), Answered) :
              n \in Nat \ {0} /\ n + 1 \in Places(q, Answered) /\ Tail(q)[n] = q[n + 1]
      BY <1>1, PoppedPlaces
    <3>3. \A n \in Places(q, Answered) :
              q[n].op = waits[c] /\ Places(q, Answered) = {n}
      BY <1>1, <2>1, <2>4 DEF Awaited
    <3>4. \A n \in Places(Tail(q), Answered) :
              Tail(q)[n].op = waits[c] /\ Places(Tail(q), Answered) = {n}
      <4> SUFFICES ASSUME NEW n \in Places(Tail(q), Answered)
                   PROVE  Tail(q)[n].op = waits[c] /\ Places(Tail(q), Answered) = {n}
        OBVIOUS
      <4>1. Places(q, Answered) = {n + 1} /\ Tail(q)[n].op = waits[c]
        <5>1. n + 1 \in Places(q, Answered) /\ Tail(q)[n] = q[n + 1]
          BY <3>2
        <5> QED
          BY <3>3, <5>1
      <4>2. \A l \in Places(Tail(q), Answered) : l = n
        BY <3>2, <4>1
      <4> QED
        BY <4>1, <4>2
    <3>5. \A n \in Places(r, Answered) :
              /\ r[n].op = waits[c] /\ Places(r, Answered) = {n}
              /\ Places(q, Answered) = {}
      BY <1>1, <1>2, <2>1, <2>4 DEF Awaited
    <3>6. Places(q, Answered) = {} => Places(Tail(q), Answered) = {}
      BY <3>2
    <3>7. \A n \in Places(to_server'[c], Answered) :
              /\ to_server'[c][n].op = waits[c] /\ Places(to_server'[c], Answered) = {n}
              /\ Places(Tail(q), Answered) = {}
      BY <1>5, <1>9, <1>10, <3>5, <3>6
    <3> QED
      BY <1>6, <2>4, <3>1, <3>4, <3>7 DEF Awaited
  <2> QED
    BY <2>2, <2>3, <2>4
<1>15. h.op \in Answered => ~Sent(c, h.op)
  BY <1>2, <1>12 DEF Sent, Places
<1>16. h.op \in Answered =>
          stage'[c] = IF h.op \in DOMAIN Reached THEN Reached[h.op] ELSE stage[c]
  BY <1>1, <1>3, <1>5 DEF Hears, IInv, Typed
<1>17. /\ DOMAIN Reached = {"XCONNECT", "OPEN", "CLOSE", "DISCONNECT"}
       /\ Reached["XCONNECT"] = "known" /\ Reached["OPEN"] = "open"
       /\ Reached["CLOSE"] = "closed" /\ Reached["DISCONNECT"] = "off"
  BY DEF Reached
<1>18. ASSUME NEW d \in Client PROVE Staged(d)'
  <2>1. Staged(d)
    BY DEF IInv
  <2>2. CASE d # c
    BY <1>7, <1>8, <2>1, <2>2 DEF Staged, Sent
  <2>3. CASE d = c /\ h.op \in Answered
    <3>1. waits'[c] = None /\ waits[c] = h.op /\ stage[c] # "dead"
      BY <1>12, <2>3 DEF Hears
    <3>2. h.op = "DISCONNECT" => stage'[c] = "off" /\ ~HasRecord(c)
      BY <1>15, <1>16, <1>17, <2>1, <2>3, <3>1 DEF Staged
    <3>3. h.op # "DISCONNECT" => stage'[c] # "off" /\ HasRecord(c)
      BY <1>5, <1>15, <1>16, <1>17, <2>1, <2>3, <3>1 DEF Staged
    <3> QED
      BY <1>5, <1>7, <2>3, <3>1, <3>2, <3>3 DEF Staged
  <2>4. CASE d = c /\ h.op \notin Answered
    <3>1. waits'[c] = waits[c] /\ stage'[c] = stage[c]
      BY <1>8, <2>4
    <3> QED
      BY <1>5, <1>7, <1>8, <1>11, <2>1, <2>4, <3>1 DEF Staged
  <2> QED
    BY <2>2, <2>3, <2>4
<1>19. ASSUME NEW d \in Client PROVE Cleaned(d)'
  <2>1. Closed(d)' => Closed(d)
    <3>1. CASE d # c
      BY <1>8, <3>1 DEF Closed, Sent
    <3>2. CASE d = c /\ h.op \notin Answered
      BY <1>5, <1>8, <1>11, <3>2 DEF Closed
    <3>3. CASE d = c /\ h.op \in Answered
      <4>1. waits'[c] = None /\ waits[c] = h.op /\ stage[c] # "dead"
        BY <1>12, <3>3 DEF Hears
      <4>2. None \notin {"CLOSE", "DISCONNECT"}
        BY DEF None
      <4>3. h.op = "CLOSE" => stage[c] = "open"
        BY <4>1 DEF IInv, Staged
      <4> QED
        BY <1>15, <1>16, <1>17, <3>3, <4>1, <4>2, <4>3 DEF Closed
    <3> QED
      BY <3>1, <3>2, <3>3
  <2> QED
    BY <1>7, <2>1 DEF IInv, Cleaned
<1>20. Keys(to_server'[c]) = Keys(r)
  BY <1>2, <1>4, <1>8, KeysAppend
<1>21. ASSUME NEW d \in Client PROVE KeysPlaced(d)'
  <2>1. KeysPlaced(d)
    BY DEF IInv
  <2>2. CASE d # c
    BY <1>7, <1>8, <2>1, <2>2 DEF KeysPlaced
  <2>3. CASE d = c
    <3>1. \A n, m \in DOMAIN r :
              n < m /\ r[n].op = "DISCONNECT" => r[m].op # "FORWARD_EVENT"
      BY <1>2, <2>1, <2>3 DEF KeysPlaced
    <3>2. PICK x : x = to_server'[c]
      OBVIOUS
    <3>3. \A n, m \in DOMAIN x :
              n < m /\ x[n].op = "DISCONNECT" => x[m].op # "FORWARD_EVENT"
      BY <1>10, <3>1, <3>2
    <3>4. ~HasRecord(d) => Keys(x) = <<>> /\ handled[d] = <<>>
      BY <1>2, <1>20, <2>1, <2>3, <3>2 DEF KeysPlaced
    <3>5. to_server'[d] = x /\ handled'[d] = handled[d]
          /\ (HasRecord(d)' <=> HasRecord(d))
      BY <1>7, <2>3, <3>2
    <3> QED
      BY <3>3, <3>4, <3>5 DEF KeysPlaced
  <2> QED
    BY <2>2, <2>3
<1>22. KeysInOrder'
  <2> SUFFICES ASSUME NEW d \in Client, NEW k \in DOMAIN clients',
                      clients'[k].client_win = d
               PROVE  handled'[d] \o Keys(clients'[k].pending) \o Keys(to_server'[d])
                          = [n \in 1 .. typed'[d] |-> n]
    BY Zenon DEF KeysInOrder, Keys
  <2>1. k \in DOMAIN clients /\ clients[k].client_win = d
    BY <1>7
  <2>2. handled[d] \o Keys(clients[k].pending) \o Keys(to_server[d])
            = [n \in 1 .. typed[d] |-> n]
    BY <2>1 DEF IInv, KeysInOrder
  <2>3. Keys(to_server'[d]) = Keys(to_server[d])
    BY <1>2, <1>8, <1>20
  <2> QED
    BY <1>7, <1>8, <2>2, <2>3
<1>23. WaitHasAnswer'
  <2> SUFFICES ASSUME NEW k \in DOMAIN clients
               PROVE  LET d == clients[k].client_win
                      IN  /\ clients[k].pending # <<>> => clients[k].sync
                          /\ clients[k].sync /\ stage'[d] # "dead" =>
                                \/ Places(to_client'[d], Synchronous) # {}
                                \/ Places(to_server'[d], {"SYNC_REPLY"}) # {}
    BY <1>7 DEF WaitHasAnswer, Alive
  <2>1. PICK d \in Client : d = clients[k].client_win
    BY RecordTyped DEF IInv
  <2>2. /\ clients[k].pending # <<>> => clients[k].sync
        /\ clients[k].sync /\ stage[d] # "dead" =>
              \/ Places(to_client[d], Synchronous) # {}
              \/ Places(to_server[d], {"SYNC_REPLY"}) # {}
    BY <2>1 DEF IInv, WaitHasAnswer, Alive
  <2>3. CASE d # c
    BY <1>6, <1>8, <2>1, <2>2, <2>3
  <2>4. CASE d = c
    <3>1. stage[c] # "dead"
      BY DEF Hears
    <3>2. \A n \in Places(q, Synchronous) :
              (n = 1 /\ h.op \in Synchronous) \/ n - 1 \in Places(Tail(q), Synchronous)
      BY <1>1, <1>3, PoppedPlaces
    <3>3. Places(q, Synchronous) # {} =>
              h.op \in Synchronous \/ Places(Tail(q), Synchronous) # {}
      BY <3>2
    <3> QED
      BY <1>1, <1>2, <1>6, <1>10, <2>1, <2>2, <2>4, <3>1, <3>3
  <2> QED
    BY <2>3, <2>4
<1> QED
  BY <1>7, <1>13, <1>14, <1>18, <1>19, <1>21, <1>22, <1>23 DEF IInv

\* Answers, texts and keys handed back, event masks.
LEMMA ListenKeeps ==
  ASSUME IInv, NEW c \in Client, Listen(c)
  PROVE  IInv'
<1>1. PICK h : h = Head(to_client[c])
  OBVIOUS
<1>2. to_client[c] # <<>> => h \in Message /\ h.icid \in Nat
  <2>1. to_client[c] \in Seq(Message)
    BY DEF IInv, Typed, Core, Server
  <2> QED
    BY <1>1, <2>1, Popped DEF Message
<1>3. /\ held \in [Client -> SUBSET Nat] /\ mask \in [Client -> SUBSET Nat]
      /\ held[c] \subseteq Nat /\ mask[c] \subseteq Nat
  BY DEF IInv, Typed
<1>4. Answered \cap Synchronous = {}
      /\ {"SET_EVENT_MASK", "REGISTER_TRIGGERKEYS"} \cap (Answered \cup Synchronous) = {}
  BY DEF Answered, Queries, Synchronous
<1>5. CASE GetAnswer(c)
  <2>1. /\ stage[c] # "dead" /\ to_client[c] # <<>> /\ h.op \in Answered
        /\ to_client' = [to_client EXCEPT ![c] = Tail(@)]
        /\ UNCHANGED <<serverVars, to_server, typed>>
        /\ waits' = [waits EXCEPT ![c] = None]
        /\ stage' = [stage EXCEPT ![c] = IF h.op \in DOMAIN Reached THEN Reached[h.op]
                                         ELSE @]
    BY <1>1, <1>5 DEF GetAnswer, Delivered
  <2>2. held' \in [Client -> SUBSET Nat]
    <3>1. held' = [held EXCEPT ![c] = IF h.op = "CREATE_IC" THEN @ \cup {h.icid} ELSE @]
      BY <1>1, <1>5 DEF GetAnswer
    <3>2. held[c] \cup {h.icid} \in SUBSET Nat /\ held[c] \in SUBSET Nat
      BY <1>2, <1>3, <2>1
    <3> QED
      BY <1>3, <3>1, <3>2
  <2>3. mask' \in [Client -> SUBSET Nat]
    <3>1. mask' = [mask EXCEPT ![c] = IF h.op = "DESTROY_IC" THEN @ \ {h.icid} ELSE @]
      BY <1>1, <1>5 DEF GetAnswer
    <3>2. mask[c] \ {h.icid} \in SUBSET Nat /\ mask[c] \in SUBSET Nat
      BY <1>3
    <3> QED
      BY <1>3, <3>1, <3>2
  <2>4. Hears(c)
    BY <1>1, <2>1, <2>2, <2>3 DEF Hears
  <2> QED
    BY <2>4, HearsKeeps
<1>6. CASE AnswerSync(c)
  <2>1. Hears(c)
    BY <1>3, <1>6 DEF AnswerSync, Delivered, clientVars, Hears
  <2> QED
    BY <2>1, HearsKeeps
<1>7. CASE GetMask(c)
  <2>1. /\ stage[c] # "dead" /\ to_client[c] # <<>>
        /\ h.op \in {"SET_EVENT_MASK", "REGISTER_TRIGGERKEYS"}
        /\ to_client' = [to_client EXCEPT ![c] = Tail(@)]
        /\ UNCHANGED <<serverVars, to_server, typed, waits, stage, held>>
    BY <1>1, <1>7 DEF GetMask, Delivered
  <2>2. mask' \in [Client -> SUBSET Nat]
    <3>1. mask' = [mask EXCEPT ![c] = IF h.op # "SET_EVENT_MASK" THEN @
                                     ELSE IF h.n = 1 THEN @ \cup {h.icid}
                                     ELSE @ \ {h.icid}]
      BY <1>1, <1>7 DEF GetMask
    <3>2. /\ mask[c] \ {h.icid} \in SUBSET Nat /\ mask[c] \in SUBSET Nat
          /\ mask[c] \cup {h.icid} \in SUBSET Nat
      BY <1>2, <1>3, <2>1
    <3> QED
      BY <1>3, <3>1, <3>2
  <2>3. Head(to_client[c]).op \notin Answered \cup Synchronous
    BY <1>1, <1>4, <2>1
  <2>4. Hears(c)
    BY <1>3, <2>1, <2>2, <2>3 DEF Hears
  <2> QED
    BY <2>4, HearsKeeps
<1> QED
  BY <1>5, <1>6, <1>7 DEF Listen

\* A client that dies is sent nothing more, and what it sent is still there.
LEMMA DieKeeps ==
  ASSUME IInv, NEW c \in Client, Die(c)
  PROVE  IInv'
<1>1. /\ stage[c] \notin {"off", "dead"}
      /\ stage'[c] = "dead" /\ to_client'[c] = <<>>
      /\ \A d \in Client : d # c => stage'[d] = stage[d] /\ to_client'[d] = to_client[d]
      /\ UNCHANGED <<serverVars, to_server, waits, typed>>
  BY DEF Die, IInv, Typed, Core, Server
<1>2. to_client' \in [Client -> Seq(Message)] /\ stage' \in [Client -> Stage]
  <2>1. <<>> \in Seq(Message) /\ "dead" \in Stage
    BY DEF Stage
  <2> QED
    BY <2>1 DEF Die, IInv, Typed, Core, Server
<1>3. /\ Core' \in Server
      /\ Listed(Core)' /\ Numbered(Core)' /\ Up(Core)'
      /\ \A d \in Client : HasRecord(d)' <=> HasRecord(d)
      /\ clients' = clients /\ handled' = handled /\ ic' = ic
  BY <1>1, <1>2, ServerStays
<1>4. Typed'
  BY <1>2, <1>3 DEF Die, IInv, Typed
<1>5. ASSUME NEW d \in Client PROVE Awaited(d)'
  <2>1. CASE d # c
    BY <1>1, <2>1 DEF IInv, Awaited
  <2>2. CASE d = c
    <3>1. Places(to_client'[c], Answered) = {}
      BY <1>1 DEF Places
    <3> QED
      BY <1>1, <2>2, <3>1 DEF IInv, Awaited
  <2> QED
    BY <2>1, <2>2
<1>6. ASSUME NEW d \in Client PROVE Staged(d)'
  <2>1. Staged(d)
    BY DEF IInv
  <2>2. \A op : Sent(d, op)' <=> Sent(d, op)
    BY <1>1 DEF Sent
  <2>3. CASE d # c
    BY <1>1, <1>3, <2>1, <2>2, <2>3 DEF Staged
  <2>4. CASE d = c
    BY <1>1, <1>3, <2>1, <2>2, <2>4 DEF Staged
  <2> QED
    BY <2>3, <2>4
<1>7. ASSUME NEW d \in Client PROVE Cleaned(d)'
  <2>1. Closed(d)' => Closed(d)
    BY <1>1 DEF Closed, Sent
  <2> QED
    BY <1>3, <2>1 DEF IInv, Cleaned
<1>8. ASSUME NEW d \in Client PROVE KeysPlaced(d)'
  <2>1. KeysPlaced(d)
    BY DEF IInv
  <2> QED
    BY <1>1, <1>3, <2>1 DEF KeysPlaced
<1>9. KeysInOrder'
  <2>1. KeysInOrder' <=>
            \A d \in Client : \A k \in DOMAIN clients' :
                clients'[k].client_win = d =>
                    handled'[d] \o Keys(clients'[k].pending) \o Keys(to_server'[d])
                        = [n \in 1 .. typed'[d] |-> n]
    BY Zenon DEF KeysInOrder, Keys
  <2>2. KeysInOrder
    BY DEF IInv
  <2> QED
    BY <1>1, <1>3, <2>1, <2>2 DEF KeysInOrder
<1>10. WaitHasAnswer'
  <2> SUFFICES ASSUME NEW k \in DOMAIN clients
               PROVE  LET d == clients[k].client_win
                      IN  /\ clients[k].pending # <<>> => clients[k].sync
                          /\ clients[k].sync /\ stage'[d] # "dead" =>
                                \/ Places(to_client'[d], Synchronous) # {}
                                \/ Places(to_server[d], {"SYNC_REPLY"}) # {}
    BY <1>1, <1>3 DEF WaitHasAnswer, Alive
  <2>1. PICK d \in Client : d = clients[k].client_win
    BY RecordTyped DEF IInv
  <2>2. /\ clients[k].pending # <<>> => clients[k].sync
        /\ clients[k].sync /\ stage[d] # "dead" =>
              \/ Places(to_client[d], Synchronous) # {}
              \/ Places(to_server[d], {"SYNC_REPLY"}) # {}
    BY <2>1 DEF IInv, WaitHasAnswer, Alive
  <2> QED
    BY <1>1, <2>1, <2>2
<1> QED
  BY <1>3, <1>4, <1>5, <1>6, <1>7, <1>8, <1>9, <1>10 DEF IInv

----------------------------------------------------------------------------
(* The theorems about the queues and the keys.                             *)

\* Nothing has happened yet.
LEMMA InitHolds ==
  ASSUME Init
  PROVE  IInv
<1>1. Core \in Server
  <2>1. ic \in [Id -> ICRecord]
    BY DEF Init, Unused, ICRecord, FocusWin, NoId
  <2>2. to_client \in [Client -> Seq(Message)] /\ handled \in [Client -> Seq(Number)]
    BY DEF Init
  <2>3. /\ clients \in Seq(Record) /\ free_clients \in Seq(Nat)
        /\ connect_id \in Nat /\ ic_free \in SUBSET Id /\ icid \in Nat
        /\ commit_buf \in Nat \X Nat /\ running \in BOOLEAN
    BY DEF Init, NoText, NoId
  <2> QED
    BY <2>1, <2>2, <2>3 DEF Core, Server
<1>2. Typed
  <2>1. /\ to_server \in [Client -> Seq(Message)] /\ typed \in [Client -> Nat]
        /\ held \in [Client -> SUBSET Nat] /\ mask \in [Client -> SUBSET Nat]
    BY DEF Init
  <2>2. stage \in [Client -> Stage] /\ waits \in [Client -> Answered \cup {None}]
    BY DEF Init, Stage
  <2> QED
    BY <1>1, <2>1, <2>2 DEF Typed
<1>3. InUse(ic) = {}
  BY DEF Init, InUse, Unused
<1>4. Listed(Core)
  BY DEF Init, Listed, Core
<1>5. Numbered(Core) /\ Up(Core)
  <2>1. /\ InUse(Core.ic) = {} /\ Core.icid = 0 /\ Core.ic_free = {}
        /\ Core.running /\ Core.buf = NoText
    BY <1>3 DEF Init, Core
  <2>2. 0 \in 0 .. MaxIC
    BY ConstantsOK
  <2> QED
    BY <2>1, <2>2 DEF Numbered, Up, Linked
<1>6. ASSUME NEW c \in Client
      PROVE  Awaited(c) /\ Staged(c) /\ Cleaned(c) /\ KeysPlaced(c)
  <2>1. /\ to_server[c] = <<>> /\ to_client[c] = <<>> /\ handled[c] = <<>>
        /\ stage[c] = "off" /\ waits[c] = None /\ clients = <<>>
    BY DEF Init
  <2>2. \A ops : Places(<<>>, ops) = {}
    BY DEF Places
  <2>3. ~HasRecord(c)
    BY <2>1 DEF HasRecord
  <2>4. None \notin Answered
    BY DEF None, Answered, Queries
  <2>5. Awaited(c)
    BY <2>1, <2>2 DEF Awaited
  <2>6. Staged(c)
    BY <2>1, <2>3, <2>4 DEF Staged, Answered
  <2>7. Cleaned(c)
    BY <2>1 DEF Cleaned
  <2>8. KeysPlaced(c)
    BY <2>1, KeysNone DEF KeysPlaced
  <2> QED
    BY <2>5, <2>6, <2>7, <2>8
<1>7. KeysInOrder /\ WaitHasAnswer
  BY DEF Init, KeysInOrder, WaitHasAnswer
<1> QED
  BY <1>2, <1>4, <1>5, <1>6, <1>7 DEF IInv

\* A step in which nothing changes.
LEMMA StutterKeeps ==
  ASSUME IInv, UNCHANGED vars
  PROVE  IInv'
<1>1. UNCHANGED <<serverVars, to_server, to_client, stage, waits, held, mask, typed>>
  BY DEF vars, clientVars
<1>2. /\ Core' \in Server
      /\ Listed(Core)' /\ Numbered(Core)' /\ Up(Core)'
      /\ \A d \in Client : HasRecord(d)' <=> HasRecord(d)
      /\ clients' = clients /\ handled' = handled /\ ic' = ic
  <2>1. to_client' \in [Client -> Seq(Message)]
    BY <1>1 DEF IInv, Typed, Core, Server
  <2> QED
    BY <1>1, <2>1, ServerStays
<1>3. Typed'
  BY <1>1, <1>2 DEF IInv, Typed
<1>4. ASSUME NEW c \in Client
      PROVE  Awaited(c)' /\ Staged(c)' /\ Cleaned(c)' /\ KeysPlaced(c)'
  <2>1. Awaited(c) /\ Staged(c) /\ Cleaned(c) /\ KeysPlaced(c)
    BY DEF IInv
  <2>2. Awaited(c)'
    BY <1>1, <2>1 DEF Awaited
  <2>3. Staged(c)'
    BY <1>1, <1>2, <2>1 DEF Staged, Sent
  <2>4. Cleaned(c)'
    BY <1>1, <1>2, <2>1 DEF Cleaned, Closed, Sent
  <2>5. KeysPlaced(c)'
    BY <1>1, <1>2, <2>1 DEF KeysPlaced
  <2> QED
    BY <2>2, <2>3, <2>4, <2>5
<1>5. KeysInOrder'
  <2>1. KeysInOrder' <=>
            \A d \in Client : \A k \in DOMAIN clients' :
                clients'[k].client_win = d =>
                    handled'[d] \o Keys(clients'[k].pending) \o Keys(to_server'[d])
                        = [n \in 1 .. typed'[d] |-> n]
    BY Zenon DEF KeysInOrder, Keys
  <2>2. KeysInOrder
    BY DEF IInv
  <2> QED
    BY <1>1, <1>2, <2>1, <2>2 DEF KeysInOrder
<1>6. WaitHasAnswer'
  BY <1>1, <1>2 DEF IInv, WaitHasAnswer, Alive
<1> QED
  BY <1>2, <1>3, <1>4, <1>5, <1>6 DEF IInv

\* The invariant is inductive, so it always holds.
THEOREM Invariant == Spec => []IInv
<1>1. Init => IInv
  BY InitHolds
<1>2. IInv /\ [Next]_vars => IInv'
  <2> SUFFICES ASSUME IInv, [Next]_vars PROVE IInv'
    OBVIOUS
  <2>1. ASSUME NEW c \in Client, Serve(c) PROVE IInv'
    BY <2>1, ServeKeeps
  <2>2. ASSUME NEW c \in Client, Session(c) \/ Ask(c) \/ Type(c) PROVE IInv'
    BY <2>2, SessionKeeps, AskKeeps, TypeKeeps
  <2>3. ASSUME NEW c \in Client, Listen(c) \/ Die(c) PROVE IInv'
    BY <2>3, ListenKeeps, DieKeeps
  <2>4. CASE UNCHANGED vars
    BY <2>4, StutterKeeps
  <2> QED
    BY <2>1, <2>2, <2>3, <2>4 DEF Next
<1> QED
  BY <1>1, <1>2, PTL DEF Spec

\* Every key is given to xcin once and in the order it was typed, for any number
\* of clients and of keys, whatever is answered, committed, held back or
\* overtaken meanwhile, and whoever dies.
THEOREM KeysInOrderAlways == Spec => []KeysInOrder
<1>1. IInv => KeysInOrder
  BY DEF IInv
<1> QED
  BY <1>1, Invariant, PTL

\* Keys are never held back in a connection that has nothing to wait for.
THEOREM WaitHasAnswerAlways == Spec => []WaitHasAnswer
<1>1. IInv => WaitHasAnswer
  BY DEF IInv
<1> QED
  BY <1>1, Invariant, PTL

\* If no input method hands back text when it is switched off, every IC in use
\* is that of a connection, and xcin never follows the NULL pointer of
\* _Xi18nFindClient(): also for clients that die, and for windows and ids that
\* are used again.
THEOREM ICsConnectedAlways ==
  ASSUME ~CommitsOnSwitch
  PROVE  Spec => []ICsConnected
<1>1. IInv => ICsConnected
  <2> SUFFICES ASSUME IInv PROVE ICsConnected
    OBVIOUS
  <2>1. Up(Core)
    BY DEF IInv
  <2>2. running /\ Linked(Core)
    BY <2>1 DEF Up, Core
  <2> QED
    BY <2>2 DEF Linked, ICsConnected, Core
<1> QED
  BY <1>1, Invariant, PTL

----------------------------------------------------------------------------
(* What the server's functions do to ICs, and what they say of them.       *)

\* The IC j was made for a connection that d has now.
Of(s, j, d) == \E k \in DOMAIN s.clients :
                  /\ s.clients[k].client_win = d
                  /\ s.clients[k].connect_id = s.ic[j].connect_id

\* The connections are the same.
Kin(s, t) ==
    /\ DOMAIN t.clients = DOMAIN s.clients
    /\ \A k \in DOMAIN s.clients :
          /\ t.clients[k].client_win = s.clients[k].client_win
          /\ t.clients[k].connect_id = s.clients[k].connect_id

\* A sweep may take j: another IC has its window, or its client is gone.
Doomed(s, j) ==
    \/ \E i \in InUse(s.ic) \ {j} : s.ic[i].focus_win = s.ic[j].focus_win
    \/ \E d \in Client : Of(s, j, d) /\ stage[d] = "dead"

\* Of the ICs go only doomed ones and those of D; the others stay what they are.
Spares(s, t, D) ==
    /\ Kin(s, t)
    /\ \A j \in InUse(t.ic) :
          /\ j \in InUse(s.ic)
          /\ t.ic[j].connect_id = s.ic[j].connect_id
          /\ t.ic[j].focus_win = s.ic[j].focus_win
    /\ \A j \in InUse(s.ic) \ InUse(t.ic) : j \in D \/ Doomed(s, j)
    /\ \A j \in t.ic_free : j \in s.ic_free \/ j \notin InUse(t.ic)

\* The event masks of i among messages, and what a client that thinks b of i
\* will think when it has read them.
About(q, i) == {n \in Places(q, {"SET_EVENT_MASK"}) : q[n].icid = i}
ToldBy(q, b, i) ==
    LET ms == About(q, i)
    IN  IF ms = {} THEN b ELSE \E n \in ms : (\A k \in ms : k <= n) /\ q[n].n = 1

\* A client that knows, or will know, whether its IC is on goes on knowing it,
\* and hears nothing of the ICs of others.
Tells(s, t) ==
    \A d \in Client : stage[d] # "dead" =>
        /\ \A j \in InUse(t.ic) : Of(s, j, d) =>
              \A b \in BOOLEAN :
                  ToldBy(s.out[d], b, j) = s.ic[j].connected
                      => ToldBy(t.out[d], b, j) = t.ic[j].connected
        /\ \A j : ~(j \in InUse(s.ic) /\ Of(s, j, d)) =>
              About(t.out[d], j) = About(s.out[d], j)

Keeps(s, t, D) == Spares(s, t, D) /\ Tells(s, t)

\* One message more.
LEMMA ToldAppend ==
  ASSUME NEW q \in Seq(Message), NEW m \in Message, NEW b \in BOOLEAN, NEW i
  PROVE  /\ m.op = "SET_EVENT_MASK" /\ m.icid = i =>
               ToldBy(Append(q, m), b, i) = (m.n = 1)
         /\ ~(m.op = "SET_EVENT_MASK" /\ m.icid = i) =>
               /\ ToldBy(Append(q, m), b, i) = ToldBy(q, b, i)
               /\ About(Append(q, m), i) = About(q, i)
<1> DEFINE a == Append(q, m)
           N == Len(q) + 1
<1>1. /\ \A n \in Places(a, {"SET_EVENT_MASK"}) :
            \/ n \in Places(q, {"SET_EVENT_MASK"}) /\ a[n] = q[n]
            \/ n = N /\ m.op \in {"SET_EVENT_MASK"} /\ a[n] = m
      /\ \A n \in Places(q, {"SET_EVENT_MASK"}) :
            n \in Places(a, {"SET_EVENT_MASK"}) /\ a[n] = q[n]
      /\ m.op \in {"SET_EVENT_MASK"} => N \in Places(a, {"SET_EVENT_MASK"}) /\ a[N] = m
  BY PushedPlaces, ZenonT(30)
<1>2. \A n \in Places(q, {"SET_EVENT_MASK"}) : n \in Nat /\ n < N
  <2>1. DOMAIN q = 1 .. Len(q) /\ Len(q) \in Nat
    OBVIOUS
  <2> QED
    BY <2>1 DEF Places
<1>3. N \in Nat
  OBVIOUS
<1> HIDE DEF a, N
<1>4. CASE m.op = "SET_EVENT_MASK" /\ m.icid = i
  <2>1. N \in About(a, i) /\ a[N] = m
    BY <1>1, <1>4 DEF About
  <2>2. \A k \in About(a, i) : k \in Nat /\ k <= N
    BY <1>1, <1>2, <1>3 DEF About
  <2>3. \A n \in About(a, i) : (\A k \in About(a, i) : k <= n) => n = N
    BY <1>3, <2>1, <2>2
  <2>4. (\E n \in About(a, i) : (\A k \in About(a, i) : k <= n) /\ a[n].n = 1)
            <=> m.n = 1
    BY <2>1, <2>2, <2>3
  <2> QED
    BY <1>4, <2>1, <2>4 DEF ToldBy, a
<1>5. CASE ~(m.op = "SET_EVENT_MASK" /\ m.icid = i)
  <2>1. About(a, i) = About(q, i) /\ \A n \in About(q, i) : a[n] = q[n]
    BY <1>1, <1>5 DEF About
  <2> QED
    BY <1>5, <2>1 DEF ToldBy, a
<1> QED
  BY <1>4, <1>5

\* Nothing done keeps everything.
LEMMA KeepsSelf ==
  ASSUME NEW s
  PROVE  Keeps(s, s, {})
BY DEF Keeps, Spares, Tells, Kin

\* An IC belongs to whom it belonged to.
LEMMA SameOf ==
  ASSUME NEW s, NEW t, NEW D, Spares(s, t, D), NEW j \in InUse(t.ic), NEW d
  PROVE  Of(t, j, d) <=> Of(s, j, d)
BY DEF Spares, Kin, Of

\* Two things done, one after the other.
LEMMA SparesThen ==
  ASSUME NEW s, NEW t, NEW u, NEW D, NEW E, Spares(s, t, D), Spares(t, u, E)
  PROVE  Spares(s, u, D \cup E)
<1>1. Kin(s, u)
  BY DEF Spares, Kin
<1>2. \A j \in InUse(u.ic) : /\ j \in InUse(t.ic) /\ j \in InUse(s.ic)
                             /\ u.ic[j].connect_id = s.ic[j].connect_id
                             /\ u.ic[j].focus_win = s.ic[j].focus_win
  BY DEF Spares
<1>3. ASSUME NEW j \in InUse(t.ic), Doomed(t, j) PROVE Doomed(s, j)
  <2>1. CASE \E i \in InUse(t.ic) \ {j} : t.ic[i].focus_win = t.ic[j].focus_win
    BY <2>1 DEF Doomed, Spares
  <2>2. CASE \E d \in Client : Of(t, j, d) /\ stage[d] = "dead"
    BY <2>2, SameOf DEF Doomed
  <2> QED
    BY <1>3, <2>1, <2>2 DEF Doomed
<1>4. ASSUME NEW j \in InUse(s.ic) \ InUse(u.ic) PROVE j \in D \cup E \/ Doomed(s, j)
  BY <1>3 DEF Spares
<1>5. \A j \in u.ic_free : j \in s.ic_free \/ j \notin InUse(u.ic)
  BY <1>2 DEF Spares
<1> QED
  BY <1>1, <1>2, <1>4, <1>5 DEF Spares

\* The same of what is told.
LEMMA TellsThen ==
  ASSUME NEW s, NEW t, NEW u, NEW D, NEW E, Spares(s, t, D), Spares(t, u, E),
         Tells(s, t), Tells(t, u)
  PROVE  Tells(s, u)
<1> SUFFICES ASSUME NEW d \in Client, stage[d] # "dead"
             PROVE  /\ \A j \in InUse(u.ic) : Of(s, j, d) =>
                          \A b \in BOOLEAN :
                              ToldBy(s.out[d], b, j) = s.ic[j].connected
                                  => ToldBy(u.out[d], b, j) = u.ic[j].connected
                    /\ \A j : ~(j \in InUse(s.ic) /\ Of(s, j, d)) =>
                          About(u.out[d], j) = About(s.out[d], j)
  BY DEF Tells
<1>1. \A j \in InUse(u.ic) : j \in InUse(t.ic)
  BY DEF Spares
<1>2. \A j \in InUse(t.ic) : j \in InUse(s.ic) /\ (Of(t, j, d) <=> Of(s, j, d))
  BY SameOf DEF Spares
<1>3. /\ \A j \in InUse(t.ic) : Of(s, j, d) =>
            \A b \in BOOLEAN :
                ToldBy(s.out[d], b, j) = s.ic[j].connected
                    => ToldBy(t.out[d], b, j) = t.ic[j].connected
      /\ \A j : ~(j \in InUse(s.ic) /\ Of(s, j, d)) =>
            About(t.out[d], j) = About(s.out[d], j)
  BY DEF Tells
<1>4. /\ \A j \in InUse(u.ic) : Of(t, j, d) =>
            \A b \in BOOLEAN :
                ToldBy(t.out[d], b, j) = t.ic[j].connected
                    => ToldBy(u.out[d], b, j) = u.ic[j].connected
      /\ \A j : ~(j \in InUse(t.ic) /\ Of(t, j, d)) =>
            About(u.out[d], j) = About(t.out[d], j)
  BY DEF Tells
<1> QED
  BY <1>1, <1>2, <1>3, <1>4

\* Both together.
LEMMA KeepsThen ==
  ASSUME NEW s, NEW t, NEW u, NEW D, NEW E, Keeps(s, t, D), Keeps(t, u, E)
  PROVE  Keeps(s, u, D \cup E)
BY SparesThen, TellsThen DEF Keeps

\* The same where no IC but doomed ones goes.
LEMMA KeepsTwice ==
  ASSUME NEW s, NEW t, NEW u, Keeps(s, t, {}), Keeps(t, u, {})
  PROVE  Keeps(s, u, {})
<1>1. Keeps(s, u, {} \cup {})
  BY KeepsThen
<1> QED
  BY <1>1

----------------------------------------------------------------------------
(* The functions of the server keep what they should.                      *)

\* What sending a message changes.
LEMMA SendAtIs ==
  ASSUME NEW s \in Server, NEW k \in {0} \cup DOMAIN s.clients, NEW m \in Message,
         NEW t, t = SendAt(s, k, m)
  PROVE  /\ t \in Server
         /\ t.clients = s.clients /\ t.ic = s.ic /\ t.ic_free = s.ic_free
         /\ t.icid = s.icid /\ t.buf = s.buf /\ t.handled = s.handled
         /\ \/ /\ t.out = s.out
               /\ k # 0 => stage[s.clients[k].client_win] = "dead"
            \/ /\ k # 0
               /\ s.clients[k].client_win \in Client
               /\ stage[s.clients[k].client_win] # "dead"
               /\ t.out = [s.out EXCEPT ![s.clients[k].client_win] = Append(@, m)]
<1>1. CASE k = 0
  BY <1>1 DEF SendAt, Server
<1>2. CASE k # 0 /\ stage[s.clients[k].client_win] = "dead"
  BY <1>2 DEF SendAt
<1>3. CASE k # 0 /\ stage[s.clients[k].client_win] # "dead"
  <2> DEFINE w == s.clients[k].client_win
             f == [s.out EXCEPT ![w] = Append(@, m)]
  <2>1. w \in Client
    <3>1. s.clients[k] \in Record
      BY <1>3, ElementOfSeq DEF Server
    <3> QED
      BY <3>1 DEF Record
  <2>2. f \in [Client -> Seq(Message)]
    BY <2>1 DEF Server
  <2>3. t = [s EXCEPT !.out = f]
    BY <1>3 DEF SendAt
  <2>4. stage[w] # "dead"
    BY <1>3
  <2> HIDE DEF f
  <2>5. t \in Server
    BY <2>2, <2>3 DEF Server
  <2>6. /\ t.clients = s.clients /\ t.ic = s.ic /\ t.ic_free = s.ic_free
        /\ t.icid = s.icid /\ t.buf = s.buf /\ t.handled = s.handled /\ t.out = f
    BY <2>3 DEF Server
  <2> QED
    BY <1>3, <2>1, <2>4, <2>5, <2>6 DEF f
<1> QED
  BY <1>1, <1>2, <1>3

\* What says nothing of event masks keeps everything.
LEMMA SendAtKeeps ==
  ASSUME NEW s \in Server, NEW k \in {0} \cup DOMAIN s.clients, NEW m \in Message,
         m.op # "SET_EVENT_MASK"
  PROVE  Keeps(s, SendAt(s, k, m), {})
<1>1. PICK t : t = SendAt(s, k, m)
  OBVIOUS
<1>2. /\ t.clients = s.clients /\ t.ic = s.ic /\ t.ic_free = s.ic_free
      /\ \/ t.out = s.out
         \/ /\ s.clients[k].client_win \in Client
            /\ t.out = [s.out EXCEPT ![s.clients[k].client_win] = Append(@, m)]
  BY <1>1, SendAtIs, SMTT(20)
<1>3. Spares(s, t, {})
  BY <1>2 DEF Spares, Kin
<1>4. ASSUME NEW d \in Client, NEW j
      PROVE  /\ About(t.out[d], j) = About(s.out[d], j)
             /\ \A b \in BOOLEAN : ToldBy(t.out[d], b, j) = ToldBy(s.out[d], b, j)
  <2>1. CASE t.out[d] = s.out[d]
    BY <2>1
  <2>2. CASE t.out[d] = Append(s.out[d], m)
    <3>1. s.out[d] \in Seq(Message)
      BY DEF Server
    <3>2. PICK q \in Seq(Message) : q = s.out[d]
      BY <3>1
    <3>3. /\ About(Append(q, m), j) = About(q, j)
          /\ \A b \in BOOLEAN : ToldBy(Append(q, m), b, j) = ToldBy(q, b, j)
      BY <3>2, ToldAppend
    <3> QED
      BY <2>2, <3>2, <3>3
  <2>3. s.out \in [Client -> Seq(Message)]
    BY DEF Server
  <2> QED
    BY <1>2, <2>1, <2>2, <2>3
<1>5. Tells(s, t)
  BY <1>2, <1>4 DEF Tells
<1> QED
  BY <1>1, <1>3, <1>5 DEF Keeps

\* An answer or a text, and what is sent about an IC.
LEMMA AnswerKeeps ==
  ASSUME NEW s \in Server, NEW c, NEW m \in Message, m.op # "SET_EVENT_MASK"
  PROVE  Keeps(s, Answer(s, c, m), {})
BY RecordPlace, SendAtKeeps DEF Answer

\* The same to a connection.
LEMMA SendKeeps ==
  ASSUME NEW s \in Server, NEW id, NEW m \in Message, m.op # "SET_EVENT_MASK"
  PROVE  Keeps(s, Send(s, id, m), {})
BY FindPlace, SendAtKeeps DEF Send

\* A client of which an IC is is the one its connect_id finds.
LEMMA OfFound ==
  ASSUME NEW s \in Server, Distinct(s), NEW j, NEW d
  PROVE  LET k == FindClient(s, s.ic[j].connect_id)
         IN  Of(s, j, d) <=> k # 0 /\ s.clients[k].client_win = d
<1> DEFINE k == FindClient(s, s.ic[j].connect_id)
<1>1. /\ k \in {0} \cup DOMAIN s.clients
      /\ k # 0 => s.clients[k].connect_id = s.ic[j].connect_id
      /\ (\E l \in DOMAIN s.clients : s.clients[l].connect_id = s.ic[j].connect_id)
            => k # 0
  BY FindPlace
<1> HIDE DEF k
<1>2. Of(s, j, d) <=> k # 0 /\ s.clients[k].client_win = d
  BY <1>1 DEF Of, Distinct
<1> QED
  BY <1>2 DEF k

\* An IC that is switched and its client, which is told.
LEMMA SwitchKeeps ==
  ASSUME NEW s \in Server, Distinct(s), NEW i \in InUse(s.ic), NEW b \in BOOLEAN,
         NEW n \in {0, 1}, b <=> n = 1
  PROVE  Keeps(s, SetEventMask([s EXCEPT !.ic[i].connected = b], i, n), {})
<1> DEFINE e == [s.ic[i] EXCEPT !.connected = b]
           r == [s EXCEPT !.ic[i].connected = b]
<1>1. s.ic \in [Id -> ICRecord] /\ i \in Id /\ s.ic[i] \in ICRecord
  BY DEF Server, InUse
<1>2. e \in ICRecord /\ e.connect_id = s.ic[i].connect_id
      /\ e.focus_win = s.ic[i].focus_win /\ e.connected = b
  BY <1>1 DEF ICRecord
<1>3. r = [s EXCEPT !.ic = [s.ic EXCEPT ![i] = e]]
  OBVIOUS
<1>4. /\ r \in Server /\ r.ic = [s.ic EXCEPT ![i] = e] /\ r.clients = s.clients
      /\ r.ic_free = s.ic_free /\ r.out = s.out
  BY <1>1, <1>2, <1>3 DEF Server
<1> HIDE DEF r, e
<1>5. PICK m : m = Msg("SET_EVENT_MASK", i, n)
  OBVIOUS
<1>6. m \in Message /\ m.op = "SET_EVENT_MASK" /\ m.icid = i /\ m.n = n
  <2>1. i \in Nat /\ n \in Number
    BY <1>1, Small
  <2> QED
    BY <1>5, <2>1, MsgType DEF Msg, Op
<1>7. PICK k : k = FindClient(r, s.ic[i].connect_id)
  OBVIOUS
<1>8. k \in {0} \cup DOMAIN r.clients
  BY <1>4, <1>7, FindPlace
<1>9. \A d : Of(s, i, d) <=> k # 0 /\ s.clients[k].client_win = d
  <2>1. FindClient(r, s.ic[i].connect_id) = FindClient(s, s.ic[i].connect_id)
    BY <1>4 DEF FindClient
  <2> QED
    BY <1>7, <2>1, OfFound
<1>10. PICK t : t = SendAt(r, k, m)
  OBVIOUS
<1>11. t = SetEventMask(r, i, n)
  BY <1>1, <1>2, <1>4, <1>5, <1>7, <1>10 DEF SetEventMask, Send
<1>17. /\ t.clients = r.clients /\ t.ic = r.ic /\ t.ic_free = r.ic_free
       /\ \/ /\ t.out = r.out
             /\ k # 0 => stage[r.clients[k].client_win] = "dead"
          \/ /\ k # 0
             /\ r.clients[k].client_win \in Client
             /\ t.out = [r.out EXCEPT ![r.clients[k].client_win] = Append(@, m)]
  <2>1. r \in Server /\ m \in Message /\ t = SendAt(r, k, m)
    BY <1>4, <1>6, <1>10
  <2> QED
    BY <1>8, <2>1, SendAtIs
<1>12. /\ t.clients = s.clients /\ t.ic = r.ic /\ t.ic_free = s.ic_free
       /\ \/ /\ t.out = s.out
             /\ k # 0 => stage[s.clients[k].client_win] = "dead"
          \/ /\ k # 0
             /\ s.clients[k].client_win \in Client
             /\ t.out = [s.out EXCEPT ![s.clients[k].client_win] = Append(@, m)]
  BY <1>4, <1>17
<1>13. \A j \in Id : /\ t.ic[j].connect_id = s.ic[j].connect_id
                     /\ t.ic[j].focus_win = s.ic[j].focus_win
                     /\ t.ic[j].connected = IF j = i THEN b ELSE s.ic[j].connected
  BY <1>1, <1>2, <1>4, <1>12
<1>14. InUse(t.ic) = InUse(s.ic) /\ InUse(s.ic) \subseteq Id
  BY <1>13 DEF InUse
<1>15. Spares(s, t, {})
  BY <1>12, <1>13, <1>14 DEF Spares, Kin
<1>16. Tells(s, t)
  <2> SUFFICES ASSUME NEW d \in Client, stage[d] # "dead"
               PROVE  /\ \A j \in InUse(t.ic) : Of(s, j, d) =>
                            \A h \in BOOLEAN :
                                ToldBy(s.out[d], h, j) = s.ic[j].connected
                                    => ToldBy(t.out[d], h, j) = t.ic[j].connected
                      /\ \A j : ~(j \in InUse(s.ic) /\ Of(s, j, d)) =>
                            About(t.out[d], j) = About(s.out[d], j)
    BY DEF Tells
  <2>1. s.out \in [Client -> Seq(Message)] /\ s.out[d] \in Seq(Message)
    BY DEF Server
  <2>2. CASE Of(s, i, d)
    <3>1. t.out[d] = Append(s.out[d], m)
      BY <1>9, <1>12, <2>1, <2>2
    <3>2. ASSUME NEW h \in BOOLEAN, NEW j
          PROVE  /\ j = i => ToldBy(t.out[d], h, j) = (n = 1)
                 /\ j # i => /\ ToldBy(t.out[d], h, j) = ToldBy(s.out[d], h, j)
                             /\ About(t.out[d], j) = About(s.out[d], j)
      BY <1>6, <2>1, <3>1, ToldAppend
    <3>3. b = (n = 1)
      OBVIOUS
    <3>4. ASSUME NEW j \in InUse(t.ic), NEW h \in BOOLEAN,
                 ToldBy(s.out[d], h, j) = s.ic[j].connected
          PROVE  ToldBy(t.out[d], h, j) = t.ic[j].connected
      <4>1. CASE j = i
        BY <1>1, <1>13, <3>2, <3>3, <4>1
      <4>2. CASE j # i
        BY <1>13, <1>14, <3>2, <3>4, <4>2
      <4> QED
        BY <4>1, <4>2
    <3>5. \A j : j # i => About(t.out[d], j) = About(s.out[d], j)
      BY <3>2
    <3> QED
      BY <2>2, <3>4, <3>5
  <2>3. CASE ~Of(s, i, d)
    <3>1. t.out[d] = s.out[d]
      BY <1>9, <1>12, <2>1, <2>3
    <3>2. \A j \in InUse(t.ic) : Of(s, j, d) => t.ic[j].connected = s.ic[j].connected
      BY <1>13, <1>14, <2>3
    <3> QED
      BY <3>1, <3>2
  <2> QED
    BY <2>2, <2>3
<1> QED
  BY <1>11, <1>15, <1>16 DEF Keeps, r

\* ICs that are given back: those of D, or doomed ones.
LEMMA DeleteKeeps ==
  ASSUME NEW s \in Server, NEW C \in SUBSET InUse(s.ic), NEW D,
         \A j \in C : j \in D \/ Doomed(s, j)
  PROVE  Keeps(s, Delete(s, C), D)
<1> DEFINE f == [i \in Id |-> IF i \in C THEN Unused ELSE s.ic[i]]
<1>1. PICK t : t = Delete(s, C)
  OBVIOUS
<1>2. /\ t.ic = f /\ t.ic_free = s.ic_free \cup C
      /\ t.clients = s.clients /\ t.out = s.out
  BY <1>1 DEF Delete, Server
<1>3. InUse(t.ic) = InUse(s.ic) \ C
  BY <1>2 DEF InUse, Unused
<1>4. \A j \in InUse(t.ic) : t.ic[j] = s.ic[j]
  BY <1>2, <1>3 DEF InUse
<1> HIDE DEF f
<1>5. Spares(s, t, D)
  BY <1>2, <1>3, <1>4 DEF Spares, Kin
<1>6. Tells(s, t)
  BY <1>2, <1>4 DEF Tells
<1> QED
  BY <1>1, <1>5, <1>6 DEF Keeps

\* A sweep takes doomed ones.
LEMMA CheckKeeps ==
  ASSUME NEW s \in Server, Distinct(s), NEW i, NEW due
  PROVE  Keeps(s, CheckIcExist(s, i, due), {})
<1>1. CASE due /\ i \in InUse(s.ic)
  <2>1. Swept(s, i) \in SUBSET InUse(s.ic)
    BY DEF Swept
  <2>2. ASSUME NEW j \in Swept(s, i) PROVE Doomed(s, j)
    <3>1. j \in InUse(s.ic) \ {i}
      BY DEF Swept
    <3>2. CASE s.ic[j].focus_win = s.ic[i].focus_win
      BY <1>1, <3>1, <3>2 DEF Doomed
    <3>3. CASE s.ic[j].focus_win # s.ic[i].focus_win
      <4>1. PICK k : k = FindClient(s, s.ic[j].connect_id)
        OBVIOUS
      <4>2. k # 0 /\ stage[s.clients[k].client_win] = "dead"
        BY <2>2, <3>3, <4>1 DEF Swept
      <4>3. Of(s, j, s.clients[k].client_win)
        BY <4>1, <4>2, OfFound
      <4>4. s.clients[k].client_win \in Client
        <5>1. k \in DOMAIN s.clients
          BY <4>1, <4>2, FindPlace
        <5>2. s.clients[k] \in Record
          BY <5>1, ElementOfSeq DEF Server
        <5> QED
          BY <5>2 DEF Record
      <4> QED
        BY <4>2, <4>3, <4>4 DEF Doomed
    <3> QED
      BY <3>2, <3>3
  <2> QED
    BY <1>1, <2>1, <2>2, DeleteKeeps DEF CheckIcExist
<1>2. CASE ~(due /\ i \in InUse(s.ic))
  BY <1>2, KeepsSelf DEF CheckIcExist
<1> QED
  BY <1>1, <1>2

\* Connections that were apart stay so.
LEMMA KinDistinct ==
  ASSUME NEW s, NEW t, Kin(s, t), Distinct(s)
  PROVE  Distinct(t)
BY DEF Kin, Distinct

\* What the helpers leave is a server whose connections are apart.
LEMMA ServesServer ==
  ASSUME NEW s, NEW t, NEW A, Serves(s, t, A), Distinct(s)
  PROVE  t \in Server /\ Distinct(t)
BY DEF Serves, Works, Distinct

\* Only what is asked here counts.
LEMMA SameKeeps ==
  ASSUME NEW s, NEW t, t.clients = s.clients, t.ic = s.ic, t.ic_free = s.ic_free,
         t.out = s.out
  PROVE  Keeps(s, t, {})
BY DEF Keeps, Spares, Tells, Kin

\* xim_connect() and xim_disconnect()
LEMMA ConnectKeeps ==
  ASSUME NEW s \in Server, Distinct(s), NEW i \in InUse(s.ic)
  PROVE  Keeps(s, Connect(s, i), {}) /\ Keeps(s, Disconnect(s, i), {})
<1>1. Connect(s, i) \in {s, SetEventMask([s EXCEPT !.ic[i].connected = TRUE], i, 1)}
  BY DEF Connect
<1>2. Disconnect(s, i) \in {s, SetEventMask([s EXCEPT !.ic[i].connected = FALSE], i, 0)}
  BY DEF Disconnect
<1>3. Keeps(s, SetEventMask([s EXCEPT !.ic[i].connected = TRUE], i, 1), {})
  BY SwitchKeeps
<1>4. ASSUME NEW b \in BOOLEAN, NEW n \in {0, 1}, b <=> n = 1
      PROVE  Keeps(s, SetEventMask([s EXCEPT !.ic[i].connected = b], i, n), {})
  BY <1>4, SwitchKeeps
<1>6. Keeps(s, SetEventMask([s EXCEPT !.ic[i].connected = FALSE], i, 0), {})
  <2>1. FALSE \in BOOLEAN /\ 0 \in {0, 1} /\ (FALSE <=> 0 = 1)
    OBVIOUS
  <2> QED
    BY <1>4, <2>1, Zenon
<1>5. Keeps(s, s, {})
  BY KeepsSelf
<1> QED
  BY <1>1, <1>2, <1>3, <1>5, <1>6

\* Whatever becomes of the connection of i.
LEMMA PreeditKeeps ==
  ASSUME NEW s \in Server, Distinct(s), NEW i \in InUse(s.ic), NEW p
  PROVE  Keeps(s, PreeditState(s, i, p), {})
BY ConnectKeeps, KeepsSelf DEF PreeditState

\* commit_string()
LEMMA StringKeeps ==
  ASSUME NEW s \in Server, NEW i \in InUse(s.ic)
  PROVE  /\ CommitString(s, i) \in Server /\ CommitString(s, i).ic = s.ic
         /\ CommitString(s, i).clients = s.clients
         /\ Keeps(s, CommitString(s, i), {})
<1> DEFINE b == <<i, s.ic[i].connect_id>>
<1>1. b \in Nat \X Nat
  <2>1. i \in Id /\ s.ic[i] \in ICRecord
    BY DEF InUse, Server
  <2> QED
    BY <2>1, Small DEF ICRecord
<1>2. CommitString(s, i) = [s EXCEPT !.buf = b]
  BY DEF CommitString
<1> HIDE DEF b
<1>3. PICK t : t = [s EXCEPT !.buf = b]
  OBVIOUS
<1>4. /\ t \in Server /\ t.clients = s.clients /\ t.ic = s.ic
      /\ t.ic_free = s.ic_free /\ t.out = s.out
  BY <1>1, <1>3 DEF Server
<1> QED
  BY <1>2, <1>3, <1>4, SameKeeps

\* xim_commit()
LEMMA CommitKeeps ==
  ASSUME NEW s \in Server
  PROVE  Keeps(s, Commit(s), {})
<1>1. CASE s.buf = NoText
  BY <1>1, KeepsSelf DEF Commit
<1>2. CASE s.buf # NoText
  <2>1. PICK t : t = [s EXCEPT !.buf = NoText]
    OBVIOUS
  <2>2. /\ t \in Server /\ t.clients = s.clients /\ t.ic = s.ic
        /\ t.ic_free = s.ic_free /\ t.out = s.out
    BY <2>1 DEF Server, NoText, NoId
  <2>3. PICK m : m = Msg("COMMIT", s.buf[1], 0)
    OBVIOUS
  <2>4. m \in Message /\ m.op = "COMMIT"
    <3>1. s.buf \in Nat \X Nat
      BY DEF Server
    <3> QED
      BY <2>3, <3>1, Small, MsgType DEF Op, Synchronous
  <2>5. Commit(s) = Send(t, s.buf[2], m)
    BY <1>2, <2>1, <2>3 DEF Commit
  <2>6. Keeps(t, Send(t, s.buf[2], m), {})
    BY <2>2, <2>4, SendKeeps
  <2> QED
    BY <2>2, <2>5, <2>6, SameKeeps, KeepsTwice
<1> QED
  BY <1>1, <1>2

\* Text that is handed back, and sent.
LEMMA TextKeeps ==
  ASSUME NEW s \in Server, NEW i \in InUse(s.ic)
  PROVE  Keeps(s, Commit(CommitString(s, i)), {})
<1>1. PICK t : t = CommitString(s, i)
  OBVIOUS
<1>2. t \in Server /\ Keeps(s, t, {})
  BY <1>1, StringKeeps
<1>3. Keeps(t, Commit(t), {})
  BY <1>2, CommitKeeps
<1> QED
  BY <1>1, <1>2, <1>3, KeepsTwice

\* ic_set_values()
LEMMA SetValuesKeeps ==
  ASSUME NEW s \in Server, Distinct(s), NEW i \in InUse(s.ic), NEW p, NEW text
  PROVE  Keeps(s, SetValues(s, i, p, text), {})
<1>1. PICK t : t = IF p = "off" /\ text THEN CommitString(s, i) ELSE s
  OBVIOUS
<1>2. SetValues(s, i, p, text) = PreeditState(t, i, p)
  BY <1>1 DEF SetValues
<1>3. /\ t \in Server /\ Keeps(s, t, {}) /\ t.ic = s.ic /\ t.clients = s.clients
  BY <1>1, StringKeeps, KeepsSelf
<1>4. Keeps(t, PreeditState(t, i, p), {})
  BY <1>3, PreeditKeeps DEF Distinct
<1> QED
  BY <1>2, <1>3, <1>4, KeepsTwice

\* The key that goes back, and the connection that waits from then on.
LEMMA BackKeeps ==
  ASSUME NEW s \in Server, Distinct(s), NEW c \in Client, NEW k \in DOMAIN s.clients,
         s.clients[k].client_win = c, NEW m \in Message, m.op = "FORWARD_EVENT"
  PROVE  Keeps(s, ForwardBack(s, Connection(s, c), m), {})
<1>1. RecordOf(s, c) = k
  BY RecordPlace DEF Distinct
<1>2. FindClient(s, Connection(s, c)) = k
  BY <1>1, FindPlace DEF Connection, Distinct
<1> DEFINE r == [s.clients[k] EXCEPT !.sync = TRUE]
<1>3. PICK w : w = [s EXCEPT !.clients = [s.clients EXCEPT ![k] = r]]
  OBVIOUS
<1>4. s.clients[k] \in Record /\ s.clients \in Seq(Record)
  BY ElementOfSeq DEF Server
<1>5. r \in Record /\ r.client_win = c /\ r.connect_id = s.clients[k].connect_id
  BY <1>4 DEF Record
<1>6. ForwardBack(s, Connection(s, c), m) = SendAt(w, k, m)
  BY <1>2, <1>3 DEF ForwardBack
<1> HIDE DEF r
<1>7. /\ w.clients = [s.clients EXCEPT ![k] = r] /\ w.ic_free = s.ic_free
      /\ w.ic = s.ic /\ w.out = s.out
  BY <1>3 DEF Server
<1>8. w.clients \in Seq(Record)
  BY <1>4, <1>5, <1>7, ExceptSeq
<1>9. w \in Server
  BY <1>3, <1>8 DEF Server
<1>10. Kin(s, w)
  BY <1>5, <1>7 DEF Kin
<1>11. Keeps(s, w, {})
  BY <1>7, <1>10 DEF Keeps, Spares, Tells
<1>12. k \in DOMAIN w.clients
  BY <1>7
<1>13. Keeps(w, SendAt(w, k, m), {})
  BY <1>9, <1>12, SendAtKeeps
<1> QED
  BY <1>6, <1>11, <1>13, KeepsTwice

\* xim_forward_handler()
LEMMA HandleKeyKeeps ==
  ASSUME NEW s \in Server, Distinct(s), NEW c \in Client, NEW k \in DOMAIN s.clients,
         s.clients[k].client_win = c, NEW m \in Message, NEW o
  PROVE  Keeps(s, HandleKey(s, c, m, o), {})
<1>1. PICK g : g = [s EXCEPT !.handled[c] = Append(@, m.n)]
  OBVIOUS
<1>2. [s.handled EXCEPT ![c] = Append(@, m.n)] \in [Client -> Seq(Number)]
  <2>1. s.handled \in [Client -> Seq(Number)] /\ m.n \in Number
    BY DEF Server, Message
  <2>2. Append(s.handled[c], m.n) \in Seq(Number)
    BY <2>1, AppendProperties
  <2> QED
    BY <2>1, <2>2
<1>3. /\ g.clients = s.clients /\ g.ic_free = s.ic_free /\ g.ic = s.ic /\ g.out = s.out
  BY <1>1 DEF Server
<1>4. g \in Server
  BY <1>1, <1>2 DEF Server
<1>5. Keeps(s, g, {})
  BY <1>3, SameKeeps
<1>6. CASE m.icid \notin InUse(s.ic)
  BY <1>1, <1>5, <1>6 DEF HandleKey
<1>7. CASE m.icid \in InUse(s.ic)
  <2>1. PICK i : i = m.icid
    OBVIOUS
  <2>2. i \in InUse(g.ic)
    BY <1>3, <1>7, <2>1
  <2>3. PICK told : told = Commit(IF o.commit THEN CommitString(g, i) ELSE g)
    OBVIOUS
  <2>4. Serves(g, told, {}) /\ told.ic = g.ic
    BY <1>4, <2>2, <2>3, TextServes, CommitServes
  <2>5. told \in Server /\ told.clients = s.clients /\ i \in InUse(told.ic)
    BY <1>3, <2>2, <2>4 DEF Serves, Works
  <2>6. Keeps(s, told, {})
    <3>1. Keeps(g, told, {})
      BY <1>4, <2>2, <2>3, TextKeeps, CommitKeeps
    <3> QED
      BY <1>5, <3>1, KeepsTwice
  <2>7. PICK b : b = Msg("FORWARD_EVENT", i, m.n)
    OBVIOUS
  <2>8. PICK u : u = IF o.ret = "off" THEN Disconnect(told, i)
                     ELSE IF o.ret = "back"
                     THEN ForwardBack(told, Connection(told, c), b)
                     ELSE told
    OBVIOUS
  <2>9. HandleKey(s, c, m, o) = CheckIcExist(u, i, o.due)
    BY <1>1, <1>7, <2>1, <2>3, <2>7, <2>8 DEF HandleKey, Forwarded
  <2>10. Distinct(told)
    BY <2>5 DEF Distinct
  <2>11. u \in Server /\ Keeps(s, u, {})
    <3>1. CASE o.ret = "off"
      <4>1. Keeps(told, u, {})
        BY <2>5, <2>8, <2>10, <3>1, ConnectKeeps
      <4>2. Serves(told, u, {})
        BY <2>5, <2>8, <3>1, ConnectServes
      <4> QED
        BY <2>6, <4>1, <4>2, KeepsTwice DEF Serves, Works
    <3>2. CASE o.ret # "off" /\ o.ret # "back"
      BY <2>5, <2>6, <2>8, <3>2
    <3>3. CASE o.ret = "back"
      <4>1. b \in Message /\ b.op = "FORWARD_EVENT"
        <5>1. i \in Nat /\ m.n \in Number
          BY <2>1 DEF Message
        <5> QED
          BY <2>7, <5>1, MsgType DEF Op, Synchronous
      <4>2. u = ForwardBack(told, Connection(told, c), b)
        BY <2>8, <3>3
      <4>3. Keeps(told, u, {})
        BY <2>5, <2>10, <4>1, <4>2, BackKeeps
      <4>4. Works(told, u)
        BY <2>5, <2>10, <4>1, <4>2, BackTook
      <4> QED
        BY <2>6, <4>3, <4>4, KeepsTwice DEF Works
    <3> QED
      BY <3>1, <3>2, <3>3
  <2>12. Distinct(u)
    BY <2>11, KinDistinct DEF Keeps, Spares
  <2>13. Keeps(u, CheckIcExist(u, i, o.due), {})
    BY <2>11, <2>12, CheckKeeps
  <2> QED
    BY <2>9, <2>11, <2>13, KeepsTwice
<1> QED
  BY <1>6, <1>7

\* One turn of ProcessQueue().
LEMMA TurnKeeps ==
  ASSUME NEW s \in Server, Distinct(s), NEW c \in Client, NEW k \in DOMAIN s.clients,
         s.clients[k].client_win = c, NEW q \in Seq(Key),
         NEW n \in Nat, n + 1 <= Len(q), NEW u, Pushed(s, u, c, k, q, n),
         Keeps(s, u, {}), NEW o
  PROVE  Keeps(s, TakeUp(u, c, k, q[n + 1], o), {})
<1>1. PICK r \in Record : /\ u.clients = [s.clients EXCEPT ![k] = r]
                          /\ r.client_win = c /\ r.connect_id = s.clients[k].connect_id
  BY DEF Pushed
<1>2. u \in Server
  BY DEF Pushed, Works
<1>3. u.clients[k] = r /\ DOMAIN u.clients = DOMAIN s.clients
      /\ u.clients \in Seq(Record)
  BY <1>1, <1>2 DEF Server
<1>4. CASE r.sync
  BY <1>3, <1>4 DEF TakeUp
<1>5. CASE ~r.sync
  <2>1. PICK m : m = q[n + 1]
    OBVIOUS
  <2>2. m \in Message
    <3>1. n + 1 \in 1 .. Len(q)
      OBVIOUS
    <3> QED
      BY <2>1, <3>1, ElementOfSeq DEF Key
  <2>3. PICK p : p = Tail(r.pending)
    OBVIOUS
  <2>4. p \in Seq(Key)
    <3>1. r.pending = SubSeq(q, n + 1, Len(q))
      <4>1. PICK r2 \in Record : /\ u.clients = [s.clients EXCEPT ![k] = r2]
                                 /\ ~r2.sync => r2.pending = SubSeq(q, n + 1, Len(q))
        BY DEF Pushed
      <4>2. s.clients \in Seq(Record)
        BY DEF Server
      <4>3. r2 = r
        BY <1>3, <4>1, <4>2
      <4> QED
        BY <1>5, <4>1, <4>3
    <3>2. n + 1 \in 1 .. Len(q) /\ Len(q) \in n + 1 .. Len(q)
      OBVIOUS
    <3>3. Tail(r.pending) = SubSeq(q, (n + 1) + 1, Len(q))
      BY <3>1, <3>2, HeadTailOfSubSeq
    <3>4. PICK l \in Int : l = (n + 1) + 1
      OBVIOUS
    <3>5. \A i \in l .. Len(q) : q[i] \in Key
      <4>1. l .. Len(q) \subseteq 1 .. Len(q)
        BY <3>4
      <4> QED
        BY <4>1, ElementOfSeq
    <3>6. Len(q) \in Int
      OBVIOUS
    <3>7. SubSeq(q, l, Len(q)) \in Seq(Key)
      BY <3>5, <3>6, SubSeqProperties
    <3> QED
      BY <2>3, <3>3, <3>4, <3>7
  <2>5. PICK r1 : r1 = [r EXCEPT !.pending = p]
    OBVIOUS
  <2>6. r1 \in Record /\ r1.client_win = c /\ r1.connect_id = s.clients[k].connect_id
    BY <1>1, <2>4, <2>5 DEF Record
  <2>7. PICK v : v = [u EXCEPT !.clients = [u.clients EXCEPT ![k] = r1]]
    OBVIOUS
  <2>8. TakeUp(u, c, k, q[n + 1], o) = HandleKey(v, c, m, o)
    <3>1. [u EXCEPT !.clients[k].pending = Tail(@)] = v
      BY <1>3, <2>3, <2>5, <2>7
    <3> QED
      BY <1>3, <1>5, <2>1, <3>1 DEF TakeUp
  <2>9. /\ v.clients = [u.clients EXCEPT ![k] = r1] /\ v.ic_free = u.ic_free
        /\ v.ic = u.ic /\ v.out = u.out
    BY <1>2, <2>7 DEF Server
  <2>10. v.clients \in Seq(Record) /\ DOMAIN v.clients = DOMAIN u.clients
         /\ v.clients[k] = r1
         /\ \A l \in DOMAIN u.clients : l # k => v.clients[l] = u.clients[l]
    <3>1. k \in 1 .. Len(u.clients)
      BY <1>3
    <3>2. v.clients \in Seq(Record)
      BY <1>3, <2>6, <2>9, <3>1, ExceptSeq
    <3> QED
      BY <1>1, <1>3, <2>9, <3>2
  <2>11. v \in Server
    BY <1>2, <2>7, <2>9, <2>10 DEF Server
  <2>12. Kin(u, v)
    BY <1>1, <1>3, <2>6, <2>10 DEF Kin
  <2>13. Keeps(u, v, {})
    BY <2>9, <2>12 DEF Keeps, Spares, Tells
  <2>14. Keeps(s, v, {})
    BY <2>13, KeepsTwice
  <2>15. Distinct(v)
    BY <2>14, KinDistinct DEF Keeps, Spares
  <2>16. k \in DOMAIN v.clients /\ v.clients[k].client_win = c
    BY <1>3, <2>6, <2>10
  <2>17. Keeps(v, HandleKey(v, c, m, o), {})
    BY <2>2, <2>11, <2>15, <2>16, HandleKeyKeeps
  <2> QED
    BY <2>8, <2>14, <2>17, KeepsTwice
<1> QED
  BY <1>4, <1>5

\* ProcessQueue()
LEMMA QueueKeeps ==
  ASSUME NEW s \in Server, Distinct(s), NEW c \in Client, NEW k \in DOMAIN s.clients,
         s.clients[k].client_win = c, ~s.clients[k].sync, NEW os
  PROVE  Keeps(s, ProcessQueue(s, c, k, os), {})
<1>1. PICK q : q = s.clients[k].pending
  OBVIOUS
<1>2. s.clients[k] \in Record /\ q \in Seq(Key) /\ Len(q) \in Nat
  <2>1. s.clients[k] \in Record
    BY ElementOfSeq DEF Server
  <2>2. q \in Seq(Key)
    BY <1>1, <2>1 DEF Record
  <2> QED
    BY <2>1, <2>2, LenProperties
<1>3. PICK f : IsAfter(f, s, c, k, q, os, Len(q)) /\ ProcessQueue(s, c, k, os) = f[Len(q)]
  <2> DEFINE f == CHOOSE g : IsAfter(g, s, c, k, s.clients[k].pending, os,
                                     Len(s.clients[k].pending))
  <2>1. Len(s.clients[k].pending) \in Nat
    BY <1>1, <1>2
  <2>2. \E g : IsAfter(g, s, c, k, s.clients[k].pending, os, Len(s.clients[k].pending))
    BY <2>1, AfterExists
  <2>3. IsAfter(f, s, c, k, s.clients[k].pending, os, Len(s.clients[k].pending))
    BY <2>2
  <2>4. ProcessQueue(s, c, k, os) = f[Len(s.clients[k].pending)]
    BY DEF ProcessQueue, IsAfter, TakeUp
  <2> QED
    BY <1>1, <2>3, <2>4
<1>4. \A n \in 0 .. Len(q) :
          f[n] = IF n = 0 THEN s ELSE TakeUp(f[n - 1], c, k, q[n], os[n])
  BY <1>3 DEF IsAfter
<1> DEFINE S == {n \in Nat : n <= Len(q) =>
                                Pushed(s, f[n], c, k, q, n) /\ Keeps(s, f[n], {})}
<1>5. 0 \in S
  <2>1. f[0] = s
    BY <1>2, <1>4
  <2>2. Works(s, s) /\ Sends(s, s, {})
    BY ServesSelf DEF Serves
  <2>3. s.clients = [s.clients EXCEPT ![k] = s.clients[k]]
    <3>1. s.clients \in Seq(Record)
      BY DEF Server
    <3> QED
      BY <3>1
  <2>4. SubSeq(q, 0 + 1, Len(q)) = q
    BY <1>2, SubSeqFull
  <2>5. Pushed(s, s, c, k, q, 0)
    BY <1>1, <1>2, <2>2, <2>3, <2>4 DEF Pushed
  <2> QED
    BY <2>1, <2>5, KeepsSelf
<1>6. ASSUME NEW n \in Nat, n \in S PROVE n + 1 \in S
  <2> SUFFICES ASSUME n + 1 <= Len(q)
               PROVE  Pushed(s, f[n + 1], c, k, q, n + 1) /\ Keeps(s, f[n + 1], {})
    OBVIOUS
  <2>1. n <= Len(q) /\ n + 1 \in 0 .. Len(q) /\ n + 1 # 0 /\ (n + 1) - 1 = n
    BY <1>2
  <2>2. Pushed(s, f[n], c, k, q, n) /\ Keeps(s, f[n], {})
    BY <1>6, <2>1
  <2>3. f[n + 1] = TakeUp(f[n], c, k, q[n + 1], os[n + 1])
    BY <1>4, <2>1
  <2>4. Pushed(s, f[n + 1], c, k, q, n + 1)
    BY <1>2, <2>2, <2>3, PushOne
  <2>5. Keeps(s, f[n + 1], {})
    BY <1>2, <2>2, <2>3, TurnKeeps
  <2> QED
    BY <2>4, <2>5
<1> HIDE DEF S
<1>7. \A n \in Nat : n \in S
  BY <1>5, <1>6, SetInduction
<1>8. Keeps(s, f[Len(q)], {})
  BY <1>2, <1>7 DEF S
<1> QED
  BY <1>3, <1>8

----------------------------------------------------------------------------
(* The invariants: whose ICs are whose, and who knows of them.             *)

\* Every IC has a connection, and a window of the client whose connection it is;
\* ids on the free list are not in use.
Sound(s) ==
    /\ Linked(s)
    /\ \A i \in InUse(s.ic) : \A d \in Client :
          Of(s, i, d) => \E w \in Number : s.ic[i].focus_win = <<d, w>>
    /\ s.ic_free \cap InUse(s.ic) = {}

\* O are ICs of d with windows of their own, and O are all of them.
Holds(s, d, O) ==
    /\ \A i \in O : i \in InUse(s.ic) /\ Of(s, i, d)
    /\ \A i, j \in O : s.ic[i].focus_win = s.ic[j].focus_win => i = j
AllOf(s, d, O) == \A i \in InUse(s.ic) : Of(s, i, d) => i \in O

\* d knows of the ICs O, when it has read what is under way, whether they are on.
Fits(s, d, O) ==
    \A i \in O : ToldBy(s.out[d], i \in mask[d], i) = s.ic[i].connected

\* The ids that were given to c and that it has not asked to destroy, those it
\* is destroying, those that were destroyed without its having read so, and the
\* ids of its ICs.
Given(c) == held[c] \cup {to_client[c][n].icid : n \in Places(to_client[c], {"CREATE_IC"})}
Leaving(c) == {to_server[c][n].icid : n \in Places(to_server[c], {"DESTROY_IC"})}
Left(c) == {to_client[c][n].icid : n \in Places(to_client[c], {"DESTROY_IC"})}
Own(c) == Given(c) \cup Leaving(c)

\* The client has sent CLOSE, and the server has not taken it.
Closing(c) == waits[c] = "CLOSE" /\ Sent(c, "CLOSE")

\* What an IC has to be there for to be answered.
AboutIC == {"SET_IC_VALUES", "GET_IC_VALUES", "TRIGGER_NOTIFY"}

\* What the client takes for its ICs are its ICs, and all of them.
Owns(c) ==
    /\ Holds(Core, c, Own(c))
    /\ Closing(c) \/ AllOf(Core, c, Own(c))
    /\ (Leaving(c) \cup Left(c)) \cap held[c] = {}
    /\ \A n \in Places(to_server[c], {"CREATE_IC"}) : \A i \in Own(c) :
          ic[i].focus_win # <<c, to_server[c][n].n>>
    /\ \A n \in Places(to_server[c], AboutIC) : to_server[c][n].icid \in held[c]
    /\ held[c] # {} => stage[c] = "open" /\ waits[c] # "CLOSE"

\* What is waited for is under way.
Owed(c) ==
    waits[c] # None => \/ Places(to_server[c], Answered) # {}
                       \/ Places(to_client[c], Answered) # {}

\* Unless somebody died while destroying an IC.
OwnInv ==
    /\ Sound(Core)
    /\ ~DiedAsking({"DESTROY_IC"}) => \A c \in Client : Alive(c) => Owns(c) /\ Owed(c)

\* The client knows of its ICs and hears of no others, and what it hears of an IC
\* it hears before it reads that the IC is gone.
Knows(c) ==
    /\ Fits(Core, c, Own(c))
    /\ stage[c] = "open" /\ waits[c] # "CLOSE" =>
          \A i \in Nat : i \notin Own(c) \cup Left(c) =>
              About(to_client[c], i) = {} /\ i \notin mask[c]
    /\ stage[c] \in {"off", "known", "closed"} =>
          Places(to_client[c], {"SET_EVENT_MASK"}) = {}
    /\ stage[c] \in {"off", "known"} \/ waits[c] = "DISCONNECT" => mask[c] = {}
    /\ \A n \in Places(to_client[c], {"CLOSE"}) :
          \A m \in Places(to_client[c], {"SET_EVENT_MASK"}) : m < n
    /\ \A n \in Places(to_client[c], {"DESTROY_IC"}) :
          \A m \in About(to_client[c], to_client[c][n].icid) : m < n

\* Unless somebody died while destroying an IC or switching one on.
MaskInv ==
    ~DiedAsking({"DESTROY_IC", "TRIGGER_NOTIFY"}) => \A c \in Client : Alive(c) => Knows(c)

\* What of Spares holds too when a connection is made or ended.
Passes(s, t, D) ==
    /\ \A j \in InUse(t.ic) : /\ j \in InUse(s.ic)
                              /\ t.ic[j].focus_win = s.ic[j].focus_win
                              /\ \A d : Of(t, j, d) <=> Of(s, j, d)
    /\ \A j \in InUse(s.ic) \ InUse(t.ic) : j \in D \/ Doomed(s, j)
    /\ \A j \in t.ic_free : j \in s.ic_free \/ j \notin InUse(t.ic)
    /\ Linked(s) => Linked(t)

\* What is spared passes.
LEMMA SparesPass ==
  ASSUME NEW s, NEW t, NEW D, Spares(s, t, D)
  PROVE  Passes(s, t, D)
<1>1. \A j \in InUse(t.ic) : \A d : Of(t, j, d) <=> Of(s, j, d)
  BY SameOf
<1>2. Linked(s) => Linked(t)
  BY DEF Linked, Spares, Kin
<1> QED
  BY <1>1, <1>2 DEF Passes, Spares

\* An IC is one client's.
LEMMA OneOwner ==
  ASSUME NEW s, Distinct(s), NEW j, NEW d, NEW e, Of(s, j, d), Of(s, j, e)
  PROVE  d = e
BY DEF Of, Distinct

\* What goes on being sound,
LEMMA SoundOn ==
  ASSUME NEW s, NEW t, NEW D, Passes(s, t, D), Sound(s)
  PROVE  Sound(t)
<1>1. \A i \in InUse(t.ic) : \A d \in Client :
          Of(t, i, d) => \E w \in Number : t.ic[i].focus_win = <<d, w>>
  BY DEF Passes, Sound
<1>2. t.ic_free \cap InUse(t.ic) = {}
  BY DEF Passes, Sound
<1> QED
  BY <1>1, <1>2 DEF Passes, Sound

\* is held, because no IC of a client that lives and has all it has is doomed,
LEMMA HoldsLess ==
  ASSUME NEW s \in Server, Distinct(s), Sound(s), NEW t, NEW D, Passes(s, t, D),
         NEW d \in Client, stage[d] # "dead", NEW O, Holds(s, d, O),
         O = {} \/ AllOf(s, d, O)
  PROVE  Holds(t, d, O \ D) /\ (AllOf(s, d, O) => AllOf(t, d, O))
<1>1. ASSUME NEW j \in O \ D PROVE j \in InUse(t.ic)
  <2>1. j \in InUse(s.ic) /\ Of(s, j, d) /\ j \notin D
    BY DEF Holds
  <2>2. PICK w \in Number : s.ic[j].focus_win = <<d, w>>
    BY <2>1 DEF Sound
  <2>3. ASSUME NEW i \in InUse(s.ic) \ {j}, s.ic[i].focus_win = s.ic[j].focus_win
        PROVE  FALSE
    <3>1. PICK k \in DOMAIN s.clients : s.clients[k].connect_id = s.ic[i].connect_id
      BY DEF Sound, Linked
    <3>2. PICK e : e = s.clients[k].client_win
      OBVIOUS
    <3>3. e \in Client
      <4>1. s.clients[k] \in Record
        BY ElementOfSeq DEF Server
      <4> QED
        BY <3>2, <4>1 DEF Record
    <3>4. Of(s, i, e)
      BY <3>1, <3>2 DEF Of
    <3>5. e = d
      BY <2>2, <2>3, <3>3, <3>4 DEF Sound
    <3>6. i \in O
      BY <3>4, <3>5 DEF AllOf
    <3> QED
      BY <2>3, <3>6 DEF Holds
  <2>4. ASSUME NEW e \in Client, Of(s, j, e), stage[e] = "dead" PROVE FALSE
    BY <2>1, <2>4, OneOwner
  <2>5. ~Doomed(s, j)
    BY <2>3, <2>4 DEF Doomed
  <2> QED
    BY <2>1, <2>5 DEF Passes
<1>2. \A j \in O \ D : Of(t, j, d) /\ t.ic[j].focus_win = s.ic[j].focus_win
  BY <1>1 DEF Holds, Passes
<1>3. Holds(t, d, O \ D)
  BY <1>1, <1>2 DEF Holds
<1>4. AllOf(s, d, O) => AllOf(t, d, O)
  BY DEF AllOf, Passes
<1> QED
  BY <1>3, <1>4

\* all of it, if none of it goes,
LEMMA HoldsOn ==
  ASSUME NEW s \in Server, Distinct(s), Sound(s), NEW t, NEW D, Passes(s, t, D),
         NEW d \in Client, stage[d] # "dead", NEW O, Holds(s, d, O),
         O \cap D = {}, O = {} \/ AllOf(s, d, O)
  PROVE  Holds(t, d, O) /\ (AllOf(s, d, O) => AllOf(t, d, O))
<1>1. O \ D = O
  OBVIOUS
<1> QED
  BY <1>1, HoldsLess

\* fits,
LEMMA FitsOn ==
  ASSUME NEW s, NEW t, Tells(s, t), NEW d \in Client, stage[d] # "dead", NEW O,
         Holds(s, d, O), Holds(t, d, O), Fits(s, d, O)
  PROVE  Fits(t, d, O)
<1> SUFFICES ASSUME NEW i \in O
             PROVE  ToldBy(t.out[d], i \in mask[d], i) = t.ic[i].connected
  BY DEF Fits
<1>1. i \in InUse(t.ic) /\ Of(s, i, d)
  BY DEF Holds
<1>2. \A b \in BOOLEAN : ToldBy(s.out[d], b, i) = s.ic[i].connected
                            => ToldBy(t.out[d], b, i) = t.ic[i].connected
  BY <1>1 DEF Tells
<1>3. CASE i \in mask[d]
  <2>1. (i \in mask[d]) = TRUE
    BY <1>3
  <2>2. ToldBy(s.out[d], TRUE, i) = s.ic[i].connected
    BY <2>1, Zenon DEF Fits
  <2>3. ToldBy(t.out[d], TRUE, i) = t.ic[i].connected
    BY <1>2, <2>2
  <2> QED
    BY <2>1, <2>3, Zenon
<1>4. CASE i \notin mask[d]
  <2>1. (i \in mask[d]) = FALSE
    BY <1>4
  <2>2. ToldBy(s.out[d], FALSE, i) = s.ic[i].connected
    BY <2>1, Zenon DEF Fits
  <2>3. ToldBy(t.out[d], FALSE, i) = t.ic[i].connected
    BY <1>2, <2>2
  <2> QED
    BY <2>1, <2>3, Zenon
<1> QED
  BY <1>3, <1>4

\* and is not disturbed by what is sent to others.
LEMMA SilentOn ==
  ASSUME NEW s, NEW t, Tells(s, t), NEW d \in Client, stage[d] # "dead", NEW O,
         AllOf(s, d, O), NEW j, j \notin O
  PROVE  About(t.out[d], j) = About(s.out[d], j)
BY DEF AllOf, Tells

----------------------------------------------------------------------------
(* What the server's steps do to the queues, and so to the invariants.     *)

\* The request that is under way is the only one, and nothing is answered;
LEMMA OneRequest ==
  ASSUME IInv, NEW d \in Client, NEW op \in Answered, Sent(d, op)
  PROVE  /\ waits[d] = op
         /\ \A x \in Answered : Places(to_client[d], {x}) = {}
         /\ \A x \in Answered : x # op => Places(to_server[d], {x}) = {}
         /\ Places(to_client[d], Answered) = {}
<1>1. PICK n \in Places(to_server[d], {op}) : TRUE
  BY DEF Sent
<1>2. n \in Places(to_server[d], Answered) /\ to_server[d][n].op = op
  BY <1>1 DEF Places
<1>3. /\ waits[d] = op /\ Places(to_server[d], Answered) = {n}
      /\ Places(to_client[d], Answered) = {}
  BY <1>2 DEF IInv, Awaited
<1>4. \A x \in Answered : Places(to_client[d], {x}) \subseteq Places(to_client[d], Answered)
  BY DEF Places
<1>5. ASSUME NEW x \in Answered, x # op, NEW m \in Places(to_server[d], {x}) PROVE FALSE
  <2>1. m \in Places(to_server[d], Answered) /\ to_server[d][m].op = x
    BY <1>5 DEF Places
  <2> QED
    BY <1>2, <1>3, <1>5, <2>1
<1> QED
  BY <1>3, <1>4, <1>5

\* and so is the answer.
LEMMA OneAnswer ==
  ASSUME IInv, NEW d \in Client, NEW op \in Answered, NEW n \in Places(to_client[d], {op})
  PROVE  /\ waits[d] = op
         /\ \A x \in Answered : Places(to_server[d], {x}) = {}
         /\ \A x \in Answered : x # op => Places(to_client[d], {x}) = {}
         /\ Places(to_client[d], {op}) = {n}
         /\ Places(to_server[d], Answered) = {}
<1>2. n \in Places(to_client[d], Answered) /\ to_client[d][n].op = op
  BY DEF Places
<1>3. /\ waits[d] = op /\ Places(to_client[d], Answered) = {n}
      /\ Places(to_server[d], Answered) = {}
  BY <1>2 DEF IInv, Awaited
<1>4. \A x \in Answered : Places(to_server[d], {x}) \subseteq Places(to_server[d], Answered)
  BY DEF Places
<1>5. ASSUME NEW x \in Answered, NEW m \in Places(to_client[d], {x}) PROVE m = n /\ x = op
  <2>1. m \in Places(to_client[d], Answered) /\ to_client[d][m].op = x
    BY <1>5 DEF Places
  <2> QED
    BY <1>2, <1>3, <2>1
<1> QED
  BY <1>3, <1>4, <1>5

\* Whoever closes has no ICs left.
LEMMA ClosingOwnsNone ==
  ASSUME IInv, NEW d \in Client, held[d] = {} \/ waits[d] # "CLOSE", Sent(d, "CLOSE")
  PROVE  Own(d) = {} /\ waits[d] = "CLOSE"
<1>1. {"CLOSE", "CREATE_IC", "DESTROY_IC"} \subseteq Answered
  BY DEF Answered
<1>2. /\ waits[d] = "CLOSE" /\ Places(to_client[d], {"CREATE_IC"}) = {}
      /\ Places(to_server[d], {"DESTROY_IC"}) = {}
  BY <1>1, OneRequest
<1> QED
  BY <1>2 DEF Own, Given, Leaving

\* What is left of the messages when the server has taken one was there,
LEMMA TakesFrom ==
  ASSUME IInv, NEW c \in Client, Takes(c), NEW d \in Client, NEW ops,
         NEW n \in Places(to_server'[d], ops)
  PROVE  \E m \in Places(to_server[d], ops) : to_server'[d][n] = to_server[d][m]
<1>1. to_server \in [Client -> Seq(Message)]
  BY DEF IInv, Typed
<1>2. CASE d # c
  BY <1>1, <1>2 DEF Takes
<1>3. CASE d = c
  <2>1. PICK q \in Seq(Message) : q = to_server[c] /\ q # <<>>
    BY <1>1 DEF Takes
  <2>2. to_server'[d] = Tail(q) /\ to_server[d] = q
    BY <1>1, <1>3, <2>1 DEF Takes
  <2>3. n + 1 \in Places(q, ops) /\ Tail(q)[n] = q[n + 1]
    BY <2>1, <2>2, PoppedPlaces
  <2> QED
    BY <2>2, <2>3, Zenon
<1> QED
  BY <1>2, <1>3

\* and what was there is left, unless it was the one,
LEMMA TakesLeft ==
  ASSUME IInv, NEW c \in Client, Takes(c), NEW d \in Client, NEW ops,
         d # c \/ Head(to_server[c]).op \notin ops, NEW m \in Places(to_server[d], ops)
  PROVE  \E n \in Places(to_server'[d], ops) : to_server'[d][n] = to_server[d][m]
<1>1. to_server \in [Client -> Seq(Message)]
  BY DEF IInv, Typed
<1>2. CASE d # c
  BY <1>1, <1>2 DEF Takes
<1>3. CASE d = c
  <2>1. PICK q \in Seq(Message) : q = to_server[c] /\ q # <<>>
    BY <1>1 DEF Takes
  <2>2. to_server'[d] = Tail(q) /\ to_server[d] = q /\ Head(q).op \notin ops
    BY <1>1, <1>3, <2>1 DEF Takes
  <2>3. m - 1 \in Places(Tail(q), ops) /\ Tail(q)[m - 1] = q[m]
    BY <2>1, <2>2, PoppedPlaces
  <2> QED
    BY <2>2, <2>3, Zenon
<1> QED
  BY <1>2, <1>3

\* and answers nobody else.
LEMMA OthersAnswered ==
  ASSUME IInv, NEW c \in Client, Sends(Core, Core', {<<c, Head(to_server[c]).op>>}),
         NEW d \in Client, NEW ops \in SUBSET Answered,
         d # c \/ Head(to_server[c]).op \notin ops
  PROVE  /\ Places(to_client'[d], ops) = Places(to_client[d], ops)
         /\ \A n \in Places(to_client[d], ops) : to_client'[d][n] = to_client[d][n]
<1>1. /\ DOMAIN to_client[d] \subseteq DOMAIN to_client'[d]
      /\ \A n \in DOMAIN to_client[d] : to_client'[d][n] = to_client[d][n]
  BY DEF Sends, Core
<1>2. ASSUME NEW n \in DOMAIN to_client'[d] \ DOMAIN to_client[d], to_client'[d][n].op \in ops
      PROVE  FALSE
  <2>1. n \in NewAnswers(Core, Core', d)
    BY <1>2 DEF NewAnswers, Core
  <2>2. <<d, to_client'[d][n].op>> = <<c, Head(to_server[c]).op>>
    BY <2>1 DEF Sends, Core
  <2> QED
    BY <1>2, <2>2
<1> QED
  BY <1>1, <1>2 DEF Places

\* Ids change hands only with CREATE_IC and DESTROY_IC.
LEMMA OwnStays ==
  ASSUME IInv, NEW c \in Client, Takes(c),
         Sends(Core, Core', {<<c, Head(to_server[c]).op>>}), NEW d \in Client
  PROVE  /\ d # c \/ Head(to_server[c]).op # "CREATE_IC" => Given(d)' = Given(d)
         /\ d # c \/ Head(to_server[c]).op # "DESTROY_IC" =>
               Leaving(d)' = Leaving(d) /\ Left(d)' = Left(d)
<1>1. {"CREATE_IC"} \in SUBSET Answered /\ {"DESTROY_IC"} \in SUBSET Answered
  BY DEF Answered
<1>2. held' = held
  BY DEF Takes, clientVars
<1>3. ASSUME d # c \/ Head(to_server[c]).op # "CREATE_IC" PROVE Given(d)' = Given(d)
  <2>1. /\ Places(to_client'[d], {"CREATE_IC"}) = Places(to_client[d], {"CREATE_IC"})
        /\ \A n \in Places(to_client[d], {"CREATE_IC"}) : to_client'[d][n] = to_client[d][n]
    BY <1>1, <1>3, OthersAnswered
  <2> QED
    BY <1>2, <2>1 DEF Given
<1>4. ASSUME d # c \/ Head(to_server[c]).op # "DESTROY_IC"
      PROVE  Leaving(d)' = Leaving(d) /\ Left(d)' = Left(d)
  <2>1. /\ Places(to_client'[d], {"DESTROY_IC"}) = Places(to_client[d], {"DESTROY_IC"})
        /\ \A n \in Places(to_client[d], {"DESTROY_IC"}) : to_client'[d][n] = to_client[d][n]
    BY <1>1, <1>4, OthersAnswered
  <2>2. /\ \A n \in Places(to_server'[d], {"DESTROY_IC"}) :
              \E m \in Places(to_server[d], {"DESTROY_IC"}) :
                  to_server'[d][n] = to_server[d][m]
        /\ \A m \in Places(to_server[d], {"DESTROY_IC"}) :
              \E n \in Places(to_server'[d], {"DESTROY_IC"}) :
                  to_server'[d][n] = to_server[d][m]
    <3>1. ASSUME NEW n \in Places(to_server'[d], {"DESTROY_IC"})
          PROVE  \E m \in Places(to_server[d], {"DESTROY_IC"}) :
                     to_server'[d][n] = to_server[d][m]
      BY <3>1, TakesFrom
    <3>2. ASSUME NEW m \in Places(to_server[d], {"DESTROY_IC"})
          PROVE  \E n \in Places(to_server'[d], {"DESTROY_IC"}) :
                     to_server'[d][n] = to_server[d][m]
      <4>1. d # c \/ Head(to_server[c]).op \notin {"DESTROY_IC"}
        BY <1>4
      <4> QED
        BY <3>2, <4>1, TakesLeft
    <3> QED
      BY <3>1, <3>2
  <2>3. Left(d)' = Left(d)
    BY <2>1 DEF Left
  <2>4. Leaving(d)' = Leaving(d)
    BY <2>2 DEF Leaving
  <2> QED
    BY <2>3, <2>4
<1> QED
  BY <1>3, <1>4

\* A step of the server that has made b of what was stored (b is Core, or has the
\* new IC) when it does what is said of the helpers.  Those of D may go.
Minds(b, c, D) ==
    /\ Takes(c)
    /\ b \in Server /\ Distinct(b) /\ Sound(b) /\ b.out = to_client
    /\ Passes(b, Core', D)
    /\ Sends(Core, Core', {<<c, Head(to_server[c]).op>>})
    /\ Head(to_server[c]).op \in Answered /\ Alive(c) /\ ~DiedAsking({"DESTROY_IC"})
          => Places(to_client'[c], Answered) # {}
    /\ ~DiedAsking({"DESTROY_IC", "TRIGGER_NOTIFY"}) => Tells(b, Core')

\* What is waited for goes on being under way.
LEMMA OwedOn ==
  ASSUME IInv, NEW c \in Client, NEW b, NEW D, Minds(b, c, D),
         ~DiedAsking({"DESTROY_IC"}), NEW d \in Client, Alive(d), Owed(d)
  PROVE  Owed(d)'
<1>1. waits' = waits
  BY DEF Minds, Takes, clientVars
<1>2. Places(to_client[d], Answered) \subseteq Places(to_client'[d], Answered)
  <2>1. Sends(Core, Core', {<<c, Head(to_server[c]).op>>})
    BY DEF Minds
  <2> QED
    BY <2>1, SendsGrow DEF Core
<1>3. CASE d # c \/ Head(to_server[c]).op \notin Answered
  <2>1. Places(to_server[d], Answered) # {} => Places(to_server'[d], Answered) # {}
    BY <1>3, TakesLeft DEF Minds
  <2> QED
    BY <1>1, <1>2, <2>1 DEF Owed
<1>4. CASE d = c /\ Head(to_server[c]).op \in Answered
  BY <1>4 DEF Minds, Owed
<1> QED
  BY <1>3, <1>4

\* A client goes on owning what it owned of b,
LEMMA MindsOwns ==
  ASSUME IInv, NEW c \in Client, NEW b, NEW D, Minds(b, c, D),
         NEW d \in Client, Alive(d), Owns(d),
         \A i \in Own(d) : b.ic[i] = ic[i],
         Holds(b, d, Own(d)), Closing(d) \/ AllOf(b, d, Own(d)), D \cap Own(d) = {},
         d # c \/ Head(to_server[c]).op \notin {"CREATE_IC", "DESTROY_IC", "CLOSE"}
  PROVE  Owns(d)'
<1>1. /\ Takes(c) /\ b \in Server /\ Distinct(b) /\ Sound(b)
      /\ Passes(b, Core', D) /\ Sends(Core, Core', {<<c, Head(to_server[c]).op>>})
  BY DEF Minds
<1>2. UNCHANGED <<stage, waits, held, mask>>
  BY <1>1 DEF Takes, clientVars
<1>3. Own(d)' = Own(d) /\ Leaving(d)' = Leaving(d) /\ Left(d)' = Left(d)
  BY <1>1, OwnStays DEF Own
<1>4. Closing(d)' <=> Closing(d)
  <2>1. /\ \A n \in Places(to_server'[d], {"CLOSE"}) : Places(to_server[d], {"CLOSE"}) # {}
        /\ \A n \in Places(to_server[d], {"CLOSE"}) : Places(to_server'[d], {"CLOSE"}) # {}
    BY <1>1, TakesFrom, TakesLeft
  <2> QED
    BY <1>2, <2>1 DEF Closing, Sent
<1>5. Closing(d) => Own(d) = {}
  BY ClosingOwnsNone DEF Closing, Owns
<1>6. Holds(Core', d, Own(d)) /\ (AllOf(b, d, Own(d)) => AllOf(Core', d, Own(d)))
  <2>1. stage[d] # "dead"
    BY DEF Alive
  <2>2. PICK O : O = Own(d)
    OBVIOUS
  <2>3. Holds(b, d, O) /\ O \cap D = {} /\ (O = {} \/ AllOf(b, d, O))
    BY <1>5, <2>2
  <2>4. Holds(Core', d, O) /\ (AllOf(b, d, O) => AllOf(Core', d, O))
    BY <1>1, <2>1, <2>3, HoldsOn
  <2> QED
    BY <2>2, <2>4
<1>7. \A i \in Own(d) : ic'[i].focus_win = ic[i].focus_win
  BY <1>1, <1>6 DEF Holds, Passes, Core
<1>8. ASSUME NEW n \in Places(to_server'[d], {"CREATE_IC"}), NEW i \in Own(d)
      PROVE  ic'[i].focus_win # <<d, to_server'[d][n].n>>
  <2>1. PICK m \in Places(to_server[d], {"CREATE_IC"}) :
            to_server'[d][n] = to_server[d][m]
    BY <1>1, TakesFrom
  <2> QED
    BY <1>7, <2>1 DEF Owns
<1>9. ASSUME NEW n \in Places(to_server'[d], AboutIC)
      PROVE  to_server'[d][n].icid \in held[d]
  <2>1. PICK m \in Places(to_server[d], AboutIC) : to_server'[d][n] = to_server[d][m]
    BY <1>1, TakesFrom
  <2> QED
    BY <2>1 DEF Owns
<1>10. Holds(Core', d, Own(d)') /\ (Closing(d)' \/ AllOf(Core', d, Own(d)'))
  BY <1>3, <1>4, <1>6
<1>11. (Leaving(d)' \cup Left(d)') \cap held'[d] = {}
       /\ (held'[d] # {} => stage'[d] = "open" /\ waits'[d] # "CLOSE")
  BY <1>2, <1>3 DEF Owns
<1>12. \A n \in Places(to_server'[d], {"CREATE_IC"}) : \A i \in Own(d)' :
           ic'[i].focus_win # <<d, to_server'[d][n].n>>
  BY <1>3, <1>8
<1>13. \A n \in Places(to_server'[d], AboutIC) : to_server'[d][n].icid \in held'[d]
  BY <1>2, <1>9
<1> QED
  BY <1>10, <1>11, <1>12, <1>13 DEF Owns

\* Who has no connection, or has closed it, has no ICs.
LEMMA NotOpenOwnsNone ==
  ASSUME IInv, NEW d \in Client, Alive(d), Owns(d), stage[d] # "open"
  PROVE  Own(d) = {} /\ ~Closing(d)
<1>1. {"CLOSE", "CREATE_IC", "DESTROY_IC"} \subseteq Answered
  BY DEF Answered
<1>2. /\ waits[d] = "CLOSE" => stage[d] \in {"open", "dead"}
      /\ waits[d] = "CREATE_IC" => stage[d] \in {"open", "dead"}
      /\ waits[d] = "DESTROY_IC" => stage[d] \in {"open", "dead"}
  BY <1>1 DEF IInv, Staged
<1>3. waits[d] \notin {"CLOSE", "CREATE_IC", "DESTROY_IC"}
  BY <1>2 DEF Alive
<1>4. Places(to_client[d], {"CREATE_IC"}) = {}
  BY <1>1, <1>3, OneAnswer
<1>5. Places(to_server[d], {"DESTROY_IC"}) = {}
  BY <1>1, <1>3, OneRequest DEF Sent
<1>6. held[d] = {}
  BY DEF Owns
<1> QED
  BY <1>3, <1>4, <1>5, <1>6 DEF Own, Given, Leaving, Closing

\* Who is answered CLOSE has no ICs, and who is answered DESTROY_IC not that one.
LEMMA AnsweredOwnsNot ==
  ASSUME IInv, NEW d \in Client, Owns(d)
  PROVE  /\ Places(to_client[d], {"CLOSE"}) # {} => Own(d) = {} /\ ~Closing(d)
         /\ \A n \in Places(to_client[d], {"DESTROY_IC"}) :
               to_client[d][n].icid \notin Own(d) /\ ~Closing(d)
<1>1. {"CLOSE", "CREATE_IC", "DESTROY_IC"} \subseteq Answered
  BY DEF Answered
<1>2. ASSUME NEW n \in Places(to_client[d], {"CLOSE"}) PROVE Own(d) = {} /\ ~Closing(d)
  <2>1. /\ waits[d] = "CLOSE" /\ Places(to_client[d], {"CREATE_IC"}) = {}
        /\ Places(to_server[d], {"DESTROY_IC"}) = {}
        /\ Places(to_server[d], {"CLOSE"}) = {}
    BY <1>1, OneAnswer
  <2>2. held[d] = {}
    BY <2>1 DEF Owns
  <2> QED
    BY <2>1, <2>2 DEF Own, Given, Leaving, Closing, Sent
<1>3. ASSUME NEW n \in Places(to_client[d], {"DESTROY_IC"})
      PROVE  to_client[d][n].icid \notin Own(d) /\ ~Closing(d)
  <2>1. /\ waits[d] = "DESTROY_IC" /\ Places(to_client[d], {"CREATE_IC"}) = {}
        /\ Places(to_server[d], {"DESTROY_IC"}) = {}
    BY <1>1, OneAnswer
  <2>2. to_client[d][n].icid \notin held[d]
    BY DEF Owns, Left
  <2> QED
    BY <2>1, <2>2 DEF Own, Given, Leaving, Closing
<1> QED
  BY <1>2, <1>3

\* Messages that say the same of every IC.
LEMMA AboutAll ==
  ASSUME NEW x, NEW y, \A j : About(x, j) = About(y, j)
  PROVE  Places(x, {"SET_EVENT_MASK"}) = Places(y, {"SET_EVENT_MASK"})
<1>1. \A n \in Places(x, {"SET_EVENT_MASK"}) : n \in About(x, x[n].icid)
  BY DEF About
<1>2. \A n \in Places(y, {"SET_EVENT_MASK"}) : n \in About(y, y[n].icid)
  BY DEF About
<1> QED
  BY <1>1, <1>2 DEF About

\* and a client goes on knowing what it knew.
LEMMA MindsKnows ==
  ASSUME IInv, NEW c \in Client, NEW b, NEW D, Minds(b, c, D),
         ~DiedAsking({"DESTROY_IC", "TRIGGER_NOTIFY"}),
         NEW d \in Client, Alive(d), Owns(d), Owns(d)', Knows(d),
         \A i \in Own(d) : b.ic[i] = ic[i],
         Holds(b, d, Own(d)), Closing(d) \/ AllOf(b, d, Own(d)),
         d # c \/ Head(to_server[c]).op \notin {"CREATE_IC", "DESTROY_IC", "CLOSE"}
  PROVE  Knows(d)'
<1>1. /\ Takes(c) /\ b.out = to_client /\ Tells(b, Core')
      /\ Sends(Core, Core', {<<c, Head(to_server[c]).op>>})
  BY DEF Minds
<1>2. UNCHANGED <<stage, waits, held, mask>> /\ stage[d] # "dead"
  BY <1>1 DEF Takes, clientVars, Alive
<1>3. Own(d)' = Own(d) /\ Left(d)' = Left(d)
  BY <1>1, OwnStays DEF Own
<1>4. ASSUME ~Closing(d), NEW j, j \notin Own(d)
      PROVE  About(to_client'[d], j) = About(to_client[d], j)
  <2>1. About(Core'.out[d], j) = About(b.out[d], j)
    BY <1>1, <1>2, <1>4, SilentOn
  <2> QED
    BY <1>1, <2>1 DEF Core
<1>5. Fits(Core, d, Own(d))'
  <2>1. Fits(b, d, Own(d))
    BY <1>1 DEF Knows, Fits, Core
  <2>2. Holds(Core', d, Own(d))
    BY <1>3 DEF Owns
  <2>3. Fits(Core', d, Own(d))
    BY <1>1, <1>2, <2>1, <2>2, FitsOn
  <2> QED
    BY <1>2, <1>3, <2>3 DEF Fits
<1>6. ASSUME stage[d] = "open", waits[d] # "CLOSE", NEW i \in Nat,
             i \notin Own(d) \cup Left(d)
      PROVE  About(to_client'[d], i) = {} /\ i \notin mask[d]
  <2>1. ~Closing(d)
    BY <1>6 DEF Closing
  <2> QED
    BY <1>4, <1>6, <2>1 DEF Knows
<1>7. ASSUME Own(d) = {}, ~Closing(d)
      PROVE  Places(to_client'[d], {"SET_EVENT_MASK"}) = Places(to_client[d], {"SET_EVENT_MASK"})
  BY <1>4, <1>7, AboutAll
<1>8. stage[d] \in {"off", "known", "closed"} =>
          Places(to_client'[d], {"SET_EVENT_MASK"}) = {}
  BY <1>7, NotOpenOwnsNone DEF Knows
<1>9. ASSUME NEW n \in Places(to_client'[d], {"CLOSE"}),
             NEW m \in Places(to_client'[d], {"SET_EVENT_MASK"})
      PROVE  m < n
  <2>1. {"CLOSE"} \in SUBSET Answered
    BY DEF Answered
  <2>2. Places(to_client'[d], {"CLOSE"}) = Places(to_client[d], {"CLOSE"})
    BY <1>1, <2>1, OthersAnswered
  <2>3. Own(d) = {} /\ ~Closing(d)
    BY <1>9, <2>2, AnsweredOwnsNot
  <2> QED
    BY <1>7, <1>9, <2>2, <2>3 DEF Knows
<1>10. ASSUME NEW n \in Places(to_client'[d], {"DESTROY_IC"}),
              NEW m \in About(to_client'[d], to_client'[d][n].icid)
       PROVE  m < n
  <2>1. {"DESTROY_IC"} \in SUBSET Answered
    BY DEF Answered
  <2>2. n \in Places(to_client[d], {"DESTROY_IC"}) /\ to_client'[d][n] = to_client[d][n]
    BY <1>1, <1>10, <2>1, OthersAnswered
  <2>3. to_client[d][n].icid \notin Own(d) /\ ~Closing(d)
    BY <2>2, AnsweredOwnsNot
  <2>4. m \in About(to_client[d], to_client[d][n].icid)
    BY <1>4, <1>10, <2>2, <2>3
  <2> QED
    BY <2>2, <2>4 DEF Knows
<1>11. stage[d] \in {"off", "known"} \/ waits[d] = "DISCONNECT" => mask[d] = {}
  BY DEF Knows
<1> QED
  BY <1>2, <1>3, <1>5, <1>6, <1>8, <1>9, <1>10, <1>11 DEF Knows

\* Nobody dies when the server works.
LEMMA TakesDied ==
  ASSUME NEW c, Takes(c), NEW ops
  PROVE  /\ DiedAsking(ops)' <=> DiedAsking(ops)
         /\ \A d \in Client : Alive(d)' <=> Alive(d)
BY DEF Takes, clientVars, DiedAsking, Alive

\* A step that takes no request to make or destroy an IC, or to close, keeps both.
LEMMA MindsPlain ==
  ASSUME IInv, OwnInv, MaskInv, NEW c \in Client, Minds(Core, c, {}),
         Head(to_server[c]).op \notin {"CREATE_IC", "DESTROY_IC", "CLOSE"}
  PROVE  OwnInv' /\ MaskInv'
<1>1. Takes(c)
  BY DEF Minds
<1>2. Sound(Core')
  BY SoundOn DEF Minds
<1>3. ASSUME ~DiedAsking({"DESTROY_IC"}), NEW d \in Client, Alive(d)
      PROVE  Owns(d) /\ Owns(d)' /\ Owed(d)'
  <2>1. Owns(d) /\ Owed(d)
    BY <1>3 DEF OwnInv
  <2>2. Holds(Core, d, Own(d)) /\ (Closing(d) \/ AllOf(Core, d, Own(d)))
        /\ \A i \in Own(d) : Core.ic[i] = ic[i]
    BY <2>1 DEF Owns, Core
  <2>3. Owns(d)'
    BY <1>3, <2>1, <2>2, MindsOwns
  <2>4. Owed(d)'
    BY <1>3, <2>1, OwedOn
  <2> QED
    BY <2>1, <2>3, <2>4
<1>4. ASSUME ~DiedAsking({"DESTROY_IC", "TRIGGER_NOTIFY"}), NEW d \in Client, Alive(d)
      PROVE  Knows(d)'
  <2>1. ~DiedAsking({"DESTROY_IC"}) /\ Knows(d)
    BY <1>4 DEF MaskInv, DiedAsking
  <2>2. Owns(d) /\ Owns(d)'
    BY <1>3, <1>4, <2>1
  <2>3. Holds(Core, d, Own(d)) /\ (Closing(d) \/ AllOf(Core, d, Own(d)))
        /\ \A i \in Own(d) : Core.ic[i] = ic[i]
    BY <2>2 DEF Owns, Core
  <2> QED
    BY <1>4, <2>1, <2>2, <2>3, MindsKnows
<1>5. OwnInv'
  BY <1>1, <1>2, <1>3, TakesDied DEF OwnInv
<1>6. MaskInv'
  BY <1>1, <1>4, TakesDied DEF MaskInv
<1> QED
  BY <1>5, <1>6

\* The last of the messages q is m.
Ends(q, m) == \E x \in Seq(Message) : q = Append(x, m)

\* The answer that the server sends is the last thing under way, and the only
\* answer.
LEMMA LastAnswered ==
  ASSUME IInv', NEW c \in Client, NEW op \in Answered, NEW m \in Message, m.op = op,
         Ends(to_client'[c], m)
  PROVE  /\ \A n \in Places(to_client'[c], {op}) : to_client'[c][n] = m
         /\ \A n \in Places(to_client'[c], {op}) :
               \A k \in Places(to_client'[c], {"SET_EVENT_MASK"}) : k < n
         /\ \E n \in Places(to_client'[c], {op}) : to_client'[c][n] = m
         /\ \A y \in Answered : y # op => Places(to_client'[c], {y}) = {}
         /\ Places(to_server'[c], Answered) = {} /\ Places(to_client'[c], Answered) # {}
<1>0. PICK x \in Seq(Message) : to_client'[c] = Append(x, m)
  BY DEF Ends
<1> DEFINE N == Len(x) + 1
<1>1. /\ Places(Append(x, m), {op}) \subseteq Places(Append(x, m), Answered)
      /\ \A y \in Answered :
            Places(Append(x, m), {y}) \subseteq Places(Append(x, m), Answered)
  BY DEF Places
<1>2. N \in Places(Append(x, m), {op}) /\ Append(x, m)[N] = m
  BY PushedPlaces
<1>3. Awaited(c)'
  BY DEF IInv
<1>4. /\ Places(to_client'[c], Answered) = {N}
      /\ Places(to_server'[c], Answered) = {}
  BY <1>0, <1>1, <1>2, <1>3 DEF Awaited
<1>5. Places(to_client'[c], {op}) = {N} /\ to_client'[c][N] = m
  BY <1>0, <1>1, <1>2, <1>4
<1>6. ASSUME NEW y \in Answered, y # op, NEW n \in Places(to_client'[c], {y}) PROVE FALSE
  <2>1. n = N
    BY <1>0, <1>1, <1>4, <1>6
  <2> QED
    BY <1>0, <1>2, <1>6, <2>1 DEF Places
<1>7. ASSUME NEW n \in Places(to_client'[c], {"SET_EVENT_MASK"}) PROVE n < N
  <2>1. "SET_EVENT_MASK" \notin Answered
    BY DEF Answered, Queries
  <2>2. n \in DOMAIN Append(x, m) /\ Append(x, m)[n].op = "SET_EVENT_MASK"
    BY <1>0, <1>7 DEF Places
  <2>3. n # N
    BY <1>2, <2>1, <2>2
  <2>4. DOMAIN Append(x, m) = 1 .. N /\ N \in Nat
    BY AppendProperties
  <2> QED
    BY <2>2, <2>3, <2>4
<1> HIDE DEF N
<1> QED
  BY <1>4, <1>5, <1>6, <1>7

\* What is said of the client that asked, and of the others, makes both.
LEMMA MindsSplit ==
  ASSUME IInv, OwnInv, MaskInv, NEW c \in Client, NEW b, NEW D, Minds(b, c, D),
         ~DiedAsking({"DESTROY_IC"}) =>
            \A d \in Client : d # c /\ Alive(d) =>
                /\ \A i \in Own(d) : b.ic[i] = ic[i]
                /\ Holds(b, d, Own(d)) /\ (Closing(d) \/ AllOf(b, d, Own(d)))
                /\ D \cap Own(d) = {},
         ~DiedAsking({"DESTROY_IC"}) /\ Alive(c) => Owns(c)' /\ Owed(c)',
         ~DiedAsking({"DESTROY_IC", "TRIGGER_NOTIFY"}) /\ Alive(c) => Knows(c)'
  PROVE  OwnInv' /\ MaskInv'
<1>1. Takes(c)
  BY DEF Minds
<1>2. Sound(Core')
  BY SoundOn DEF Minds
<1>3. ASSUME ~DiedAsking({"DESTROY_IC"}), NEW d \in Client, Alive(d), d # c
      PROVE  Owns(d) /\ Owns(d)' /\ Owed(d)'
  <2>1. Owns(d) /\ Owed(d)
    BY <1>3 DEF OwnInv
  <2>2. Owns(d)'
    BY <1>3, <2>1, MindsOwns
  <2>3. Owed(d)'
    BY <1>3, <2>1, OwedOn
  <2> QED
    BY <2>1, <2>2, <2>3
<1>4. ASSUME ~DiedAsking({"DESTROY_IC", "TRIGGER_NOTIFY"}), NEW d \in Client, Alive(d),
             d # c
      PROVE  Knows(d)'
  <2>1. ~DiedAsking({"DESTROY_IC"}) /\ Knows(d)
    BY <1>4 DEF MaskInv, DiedAsking
  <2>2. Owns(d) /\ Owns(d)'
    BY <1>3, <1>4, <2>1
  <2> QED
    BY <1>4, <2>1, <2>2, MindsKnows
<1>5. OwnInv'
  BY <1>1, <1>2, <1>3, TakesDied DEF OwnInv
<1>6. MaskInv'
  BY <1>1, <1>4, TakesDied DEF MaskInv
<1> QED
  BY <1>5, <1>6

\* CLOSE: the ICs of D, which are those of c, go.
LEMMA MindsClose ==
  ASSUME IInv, IInv', OwnInv, MaskInv, NEW c \in Client, NEW D, Minds(Core, c, D),
         Head(to_server[c]).op = "CLOSE", \A i \in D : Of(Core, i, c),
         Alive(c) => Ends(to_client'[c], Msg("CLOSE", NoId, 0))
  PROVE  OwnInv' /\ MaskInv'
<1>1. Takes(c) /\ Distinct(Core)
  BY DEF Minds
<1>2. {"CLOSE", "CREATE_IC", "DESTROY_IC"} \cup AboutIC \subseteq Answered
  BY DEF Answered, AboutIC
<1>3. waits[c] = "CLOSE" /\ UNCHANGED <<stage, waits, held, mask>>
  BY <1>1, <1>2, RequestTaken DEF Takes, clientVars
<1>4. ASSUME ~DiedAsking({"DESTROY_IC"}), NEW d \in Client, d # c, Alive(d)
      PROVE  /\ \A i \in Own(d) : Core.ic[i] = ic[i]
             /\ Holds(Core, d, Own(d)) /\ (Closing(d) \/ AllOf(Core, d, Own(d)))
             /\ D \cap Own(d) = {}
  <2>1. Owns(d)
    BY <1>4 DEF OwnInv
  <2>2. \A i \in Own(d) : i \notin D
    BY <1>1, <1>4, <2>1, OneOwner DEF Owns, Holds
  <2> QED
    BY <2>1, <2>2 DEF Owns, Core
<1>5. ASSUME Alive(c)
      PROVE  /\ Places(to_client'[c], {"CREATE_IC"}) = {}
             /\ Places(to_client'[c], {"DESTROY_IC"}) = {}
             /\ Places(to_server'[c], Answered) = {}
             /\ Places(to_client'[c], Answered) # {}
             /\ \A n \in Places(to_client'[c], {"CLOSE"}) :
                   \A m \in Places(to_client'[c], {"SET_EVENT_MASK"}) : m < n
  <2>1. PICK m : m = Msg("CLOSE", NoId, 0)
    OBVIOUS
  <2>2. m \in Message /\ m.op = "CLOSE" /\ "CLOSE" \in Answered
    BY <1>2, <2>1, Small DEF Msg, Message, Op, NoId
  <2>3. Ends(to_client'[c], m)
    BY <1>5, <2>1
  <2>4. /\ \A n \in Places(to_client'[c], {"CLOSE"}) :
              \A k \in Places(to_client'[c], {"SET_EVENT_MASK"}) : k < n
        /\ \A y \in Answered : y # "CLOSE" => Places(to_client'[c], {y}) = {}
        /\ Places(to_server'[c], Answered) = {} /\ Places(to_client'[c], Answered) # {}
    BY <2>2, <2>3, LastAnswered
  <2> QED
    BY <1>2, <2>4
<1>6. ASSUME Alive(c) PROVE /\ Places(to_server'[c], {"CREATE_IC"}) = {}
                            /\ Places(to_server'[c], {"DESTROY_IC"}) = {}
                            /\ Places(to_server'[c], {"CLOSE"}) = {}
                            /\ Places(to_server'[c], AboutIC) = {}
  BY <1>2, <1>5, <1>6 DEF Places
<1>7. ASSUME ~DiedAsking({"DESTROY_IC"}), Alive(c) PROVE Owns(c)' /\ Owed(c)' /\ Own(c)' = {}
  <2>1. held[c] = {}
    BY <1>3, <1>7 DEF OwnInv, Owns
  <2>2. Own(c)' = {}
    BY <1>3, <1>5, <1>6, <1>7, <2>1 DEF Own, Given, Leaving
  <2>3. Closed(c)'
    <3>1. stage[c] \in {"open", "dead"}
      BY <1>3 DEF IInv, Staged
    <3> QED
      BY <1>3, <1>6, <1>7, <3>1 DEF Closed, Sent, Alive
  <2>4. AllOf(Core', c, {})
    <3>1. \A k \in DOMAIN clients' : clients'[k].client_win = c =>
              \A i \in Id : ic'[i].connect_id # clients'[k].connect_id
      BY <2>3 DEF IInv, Cleaned
    <3> QED
      BY <3>1 DEF AllOf, Of, Core, InUse
  <2>5. Owns(c)'
    BY <1>3, <1>6, <1>7, <2>1, <2>2, <2>4 DEF Owns, Holds
  <2> QED
    BY <1>5, <1>7, <2>2, <2>5 DEF Owed
<1>8. ASSUME ~DiedAsking({"DESTROY_IC", "TRIGGER_NOTIFY"}), Alive(c) PROVE Knows(c)'
  <2>1. Own(c)' = {}
    BY <1>7, <1>8 DEF DiedAsking
  <2>2. stage[c] = "open"
    BY <1>3, <1>8 DEF IInv, Staged, Alive
  <2> QED
    BY <1>3, <1>5, <1>8, <2>1, <2>2 DEF Knows, Fits
<1> QED
  BY <1>4, <1>7, <1>8, MindsSplit

\* DESTROY_IC: the IC that is asked for goes, if the client lives; one who is gone
\* may name the IC of another.
LEMMA MindsDestroy ==
  ASSUME IInv, IInv', OwnInv, MaskInv, NEW c \in Client,
         NEW i, i = Head(to_server[c]).icid, Minds(Core, c, {i}),
         Head(to_server[c]).op = "DESTROY_IC",
         Alive(c) => /\ i \notin InUse(ic') /\ i \in Nat
                     /\ Ends(to_client'[c], Msg("DESTROY_IC", i, 0))
  PROVE  OwnInv' /\ MaskInv'
<1>1. Takes(c) /\ Core \in Server /\ Distinct(Core) /\ Sound(Core)
      /\ Passes(Core, Core', {i})
  BY DEF Minds
<1>2. {"CLOSE", "CREATE_IC", "DESTROY_IC"} \cup AboutIC \subseteq Answered
  BY DEF Answered, AboutIC
<1>3. waits[c] = "DESTROY_IC" /\ UNCHANGED <<stage, waits, held, mask>>
  BY <1>1, <1>2, RequestTaken DEF Takes, clientVars
<1>4. /\ Sent(c, "DESTROY_IC") /\ 1 \in DOMAIN to_server[c]
      /\ to_server[c][1] = Head(to_server[c])
  BY <1>1, <1>2, RequestTaken
<1>5. i \in Leaving(c)
  BY <1>4 DEF Leaving, Places
<1>6. Leaving(c) = {i} /\ Left(c) = {} /\ Given(c) = held[c]
  <2>1. /\ \A y \in Answered : Places(to_client[c], {y}) = {}
    BY <1>2, <1>4, OneRequest
  <2>2. 1 \in Places(to_server[c], Answered)
    BY <1>2, <1>4 DEF Places
  <2>3. Places(to_server[c], Answered) = {1}
    BY <2>2 DEF IInv, Awaited
  <2>4. Places(to_server[c], {"DESTROY_IC"}) = {1}
    BY <1>2, <1>4, <2>3 DEF Places
  <2> QED
    BY <1>2, <1>4, <2>1, <2>4 DEF Leaving, Left, Given
<1>7. ASSUME ~DiedAsking({"DESTROY_IC"})
      PROVE  /\ Alive(c) /\ Owns(c) /\ i \notin held[c] /\ Of(Core, i, c)
             /\ Own(c) = held[c] \cup {i} /\ ~Closing(c)
  <2>1. Alive(c)
    BY <1>3, <1>7 DEF DiedAsking
  <2>2. Owns(c)
    BY <1>7, <2>1 DEF OwnInv
  <2>3. i \notin held[c] /\ Own(c) = held[c] \cup {i}
    BY <1>6, <2>2 DEF Owns, Own
  <2>4. Of(Core, i, c)
    BY <2>2, <2>3 DEF Owns, Holds
  <2> QED
    BY <1>3, <2>1, <2>2, <2>3, <2>4 DEF Closing
<1>8. ASSUME ~DiedAsking({"DESTROY_IC"}), NEW d \in Client, d # c, Alive(d)
      PROVE  /\ \A j \in Own(d) : Core.ic[j] = ic[j]
             /\ Holds(Core, d, Own(d)) /\ (Closing(d) \/ AllOf(Core, d, Own(d)))
             /\ {i} \cap Own(d) = {}
  <2>1. Owns(d)
    BY <1>8 DEF OwnInv
  <2>2. i \notin Own(d)
    BY <1>1, <1>7, <1>8, <2>1, OneOwner DEF Owns, Holds
  <2> QED
    BY <2>1, <2>2 DEF Owns, Core
<1>9. ASSUME Alive(c)
      PROVE  /\ Places(to_client'[c], {"CREATE_IC"}) = {}
             /\ Places(to_client'[c], {"CLOSE"}) = {}
             /\ Places(to_server'[c], Answered) = {}
             /\ Places(to_client'[c], Answered) # {}
             /\ Left(c)' = {i}
             /\ \A n \in Places(to_client'[c], {"DESTROY_IC"}) :
                   \A m \in Places(to_client'[c], {"SET_EVENT_MASK"}) : m < n
  <2>1. PICK m : m = Msg("DESTROY_IC", i, 0)
    OBVIOUS
  <2>2. m \in Message /\ m.op = "DESTROY_IC" /\ "DESTROY_IC" \in Answered /\ m.icid = i
    BY <1>2, <1>9, <2>1, Small DEF Msg, Message, Op
  <2>3. Ends(to_client'[c], m)
    BY <1>9, <2>1
  <2>4. /\ \A n \in Places(to_client'[c], {"DESTROY_IC"}) : to_client'[c][n] = m
        /\ \A n \in Places(to_client'[c], {"DESTROY_IC"}) :
              \A k \in Places(to_client'[c], {"SET_EVENT_MASK"}) : k < n
        /\ \E n \in Places(to_client'[c], {"DESTROY_IC"}) : to_client'[c][n] = m
        /\ \A y \in Answered : y # "DESTROY_IC" => Places(to_client'[c], {y}) = {}
        /\ Places(to_server'[c], Answered) = {} /\ Places(to_client'[c], Answered) # {}
    BY <2>2, <2>3, LastAnswered
  <2>5. Left(c)' = {i}
    BY <2>2, <2>4 DEF Left
  <2> QED
    BY <1>2, <2>4, <2>5
<1>10. ASSUME Alive(c) PROVE /\ Places(to_server'[c], {"CREATE_IC"}) = {}
                             /\ Places(to_server'[c], {"DESTROY_IC"}) = {}
                             /\ Places(to_server'[c], {"CLOSE"}) = {}
                             /\ Places(to_server'[c], AboutIC) = {}
  BY <1>2, <1>9, <1>10 DEF Places
<1>11. ASSUME ~DiedAsking({"DESTROY_IC"})
       PROVE  Own(c)' = held[c] /\ Holds(Core', c, held[c]) /\ AllOf(Core', c, held[c])
  <2>1. Own(c)' = held[c]
    BY <1>3, <1>7, <1>9, <1>10, <1>11 DEF Own, Given, Leaving
  <2>2. stage[c] # "dead"
    BY <1>7, <1>11 DEF Alive
  <2>3. PICK O : O = Own(c)
    OBVIOUS
  <2>4. Holds(Core, c, O) /\ AllOf(Core, c, O)
    BY <1>7, <1>11, <2>3 DEF Owns
  <2>5. Holds(Core', c, O \ {i}) /\ AllOf(Core', c, O)
    BY <1>1, <2>2, <2>4, HoldsLess
  <2>6. O \ {i} = held[c]
    BY <1>7, <1>11, <2>3
  <2>7. AllOf(Core', c, held[c])
    BY <1>7, <1>11, <2>3, <2>5 DEF AllOf, Core
  <2> QED
    BY <2>1, <2>5, <2>6, <2>7
<1>12. ASSUME ~DiedAsking({"DESTROY_IC"}) PROVE Owns(c)' /\ Owed(c)'
  <2>1. Owns(c)'
    BY <1>3, <1>7, <1>9, <1>10, <1>11, <1>12 DEF Owns, Leaving
  <2> QED
    BY <1>7, <1>9, <1>12, <2>1 DEF Owed
<1>13. ASSUME ~DiedAsking({"DESTROY_IC", "TRIGGER_NOTIFY"}) PROVE Knows(c)'
  <2>1. ~DiedAsking({"DESTROY_IC"})
    BY <1>13 DEF DiedAsking
  <2>2. Knows(c) /\ stage[c] # "dead" /\ Tells(Core, Core')
    BY <1>7, <1>13, <2>1 DEF MaskInv, Alive, Minds
  <2>3. stage[c] = "open"
    BY <1>2, <1>3, <2>2 DEF IInv, Staged
  <2>4. Holds(Core, c, held[c]) /\ Fits(Core, c, held[c]) /\ AllOf(Core, c, Own(c))
    BY <1>7, <2>1, <2>2 DEF Owns, Knows, Holds, Fits
  <2>5. Fits(Core', c, held[c])
    BY <1>11, <2>1, <2>2, <2>4, FitsOn
  <2>6. Fits(Core, c, Own(c))'
    BY <1>3, <1>11, <2>1, <2>5 DEF Fits
  <2>7. ASSUME NEW j \in Nat, j \notin Own(c)' \cup Left(c)'
        PROVE  About(to_client'[c], j) = {} /\ j \notin mask[c]
    <3>1. j \notin Own(c) \cup Left(c)
      BY <1>6, <1>7, <1>9, <1>11, <2>1, <2>7
    <3>2. About(Core'.out[c], j) = About(Core.out[c], j)
      BY <2>2, <2>4, <3>1, SilentOn
    <3>3. About(to_client[c], j) = {} /\ j \notin mask[c]
      BY <1>3, <2>2, <2>3, <3>1 DEF Knows
    <3> QED
      BY <3>2, <3>3 DEF Core
  <2>8. \A n \in Places(to_client'[c], {"DESTROY_IC"}) :
            \A m \in About(to_client'[c], to_client'[c][n].icid) : m < n
    BY <1>7, <1>9, <2>1 DEF About
  <2> QED
    BY <1>3, <1>7, <1>9, <2>1, <2>3, <2>6, <2>7, <2>8 DEF Knows
<1> QED
  BY <1>8, <1>12, <1>13, MindsSplit

\* CREATE_IC: the client has one IC more, off, in a window none of its ICs has.
LEMMA MindsCreate ==
  ASSUME IInv, IInv', OwnInv, MaskInv, NEW c \in Client,
         Head(to_server[c]).op = "CREATE_IC", NEW i \in Id \ InUse(ic),
         NEW b, Minds(b, c, {}), NEW new, b.ic = [ic EXCEPT ![i] = new],
         b.clients = clients, i \in InUse(b.ic), Of(b, i, c), ~new.connected,
         new.connected \in BOOLEAN, new.focus_win = <<c, Head(to_server[c]).n>>,
         Alive(c) => Ends(to_client'[c], Msg("CREATE_IC", i, 0))
  PROVE  OwnInv' /\ MaskInv'
<1>1. /\ Takes(c) /\ b \in Server /\ Distinct(b) /\ Sound(b) /\ b.out = to_client
      /\ Passes(b, Core', {})
  BY DEF Minds
<1>2. {"CLOSE", "CREATE_IC", "DESTROY_IC"} \cup AboutIC \subseteq Answered
  BY DEF Answered, AboutIC
<1>3. waits[c] = "CREATE_IC" /\ UNCHANGED <<stage, waits, held, mask>>
  BY <1>1, <1>2, RequestTaken DEF Takes, clientVars
<1>4. /\ Sent(c, "CREATE_IC") /\ 1 \in DOMAIN to_server[c]
      /\ to_server[c][1] = Head(to_server[c])
  BY <1>1, <1>2, RequestTaken
<1>5. Own(c) = held[c] /\ Left(c) = {} /\ ~Closing(c)
  <2>1. /\ \A y \in Answered : Places(to_client[c], {y}) = {}
        /\ Places(to_server[c], {"DESTROY_IC"}) = {}
    BY <1>2, <1>4, OneRequest
  <2> QED
    BY <1>2, <1>3, <2>1 DEF Own, Leaving, Left, Given, Closing
<1>6. /\ \A j \in Id \ {i} : b.ic[j] = ic[j]
      /\ b.ic[i] = new
      /\ InUse(b.ic) = InUse(ic) \cup {i}
      /\ \A j \in InUse(ic) : \A d : Of(b, j, d) <=> Of(Core, j, d)
  <2>1. ic \in [Id -> ICRecord]
    BY DEF IInv, Typed, Server, Core
  <2>2. (\A j \in Id \ {i} : b.ic[j] = ic[j]) /\ b.ic[i] = new
    BY <2>1
  <2>3. InUse(b.ic) = InUse(ic) \cup {i}
    BY <2>2 DEF InUse
  <2>4. \A j \in InUse(ic) : b.ic[j] = ic[j]
    BY <2>2 DEF InUse
  <2> QED
    BY <2>2, <2>3, <2>4 DEF Of, Core
<1>7. ASSUME NEW d \in Client, Owns(d)
      PROVE  /\ i \notin Own(d) /\ Own(d) \subseteq InUse(ic)
             /\ \A j \in Own(d) : b.ic[j] = ic[j]
             /\ Holds(b, d, Own(d))
  <2>1. i \notin Own(d) /\ Own(d) \subseteq InUse(ic)
    BY <1>7 DEF Owns, Holds, Core
  <2>2. \A j \in Own(d) : b.ic[j] = ic[j]
    BY <1>6, <2>1 DEF InUse
  <2>3. Holds(b, d, Own(d))
    BY <1>6, <1>7, <2>1, <2>2 DEF Owns, Holds, Core
  <2> QED
    BY <2>1, <2>2, <2>3
<1>8. ASSUME ~DiedAsking({"DESTROY_IC"}), NEW d \in Client, d # c, Alive(d)
      PROVE  /\ \A j \in Own(d) : b.ic[j] = ic[j]
             /\ Holds(b, d, Own(d)) /\ (Closing(d) \/ AllOf(b, d, Own(d)))
             /\ {} \cap Own(d) = {}
  <2>1. Owns(d)
    BY <1>8 DEF OwnInv
  <2>2. ~Of(b, i, d)
    BY <1>1, <1>8, OneOwner
  <2>3. AllOf(Core, d, Own(d)) => AllOf(b, d, Own(d))
    BY <1>6, <2>2 DEF AllOf, Core
  <2> QED
    BY <1>7, <2>1, <2>3 DEF Owns
<1>9. ASSUME Alive(c)
      PROVE  /\ Places(to_client'[c], {"DESTROY_IC"}) = {}
             /\ Places(to_client'[c], {"CLOSE"}) = {}
             /\ Places(to_server'[c], Answered) = {}
             /\ Places(to_client'[c], Answered) # {}
             /\ Given(c)' = held[c] \cup {i}
  <2>1. PICK m : m = Msg("CREATE_IC", i, 0)
    OBVIOUS
  <2>2. m \in Message /\ m.op = "CREATE_IC" /\ "CREATE_IC" \in Answered /\ m.icid = i
    BY <1>2, <2>1, Small DEF Msg, Message, Op
  <2>3. Ends(to_client'[c], m)
    BY <1>9, <2>1
  <2>4. /\ \A n \in Places(to_client'[c], {"CREATE_IC"}) : to_client'[c][n] = m
        /\ \A n \in Places(to_client'[c], {"CREATE_IC"}) :
              \A k \in Places(to_client'[c], {"SET_EVENT_MASK"}) : k < n
        /\ \E n \in Places(to_client'[c], {"CREATE_IC"}) : to_client'[c][n] = m
        /\ \A y \in Answered : y # "CREATE_IC" => Places(to_client'[c], {y}) = {}
        /\ Places(to_server'[c], Answered) = {} /\ Places(to_client'[c], Answered) # {}
    BY <2>2, <2>3, LastAnswered
  <2>5. Given(c)' = held[c] \cup {i}
    BY <1>3, <2>2, <2>4 DEF Given
  <2> QED
    BY <1>2, <2>4, <2>5
<1>10. ASSUME Alive(c) PROVE /\ Places(to_server'[c], {"CREATE_IC"}) = {}
                             /\ Places(to_server'[c], {"DESTROY_IC"}) = {}
                             /\ Places(to_server'[c], {"CLOSE"}) = {}
                             /\ Places(to_server'[c], AboutIC) = {}
  BY <1>2, <1>9, <1>10 DEF Places
<1>11. ASSUME Alive(c)
       PROVE  Own(c)' = held[c] \cup {i} /\ Leaving(c)' = {} /\ Left(c)' = {}
  BY <1>9, <1>10, <1>11 DEF Own, Leaving, Left
<1>12. ASSUME ~DiedAsking({"DESTROY_IC"}), Alive(c), NEW P, P = held[c] \cup {i}
       PROVE  Holds(b, c, P) /\ AllOf(b, c, P) /\ Holds(Core', c, P) /\ AllOf(Core', c, P)
  <2>1. Owns(c)
    BY <1>12 DEF OwnInv
  <2>2. \A j \in held[c] : ic[j].focus_win # new.focus_win
    BY <1>4, <1>5, <2>1 DEF Owns, Places
  <2>3. Holds(b, c, held[c]) /\ AllOf(Core, c, held[c]) /\ held[c] \subseteq InUse(ic)
    BY <1>5, <1>7, <2>1 DEF Owns
  <2>4. \A j \in held[c] : b.ic[j] = ic[j]
    BY <1>5, <1>7, <2>1
  <2>5. Holds(b, c, P)
    <3>1. \A j \in P : j \in InUse(b.ic) /\ Of(b, j, c)
      BY <1>6, <1>12, <2>3 DEF Holds
    <3>2. i \notin held[c] /\ b.ic[i].focus_win = new.focus_win
      BY <1>6, <2>3
    <3>3. \A j \in held[c] : b.ic[j].focus_win # b.ic[i].focus_win
      BY <2>2, <2>4, <3>2
    <3>4. \A j, k \in held[c] : b.ic[j].focus_win = b.ic[k].focus_win => j = k
      BY <2>3 DEF Holds
    <3>5. \A j, k \in P : b.ic[j].focus_win = b.ic[k].focus_win => j = k
      BY <1>12, <3>3, <3>4
    <3> QED
      BY <3>1, <3>5 DEF Holds
  <2>6. AllOf(b, c, P)
    BY <1>6, <1>12, <2>3 DEF AllOf, Core
  <2>7. P \cap {} = {} /\ stage[c] # "dead"
    BY <1>12 DEF Alive
  <2> QED
    BY <1>1, <2>5, <2>6, <2>7, HoldsOn
<1>13. ASSUME ~DiedAsking({"DESTROY_IC"}), Alive(c) PROVE Owns(c)' /\ Owed(c)'
  <2>1. Owns(c)
    BY <1>13 DEF OwnInv
  <2>2. Holds(Core', c, Own(c)') /\ AllOf(Core', c, Own(c)')
    BY <1>11, <1>12, <1>13
  <2>3. Owns(c)'
    BY <1>3, <1>10, <1>11, <1>13, <2>1, <2>2 DEF Owns
  <2> QED
    BY <1>9, <1>13, <2>3 DEF Owed
<1>14. ASSUME ~DiedAsking({"DESTROY_IC", "TRIGGER_NOTIFY"}), Alive(c) PROVE Knows(c)'
  <2>1. ~DiedAsking({"DESTROY_IC"})
    BY <1>14 DEF DiedAsking
  <2>2. Knows(c) /\ Owns(c) /\ stage[c] # "dead" /\ Tells(b, Core')
    BY <1>14, <2>1 DEF MaskInv, OwnInv, Alive, Minds
  <2>3. stage[c] = "open"
    BY <1>2, <1>3, <2>2 DEF IInv, Staged
  <2>4. PICK P : P = held[c] \cup {i}
    OBVIOUS
  <2>5. Holds(b, c, P) /\ AllOf(b, c, P) /\ Holds(Core', c, P)
    BY <1>12, <1>14, <2>1, <2>4
  <2>6. i \in Nat /\ i \notin Own(c) \cup Left(c)
    BY <1>5, <1>7, <2>2, Small
  <2>7. About(to_client[c], i) = {} /\ i \notin mask[c]
    BY <1>3, <2>2, <2>3, <2>6 DEF Knows
  <2>8. ToldBy(b.out[c], i \in mask[c], i) = b.ic[i].connected
    <3>1. (i \in mask[c]) = FALSE /\ b.ic[i].connected = FALSE
      BY <1>6, <2>7
    <3>2. ToldBy(b.out[c], FALSE, i) = FALSE
      BY <1>1, <2>7 DEF ToldBy
    <3> QED
      BY <3>1, <3>2, Zenon
  <2>9. \A j \in held[c] : ToldBy(b.out[c], j \in mask[c], j) = b.ic[j].connected
    <3>1. \A j \in held[c] : b.ic[j] = ic[j]
      BY <1>5, <1>7, <2>2
    <3> QED
      BY <1>1, <1>5, <2>2, <3>1 DEF Knows, Fits, Core
  <2>10. Fits(b, c, P)
    BY <2>4, <2>8, <2>9 DEF Fits
  <2>11. Fits(Core', c, P)
    BY <2>2, <2>5, <2>10, FitsOn
  <2>12. Fits(Core, c, Own(c))'
    BY <1>3, <1>11, <1>14, <2>4, <2>11 DEF Fits
  <2>13. ASSUME NEW j \in Nat, j \notin Own(c)' \cup Left(c)'
         PROVE  About(to_client'[c], j) = {} /\ j \notin mask[c]
    <3>1. j \notin P /\ j \notin Own(c) \cup Left(c)
      BY <1>5, <1>11, <1>14, <2>4, <2>13
    <3>2. About(Core'.out[c], j) = About(b.out[c], j)
      BY <2>2, <2>5, <3>1, SilentOn
    <3>3. About(to_client[c], j) = {} /\ j \notin mask[c]
      BY <1>3, <2>2, <2>3, <3>1 DEF Knows
    <3> QED
      BY <1>1, <3>2, <3>3 DEF Core
  <2> QED
    BY <1>3, <1>9, <1>14, <2>3, <2>12, <2>13 DEF Knows
<1> QED
  BY <1>8, <1>13, <1>14, MindsSplit

----------------------------------------------------------------------------
(* The handlers.                                                           *)

\* An answer to a client that lives is the last thing sent to it.
LEMMA AnswerEnds ==
  ASSUME NEW s \in Server, NEW c, stage[c] # "dead", RecordOf(s, c) # 0,
         NEW m \in Message
  PROVE  Ends(Answer(s, c, m).out[c], m)
<1>1. PICK k : k = RecordOf(s, c)
  OBVIOUS
<1>2. k \in DOMAIN s.clients /\ s.clients[k].client_win = c
  BY <1>1, RecordPlace
<1>3. PICK t : t = SendAt(s, k, m)
  OBVIOUS
<1>4. /\ k # 0 /\ c \in Client
      /\ t.out = [s.out EXCEPT ![c] = Append(@, m)]
  <2>0. k \in {0} \cup DOMAIN s.clients /\ t = SendAt(s, k, m)
    BY <1>2, <1>3
  <2>1. /\ t.clients = s.clients /\ t.ic = s.ic /\ t.ic_free = s.ic_free
        /\ \/ /\ t.out = s.out
              /\ k # 0 => stage[s.clients[k].client_win] = "dead"
           \/ /\ k # 0
              /\ s.clients[k].client_win \in Client
              /\ t.out = [s.out EXCEPT ![s.clients[k].client_win] = Append(@, m)]
    BY <2>0, SendAtIs
  <2> QED
    BY <1>1, <1>2, <2>1
<1>5. s.out \in [Client -> Seq(Message)]
  BY DEF Server
<1>6. t.out[c] = Append(s.out[c], m) /\ s.out[c] \in Seq(Message)
  BY <1>4, <1>5
<1> QED
  BY <1>1, <1>3, <1>6, Zenon DEF Ends, Answer

\* What ends with an answer has one.
LEMMA EndsAnswered ==
  ASSUME NEW q, NEW m \in Message, m.op \in Answered, Ends(q, m)
  PROVE  Places(q, Answered) # {}
<1>1. PICK x \in Seq(Message) : q = Append(x, m)
  BY DEF Ends
<1>2. Len(x) + 1 \in Places(Append(x, m), Answered)
  BY PushedPlaces
<1> QED
  BY <1>1, <1>2

\* The server is a server, and its connections are apart.
LEMMA CoreIs ==
  ASSUME IInv
  PROVE  Core \in Server /\ Distinct(Core) /\ Core.out = to_client
         /\ Core.clients = clients /\ Core.ic = ic
BY DEF IInv, Typed, Listed, Distinct, Core

\* A request is answered, after d has been made of b.
LEMMA AnsweredMinds ==
  ASSUME IInv, NEW c \in Client, NEW op \in Answered, Takes(c),
         Head(to_server[c]).op = op, RecordOf(Core, c) # 0,
         NEW b \in Server, Distinct(b), Sound(b), b.out = to_client, b.clients = clients,
         NEW d, NEW D, Serves(b, d, {}), Keeps(b, d, D),
         NEW n \in Message, n.op = op, Store(Answer(d, c, n))
  PROVE  /\ Minds(b, c, D) /\ Core' = Answer(d, c, n)
         /\ Alive(c) => Ends(to_client'[c], n)
         /\ ic' = d.ic
<1>1. d \in Server /\ d.clients = clients
  BY DEF Serves, Works
<1>2. RecordOf(d, c) # 0
  BY <1>1 DEF RecordOf, Core
<1>3. PICK A : A = {<<c, op>>}
  OBVIOUS
<1>4. Serves(d, Answer(d, c, n), A) /\ Answer(d, c, n).ic = d.ic
  BY <1>1, <1>2, <1>3, AnswerServes
<1>5. Serves(b, Answer(d, c, n), A)
  BY <1>4, AnswerLast
<1>6. Answer(d, c, n) \in Server
  BY <1>5 DEF Serves, Works
<1>7. Core' = Answer(d, c, n)
  BY <1>6, Stored
<1>8. Alive(c) => Ends(to_client'[c], n)
  <2>1. ASSUME Alive(c) PROVE Ends(Answer(d, c, n).out[c], n)
    BY <1>1, <1>2, <2>1, AnswerEnds DEF Alive
  <2>2. to_client' = Answer(d, c, n).out
    BY <1>7 DEF Core
  <2> QED
    BY <2>1, <2>2
<1>9. n.op # "SET_EVENT_MASK"
  BY DEF Answered, Queries
<1>10. Keeps(d, Answer(d, c, n), {})
  BY <1>1, <1>9, AnswerKeeps
<1>11. Keeps(b, Answer(d, c, n), D \cup {})
  BY <1>10, KeepsThen
<1>12. Passes(b, Core', D) /\ Tells(b, Core')
  BY <1>7, <1>11, SparesPass DEF Keeps
<1>13. Sends(Core, Core', A)
  BY <1>5, <1>7, SMTT(20) DEF Serves, Sends, NewAnswers, Core
<1>14. Alive(c) => Places(to_client'[c], Answered) # {}
  BY <1>8, EndsAnswered
<1>15. Minds(b, c, D)
  BY <1>3, <1>12, <1>13, <1>14 DEF Minds
<1> QED
  BY <1>4, <1>7, <1>8, <1>15 DEF Core

\* The same where nothing is made of Core first but what Keeps says.
LEMMA AnsweredPlain ==
  ASSUME IInv, OwnInv, MaskInv, NEW c \in Client,
         NEW op \in Answered \ {"CREATE_IC", "DESTROY_IC", "CLOSE"}, Takes(c),
         Head(to_server[c]).op = op, RecordOf(Core, c) # 0,
         NEW d, Serves(Core, d, {}), Keeps(Core, d, {}),
         NEW n \in Message, n.op = op, Store(Answer(d, c, n))
  PROVE  OwnInv' /\ MaskInv'
<1>1. Core \in Server /\ Distinct(Core) /\ Core.out = to_client /\ Core.clients = clients
  BY CoreIs
<1>2. Sound(Core)
  BY DEF OwnInv
<1>3. Minds(Core, c, {})
  BY <1>1, <1>2, AnsweredMinds
<1> QED
  BY <1>3, MindsPlain

\* Requests that are only answered.
LEMMA QueryMinds ==
  ASSUME IInv, OwnInv, MaskInv, NEW c \in Client, NEW op \in Queries, Query(c, op)
  PROVE  OwnInv' /\ MaskInv'
<1>1. /\ Takes(c) /\ Head(to_server[c]).op = op /\ Core \in Server
      /\ op # "XCONNECT" => RecordOf(Core, c) # 0
  BY Received1 DEF Query
<1>2. op \in Answered \ {"CREATE_IC", "DESTROY_IC", "CLOSE"} /\ op # "XCONNECT" /\ op \in Op
  BY DEF Queries, Answered, Op
<1>3. PICK n : n = Msg(op, NoId, 0)
  OBVIOUS
<1>4. n \in Message /\ n.op = op
  BY <1>2, <1>3, Small, MsgType DEF NoId
<1>5. Store(Answer(Core, c, n))
  BY <1>3 DEF Query
<1>6. Serves(Core, Core, {}) /\ Keeps(Core, Core, {})
  BY <1>1, ServesSelf, KeepsSelf
<1> QED
  BY <1>1, <1>2, <1>4, <1>5, <1>6, AnsweredPlain

\* OpenMessageProc()
LEMMA OpenMinds ==
  ASSUME IInv, OwnInv, MaskInv, NEW c \in Client, Open(c)
  PROVE  OwnInv' /\ MaskInv'
<1>1. /\ Takes(c) /\ Head(to_server[c]).op = "OPEN" /\ Core \in Server
      /\ RecordOf(Core, c) # 0
  BY Received1 DEF Open
<1>2. PICK m : m = Msg("REGISTER_TRIGGERKEYS", NoId, 0)
  OBVIOUS
<1>3. PICK n : n = Msg("OPEN", NoId, 0)
  OBVIOUS
<1>4. /\ m \in Message /\ m.op = "REGISTER_TRIGGERKEYS"
      /\ n \in Message /\ n.op = "OPEN"
  BY <1>2, <1>3, Small DEF Msg, Message, Op, Answered, NoId
<1>5. /\ "REGISTER_TRIGGERKEYS" \notin Answered
      /\ "OPEN" \in Answered \ {"CREATE_IC", "DESTROY_IC", "CLOSE"}
  BY DEF Answered, Queries
<1>6. PICK d : d = Answer(Core, c, m)
  OBVIOUS
<1>7. Serves(Core, d, {}) /\ Keeps(Core, d, {})
  BY <1>1, <1>4, <1>5, <1>6, AnswerServes, AnswerKeeps
<1>8. Store(Answer(d, c, n))
  BY <1>2, <1>3, <1>6 DEF Open
<1> QED
  BY <1>1, <1>4, <1>5, <1>7, <1>8, AnsweredPlain

\* ResetICMessageProc()
LEMMA ResetMinds ==
  ASSUME IInv, OwnInv, MaskInv, NEW c \in Client, ResetIC(c)
  PROVE  OwnInv' /\ MaskInv'
<1>1. /\ Takes(c) /\ Head(to_server[c]).op = "RESET_IC" /\ Core \in Server
      /\ RecordOf(Core, c) # 0 /\ Head(to_server[c]) \in Message
  BY Received1 DEF ResetIC
<1>2. "RESET_IC" \in Answered \ {"CREATE_IC", "DESTROY_IC", "CLOSE"}
  BY DEF Answered
<1>3. PICK n : n = Msg("RESET_IC", Head(to_server[c]).icid, 0)
  OBVIOUS
<1>4. n \in Message /\ n.op = "RESET_IC"
  BY <1>1, <1>3, Small DEF Msg, Message, Op, Answered
<1>5. Store(Answer(Core, c, n))
  BY <1>3 DEF ResetIC
<1>6. Serves(Core, Core, {}) /\ Keeps(Core, Core, {})
  BY <1>1, ServesSelf, KeepsSelf
<1> QED
  BY <1>1, <1>2, <1>4, <1>5, <1>6, AnsweredPlain

\* More may be allowed to go than goes.
LEMMA KeepsMore ==
  ASSUME NEW s, NEW t, NEW D, NEW E, D \subseteq E, Keeps(s, t, D)
  PROVE  Keeps(s, t, E)
BY DEF Keeps, Spares

\* CloseMessageProc()
LEMMA CloseMinds ==
  ASSUME IInv, IInv', OwnInv, MaskInv, NEW c \in Client, Close(c)
  PROVE  OwnInv' /\ MaskInv'
<1>1. /\ Takes(c) /\ Head(to_server[c]).op = "CLOSE"
      /\ RecordOf(Core, c) # 0
  BY Received1 DEF Close
<1>2. Core \in Server /\ Distinct(Core) /\ Core.out = to_client /\ Core.clients = clients
      /\ Core.ic = ic /\ Sound(Core)
  BY CoreIs DEF OwnInv
<1>3. PICK n : n = Msg("CLOSE", NoId, 0)
  OBVIOUS
<1>4. n \in Message /\ n.op = "CLOSE" /\ "CLOSE" \in Answered
  BY <1>3, Small DEF Msg, Message, Op, Answered, NoId
<1>5. PICK id : id = Connection(Core, c)
  OBVIOUS
<1>6. /\ RecordOf(Core, c) \in DOMAIN clients
      /\ clients[RecordOf(Core, c)].client_win = c
      /\ id = clients[RecordOf(Core, c)].connect_id
  BY <1>1, <1>2, <1>5, RecordPlace DEF Connection
<1>7. id # NoId
  BY <1>6 DEF IInv, Listed, Core, NoId
<1>8. PICK D : D = {i \in Id : ic[i].connect_id = id}
  OBVIOUS
<1>9. D \in SUBSET InUse(Core.ic) /\ \A i \in D : Of(Core, i, c)
  BY <1>2, <1>6, <1>7, <1>8 DEF InUse, Of
<1>10. PICK d : d = Delete(Core, D)
  OBVIOUS
<1>11. CleanAll(Core, id) = d
  BY <1>2, <1>8, <1>10 DEF CleanAll
<1>12. Serves(Core, d, {})
  BY <1>2, <1>9, <1>10, DeleteServes
<1>13. Keeps(Core, d, D)
  BY <1>2, <1>9, <1>10, DeleteKeeps
<1>14. Store(Answer(d, c, n))
  BY <1>3, <1>5, <1>11 DEF Close
<1>15. Minds(Core, c, D) /\ (Alive(c) => Ends(to_client'[c], n))
  BY <1>1, <1>2, <1>4, <1>12, <1>13, <1>14, AnsweredMinds
<1> QED
  BY <1>1, <1>3, <1>9, <1>15, MindsClose

\* DestroyICMessageProc()
LEMMA DestroyMinds ==
  ASSUME IInv, IInv', OwnInv, MaskInv, NEW c \in Client, DestroyIC(c)
  PROVE  OwnInv' /\ MaskInv'
<1>1. /\ Takes(c) /\ Head(to_server[c]).op = "DESTROY_IC"
      /\ RecordOf(Core, c) # 0 /\ Head(to_server[c]) \in Message
  BY Received1 DEF DestroyIC
<1>2. Core \in Server /\ Distinct(Core) /\ Core.out = to_client /\ Core.clients = clients
      /\ Core.ic = ic /\ Sound(Core)
  BY CoreIs DEF OwnInv
<1>3. PICK i : i = Head(to_server[c]).icid
  OBVIOUS
<1>4. PICK n : n = Msg("DESTROY_IC", i, 0)
  OBVIOUS
<1>5. n \in Message /\ n.op = "DESTROY_IC" /\ "DESTROY_IC" \in Answered /\ i \in Nat
  BY <1>1, <1>3, <1>4, Small DEF Msg, Message, Op, Answered
<1>6. PICK d : d = IF i \in InUse(Core.ic) THEN Delete(Core, {i}) ELSE Core
  OBVIOUS
<1>7. Serves(Core, d, {})
  BY <1>2, <1>6, DeleteServes, ServesSelf
<1>8. Keeps(Core, d, {i})
  <2>1. CASE i \in InUse(Core.ic)
    BY <1>2, <1>6, <2>1, DeleteKeeps
  <2>2. CASE i \notin InUse(Core.ic)
    BY <1>6, <2>2, KeepsSelf, KeepsMore
  <2> QED
    BY <2>1, <2>2
<1>9. i \notin InUse(d.ic)
  <2>1. CASE i \in InUse(Core.ic)
    <3>1. d = Delete(Core, {i})
      BY <1>6, <2>1
    <3>2. d.ic = [j \in Id |-> IF j \in {i} THEN Unused ELSE Core.ic[j]]
      BY <3>1 DEF Delete, Core
    <3> QED
      BY <3>2 DEF InUse, Unused
  <2>2. CASE i \notin InUse(Core.ic)
    BY <1>6, <2>2
  <2> QED
    BY <2>1, <2>2
<1>10. Store(Answer(d, c, n))
  BY <1>3, <1>4, <1>6 DEF DestroyIC, Destroyed
<1>11. Minds(Core, c, {i}) /\ (Alive(c) => Ends(to_client'[c], n)) /\ ic' = d.ic
  BY <1>1, <1>2, <1>5, <1>7, <1>8, <1>10, AnsweredMinds
<1> QED
  BY <1>1, <1>3, <1>4, <1>5, <1>9, <1>11, MindsDestroy

\* A request about an IC that is not there is not answered: it is of one who died.
LEMMA UnknownMinds ==
  ASSUME IInv, OwnInv, MaskInv, NEW c \in Client, Takes(c), Store(Core),
         Head(to_server[c]).op \in {"SET_IC_VALUES", "GET_IC_VALUES"},
         Head(to_server[c]).icid \notin InUse(ic)
  PROVE  OwnInv' /\ MaskInv'
<1>1. Core \in Server /\ Distinct(Core) /\ Core.out = to_client /\ Core.ic = ic
      /\ Sound(Core)
  BY CoreIs DEF OwnInv
<1>2. Core' = Core
  BY <1>1, Stored
<1>3. Head(to_server[c]).op \in Answered /\ Head(to_server[c]).op \in AboutIC
  BY DEF Answered, AboutIC
<1>4. Passes(Core, Core', {}) /\ Tells(Core, Core')
  BY <1>2, KeepsSelf, SparesPass DEF Keeps
<1>5. Sends(Core, Core', {<<c, Head(to_server[c]).op>>})
  <2>1. Serves(Core, Core, {<<c, Head(to_server[c]).op>>})
    BY <1>1, ServesSelf
  <2> QED
    BY <1>2, <2>1 DEF Serves
<1>6. ASSUME Alive(c), ~DiedAsking({"DESTROY_IC"}) PROVE FALSE
  <2>1. Owns(c)
    BY <1>6 DEF OwnInv
  <2>2. /\ to_server[c][1] = Head(to_server[c]) /\ 1 \in DOMAIN to_server[c]
    BY <1>3, RequestTaken
  <2>3. 1 \in Places(to_server[c], AboutIC)
    BY <1>3, <2>2 DEF Places
  <2>4. Head(to_server[c]).icid \in held[c]
    BY <2>1, <2>2, <2>3 DEF Owns
  <2>5. held[c] \subseteq Own(c)
    BY DEF Own, Given
  <2> QED
    BY <1>1, <2>1, <2>4, <2>5 DEF Owns, Holds
<1>7. Minds(Core, c, {})
  BY <1>1, <1>4, <1>5, <1>6 DEF Minds
<1> QED
  BY <1>3, <1>7, MindsPlain DEF AboutIC

\* _Xi18nChangeIC() of an IC that is there.
LEMMA SetICValuesMinds ==
  ASSUME IInv, OwnInv, MaskInv, NEW c \in Client, SetICValues(c)
  PROVE  OwnInv' /\ MaskInv'
<1>1. /\ Takes(c) /\ Head(to_server[c]).op = "SET_IC_VALUES"
      /\ RecordOf(Core, c) # 0 /\ Head(to_server[c]) \in Message
  BY Received1 DEF SetICValues
<1>2. Core \in Server /\ Distinct(Core) /\ Core.ic = ic
  BY CoreIs
<1>3. PICK i : i = Head(to_server[c]).icid
  OBVIOUS
<1>4. CASE i \notin InUse(ic)
  BY <1>1, <1>3, <1>4, UnknownMinds DEF SetICValues
<1>5. CASE i \in InUse(ic)
  <2>1. PICK n : n = Msg("SET_IC_VALUES", i, 0)
    OBVIOUS
  <2>2. /\ n \in Message /\ n.op = "SET_IC_VALUES"
        /\ "SET_IC_VALUES" \in Answered \ {"CREATE_IC", "DESTROY_IC", "CLOSE"}
    BY <1>1, <1>3, <2>1, Small DEF Msg, Message, Op, Answered
  <2>3. PICK p \in Preedit, text \in {FALSE, CommitsOnSwitch}, due \in BOOLEAN :
            Store(Answer(CheckIcExist(SetValues(Core, i, p, text), i, due), c, n))
    BY <1>3, <1>5, <2>1 DEF SetICValues
  <2>4. PICK b : b = SetValues(Core, i, p, text)
    OBVIOUS
  <2>5. PICK d : d = CheckIcExist(b, i, due)
    OBVIOUS
  <2>6. i \in InUse(Core.ic)
    BY <1>2, <1>5
  <2>7. Serves(Core, b, {}) /\ Keeps(Core, b, {})
    BY <1>2, <2>4, <2>6, SetValuesServes, SetValuesKeeps
  <2>8. b \in Server /\ Distinct(b)
    BY <1>2, <2>7, ServesServer
  <2>9. Serves(b, d, {}) /\ Keeps(b, d, {})
    BY <2>5, <2>8, CheckServes, CheckKeeps
  <2>10. Serves(Core, d, {}) /\ Keeps(Core, d, {})
    BY <1>2, <2>7, <2>9, Twice, KeepsTwice
  <2>11. Store(Answer(d, c, n))
    BY <2>3, <2>4, <2>5
  <2> QED
    BY <1>1, <2>2, <2>10, <2>11, AnsweredPlain
<1> QED
  BY <1>4, <1>5

\* _Xi18nGetIC()
LEMMA GetICValuesMinds ==
  ASSUME IInv, OwnInv, MaskInv, NEW c \in Client, GetICValues(c)
  PROVE  OwnInv' /\ MaskInv'
<1>1. /\ Takes(c) /\ Head(to_server[c]).op = "GET_IC_VALUES"
      /\ RecordOf(Core, c) # 0 /\ Head(to_server[c]) \in Message
  BY Received1 DEF GetICValues
<1>2. Core \in Server /\ Distinct(Core)
  BY CoreIs
<1>3. PICK i : i = Head(to_server[c]).icid
  OBVIOUS
<1>4. CASE i \notin InUse(ic)
  BY <1>1, <1>3, <1>4, UnknownMinds DEF GetICValues
<1>5. CASE i \in InUse(ic)
  <2>1. PICK n : n = Msg("GET_IC_VALUES", i, 0)
    OBVIOUS
  <2>2. /\ n \in Message /\ n.op = "GET_IC_VALUES"
        /\ "GET_IC_VALUES" \in Answered \ {"CREATE_IC", "DESTROY_IC", "CLOSE"}
    BY <1>1, <1>3, <2>1, Small DEF Msg, Message, Op, Answered
  <2>3. PICK due \in BOOLEAN : Store(Answer(CheckIcExist(Core, i, due), c, n))
    BY <1>3, <1>5, <2>1 DEF GetICValues
  <2>4. PICK d : d = CheckIcExist(Core, i, due)
    OBVIOUS
  <2>5. Serves(Core, d, {}) /\ Keeps(Core, d, {})
    BY <1>2, <2>4, CheckServes, CheckKeeps
  <2>6. Store(Answer(d, c, n))
    BY <2>3, <2>4
  <2> QED
    BY <1>1, <2>2, <2>5, <2>6, AnsweredPlain
<1> QED
  BY <1>4, <1>5

\* The IC that is made, before anything is done with it.
NewOf(c, w) == [connect_id |-> Connection(Core, c), connected |-> FALSE,
                focus_win |-> <<c, w>>]
Made(i, new) == [Core EXCEPT !.ic[i] = new, !.ic_free = @ \ {i},
                             !.icid = IF i > @ THEN i ELSE @]

\* What of the record the new IC changes.
LEMMA MadeIs ==
  ASSUME IInv, Sound(Core), NEW c \in Client, RecordOf(Core, c) # 0,
         NEW w \in Number, NEW i \in NewIds,
         NEW new, new = NewOf(c, w), NEW b, b = Made(i, new)
  PROVE  /\ i \in Id \ InUse(ic) /\ b \in Server /\ Distinct(b) /\ Sound(b)
         /\ b.out = to_client /\ b.clients = clients /\ b.ic = [ic EXCEPT ![i] = new]
         /\ i \in InUse(b.ic) /\ Of(b, i, c)
<1>1. Core \in Server /\ Distinct(Core)
  BY CoreIs
<1>2. /\ RecordOf(Core, c) \in DOMAIN clients
      /\ clients[RecordOf(Core, c)].client_win = c
      /\ new.connect_id = clients[RecordOf(Core, c)].connect_id
  BY <1>1, RecordPlace DEF Connection, Core, NewOf
<1>3. new.connect_id \in Nat /\ new.connect_id # NoId
  BY <1>2 DEF IInv, Listed, Typed, Server, Core, NoId
<1>4. i \in Id /\ icid \in 0 .. MaxIC /\ ic_free \subseteq 1 .. icid
      /\ InUse(ic) \subseteq 1 .. icid
  BY ConstantsOK DEF NewIds, IInv, Numbered, Core, Id
<1>5. i \notin InUse(ic)
  <2>1. CASE ic_free # {}
    BY <2>1 DEF NewIds, Sound, Core
  <2>2. CASE ic_free = {}
    <3>1. i = icid + 1
      BY <2>2 DEF NewIds
    <3>2. i \notin 1 .. icid
      BY <1>4, <3>1
    <3> QED
      BY <1>4, <3>2
  <2> QED
    BY <2>1, <2>2
<1>6. new \in ICRecord
  BY <1>3 DEF ICRecord, FocusWin, NewOf
<1>7. /\ b.clients = clients /\ b.free = free_clients /\ b.last = connect_id
      /\ b.out = to_client /\ b.handled = handled /\ b.buf = commit_buf
      /\ b.running = running
      /\ b.ic = [ic EXCEPT ![i] = new] /\ b.ic_free = ic_free \ {i}
      /\ b.icid = IF i > icid THEN i ELSE icid
  BY DEF Core, Made
<1>8. ic \in [Id -> ICRecord] /\ b.ic \in [Id -> ICRecord]
  BY <1>1, <1>4, <1>6, <1>7 DEF Server, Core
<1>9. b \in Server
  <2>1. b.ic_free \in SUBSET Id /\ b.icid \in Nat
    BY <1>1, <1>4, <1>7 DEF Server, Core, Id
  <2>2. b = [clients |-> b.clients, free |-> b.free, last |-> b.last, ic |-> b.ic,
             ic_free |-> b.ic_free, icid |-> b.icid, buf |-> b.buf,
             running |-> b.running, out |-> b.out, handled |-> b.handled]
    BY DEF Core, Made
  <2>3. /\ b.clients \in Seq(Record) /\ b.free \in Seq(Nat) /\ b.last \in Nat
        /\ b.buf \in Nat \X Nat /\ b.running \in BOOLEAN
        /\ b.out \in [Client -> Seq(Message)] /\ b.handled \in [Client -> Seq(Number)]
    BY <1>1, <1>7 DEF Server, Core
  <2> QED
    BY <1>8, <2>1, <2>2, <2>3 DEF Server
<1>10. /\ i \in InUse(b.ic) /\ InUse(b.ic) \subseteq InUse(ic) \cup {i}
       /\ \A j \in InUse(b.ic) \ {i} : b.ic[j] = ic[j]
       /\ b.ic[i] = new
  BY <1>3, <1>4, <1>7, <1>8 DEF InUse
<1>11. Distinct(b)
  BY <1>1, <1>7 DEF Distinct, Core
<1>12. Of(b, i, c)
  <2>1. PICK k : k = RecordOf(Core, c)
    OBVIOUS
  <2>2. /\ k \in DOMAIN b.clients /\ b.clients[k].client_win = c
        /\ b.clients[k].connect_id = b.ic[i].connect_id
    BY <1>2, <1>7, <1>10, <2>1
  <2> QED
    BY <2>2 DEF Of
<1>13. Linked(b)
  <2>1. ASSUME NEW j \in InUse(b.ic)
        PROVE  \E k \in DOMAIN b.clients : b.clients[k].connect_id = b.ic[j].connect_id
    <3>1. CASE j = i
      BY <1>12, <3>1 DEF Of
    <3>2. CASE j # i
      <4>1. j \in InUse(Core.ic) /\ b.ic[j] = Core.ic[j] /\ b.clients = Core.clients
        BY <1>7, <1>10, <3>2 DEF Core
      <4> QED
        BY <4>1 DEF Linked, Sound
    <3> QED
      BY <3>1, <3>2
  <2> QED
    BY <2>1 DEF Linked
<1>14. ASSUME NEW j \in InUse(b.ic), NEW d \in Client, Of(b, j, d)
       PROVE  \E v \in Number : b.ic[j].focus_win = <<d, v>>
  <2>1. CASE j = i
    <3>1. d = c
      BY <1>11, <1>12, <1>14, <2>1, OneOwner
    <3>2. b.ic[j].focus_win = <<d, w>>
      <4>1. new.focus_win = <<c, w>>
        BY DEF NewOf
      <4> QED
        BY <1>10, <2>1, <3>1, <4>1
    <3> QED
      BY <3>2
  <2>2. CASE j # i
    <3>1. j \in InUse(Core.ic) /\ b.ic[j] = Core.ic[j]
      BY <1>10, <2>2 DEF Core
    <3>2. Of(Core, j, d)
      BY <1>7, <1>14, <3>1 DEF Of, Core
    <3>3. \E v \in Number : Core.ic[j].focus_win = <<d, v>>
      BY <3>1, <3>2 DEF Sound
    <3> QED
      BY <3>1, <3>3
  <2> QED
    BY <2>1, <2>2
<1>15. b.ic_free \cap InUse(b.ic) = {}
  BY <1>7, <1>10 DEF Sound, Core
<1>16. Sound(b)
  BY <1>13, <1>14, <1>15 DEF Sound
<1> QED
  BY <1>4, <1>5, <1>7, <1>9, <1>10, <1>11, <1>12, <1>16

\* _Xi18nChangeIC() of a new IC
LEMMA CreateMinds ==
  ASSUME IInv, IInv', OwnInv, MaskInv, NEW c \in Client, CreateIC(c)
  PROVE  OwnInv' /\ MaskInv'
<1>1. /\ Takes(c) /\ Head(to_server[c]).op = "CREATE_IC"
      /\ RecordOf(Core, c) # 0 /\ Head(to_server[c]) \in Message
  BY Received1 DEF CreateIC
<1>2. PICK w : w = Head(to_server[c]).n
  OBVIOUS
<1>3. PICK new : new = NewOf(c, w)
  OBVIOUS
<1>4. PICK i \in NewIds, p \in {"keep", "on"}, due \in BOOLEAN :
          Store(Answer(CheckIcExist(PreeditState(
                    [Core EXCEPT !.ic[i] = new, !.ic_free = @ \ {i},
                                 !.icid = IF i > @ THEN i ELSE @], i, p), i, due), c,
                Msg("CREATE_IC", i, 0)))
  BY <1>2, <1>3 DEF CreateIC, NewOf
<1>5. PICK b : b = Made(i, new)
  OBVIOUS
<1>6. w \in Number
  BY <1>1, <1>2 DEF Message
<1>7. Sound(Core)
  BY DEF OwnInv
<1>8. /\ i \in Id \ InUse(ic) /\ b \in Server /\ Distinct(b) /\ Sound(b)
      /\ b.out = to_client /\ b.clients = clients /\ b.ic = [ic EXCEPT ![i] = new]
      /\ i \in InUse(b.ic) /\ Of(b, i, c)
  BY <1>1, <1>3, <1>5, <1>6, <1>7, MadeIs
<1>9. PICK n : n = Msg("CREATE_IC", i, 0)
  OBVIOUS
<1>10. n \in Message /\ n.op = "CREATE_IC" /\ "CREATE_IC" \in Answered
  BY <1>8, <1>9, Small DEF Msg, Message, Op, Answered
<1>11. PICK d : d = PreeditState(b, i, p)
  OBVIOUS
<1>12. PICK e : e = CheckIcExist(d, i, due)
  OBVIOUS
<1>13. Serves(b, d, {}) /\ Keeps(b, d, {})
  BY <1>8, <1>11, PreeditServes, PreeditKeeps
<1>14. d \in Server /\ Distinct(d)
  BY <1>8, <1>13, ServesServer
<1>15. Serves(d, e, {}) /\ Keeps(d, e, {})
  BY <1>12, <1>14, CheckServes, CheckKeeps
<1>16. Serves(b, e, {}) /\ Keeps(b, e, {})
  BY <1>8, <1>13, <1>15, Twice, KeepsTwice
<1>17. Store(Answer(e, c, n))
  BY <1>4, <1>5, <1>9, <1>11, <1>12 DEF Made
<1>18. Minds(b, c, {}) /\ (Alive(c) => Ends(to_client'[c], n))
  BY <1>1, <1>8, <1>10, <1>16, <1>17, AnsweredMinds
<1>19. new.focus_win = <<c, w>> /\ new.connected = FALSE /\ new.connected \in BOOLEAN
  BY <1>3 DEF NewOf
<1> QED
  BY <1>1, <1>2, <1>8, <1>9, <1>18, <1>19, MindsCreate

\* What is not answered has only to keep what is there.
LEMMA QuietMinds ==
  ASSUME IInv, OwnInv, MaskInv, NEW c \in Client, Takes(c),
         Head(to_server[c]).op \notin Answered,
         NEW d \in Server, Sends(Core, d, {}), Keeps(Core, d, {}), Store(d)
  PROVE  OwnInv' /\ MaskInv'
<1>1. Core \in Server /\ Distinct(Core) /\ Core.out = to_client /\ Sound(Core)
  BY CoreIs DEF OwnInv
<1>2. Core' = d
  BY Stored
<1>3. Passes(Core, Core', {}) /\ Tells(Core, Core')
  BY <1>2, SparesPass DEF Keeps
<1>4. Sends(Core, Core', {<<c, Head(to_server[c]).op>>})
  BY <1>2 DEF Sends
<1>5. Minds(Core, c, {})
  BY <1>1, <1>3, <1>4 DEF Minds
<1>6. Head(to_server[c]).op \notin {"CREATE_IC", "DESTROY_IC", "CLOSE"}
  BY DEF Answered
<1> QED
  BY <1>5, <1>6, MindsPlain

\* SetICFocusMessageProc()
LEMMA SetFocusMinds ==
  ASSUME IInv, OwnInv, MaskInv, NEW c \in Client, SetICFocus(c)
  PROVE  OwnInv' /\ MaskInv'
<1>1. Takes(c) /\ Head(to_server[c]).op = "SET_IC_FOCUS"
  BY Received1 DEF SetICFocus
<1>2. Core \in Server /\ Distinct(Core) /\ Core.ic = ic
  BY CoreIs
<1>3. "SET_IC_FOCUS" \notin Answered
  BY DEF Answered, Queries
<1>4. PICK i : i = Head(to_server[c]).icid
  OBVIOUS
<1>5. PICK p \in Preedit, due \in BOOLEAN :
          Store(IF i \in InUse(ic) THEN CheckIcExist(PreeditState(Core, i, p), i, due)
                ELSE Core)
  BY <1>4 DEF SetICFocus
<1>6. PICK d : d = IF i \in InUse(ic) THEN CheckIcExist(PreeditState(Core, i, p), i, due)
                   ELSE Core
  OBVIOUS
<1>7. CASE i \notin InUse(ic)
  <2>1. Serves(Core, d, {}) /\ Keeps(Core, d, {})
    BY <1>2, <1>6, <1>7, ServesSelf, KeepsSelf
  <2> QED
    BY <1>1, <1>3, <1>5, <1>6, <2>1, QuietMinds DEF Serves, Works
<1>8. CASE i \in InUse(ic)
  <2>1. PICK b : b = PreeditState(Core, i, p)
    OBVIOUS
  <2>2. i \in InUse(Core.ic)
    BY <1>2, <1>8
  <2>3. Serves(Core, b, {}) /\ Keeps(Core, b, {})
    BY <1>2, <2>1, <2>2, PreeditServes, PreeditKeeps
  <2>4. b \in Server /\ Distinct(b)
    BY <1>2, <2>3, ServesServer
  <2>5. d = CheckIcExist(b, i, due)
    BY <1>6, <1>8, <2>1
  <2>6. Serves(b, d, {}) /\ Keeps(b, d, {})
    BY <2>4, <2>5, CheckServes, CheckKeeps
  <2>7. Serves(Core, d, {}) /\ Keeps(Core, d, {})
    BY <1>2, <2>3, <2>6, Twice, KeepsTwice
  <2> QED
    BY <1>1, <1>3, <1>5, <1>6, <2>7, QuietMinds DEF Serves, Works
<1> QED
  BY <1>7, <1>8

\* The sweep that may come after XUnsetICFocus().
LEMMA UnsetFocusMinds ==
  ASSUME IInv, OwnInv, MaskInv, NEW c \in Client, UnsetICFocus(c)
  PROVE  OwnInv' /\ MaskInv'
<1>1. Takes(c) /\ Head(to_server[c]).op = "UNSET_IC_FOCUS"
  BY Received1 DEF UnsetICFocus
<1>2. Core \in Server /\ Distinct(Core)
  BY CoreIs
<1>3. "UNSET_IC_FOCUS" \notin Answered
  BY DEF Answered, Queries
<1>4. PICK due \in BOOLEAN : Store(CheckIcExist(Core, Head(to_server[c]).icid, due))
  BY DEF UnsetICFocus
<1>5. PICK d : d = CheckIcExist(Core, Head(to_server[c]).icid, due)
  OBVIOUS
<1>6. Serves(Core, d, {}) /\ Keeps(Core, d, {})
  BY <1>2, <1>5, CheckServes, CheckKeeps
<1> QED
  BY <1>1, <1>3, <1>4, <1>5, <1>6, QuietMinds DEF Serves, Works

\* An IC is marked as being on or off.
Mark(s, i, b) == [s EXCEPT !.ic[i].connected = b]

\* It does not matter whether an IC is marked before or after a message is sent.
LEMMA MarkedFirst ==
  ASSUME NEW s \in Server, NEW k \in {0} \cup DOMAIN s.clients, NEW i \in Id,
         NEW b \in BOOLEAN, NEW m \in Message
  PROVE  Mark(SendAt(s, k, m), i, b) = SendAt(Mark(s, i, b), k, m)
<1> DEFINE f == [s.ic EXCEPT ![i] = [s.ic[i] EXCEPT !.connected = b]]
<1>1. PICK r : r = [s EXCEPT !.ic = f]
  OBVIOUS
<1>2. r = [s EXCEPT !.ic[i].connected = b]
  BY <1>1
<1>3. r.clients = s.clients /\ r.out = s.out
  BY <1>1 DEF Server
<1> HIDE DEF f
<1>4. CASE k = 0
  <2>1. SendAt(s, k, m) = [s EXCEPT !.running = FALSE]
    BY <1>4 DEF SendAt
  <2>2. SendAt(r, k, m) = [r EXCEPT !.running = FALSE]
    BY <1>4 DEF SendAt
  <2>3. [[s EXCEPT !.running = FALSE] EXCEPT !.ic = f] = [r EXCEPT !.running = FALSE]
    BY <1>1 DEF Server
  <2>4. [s EXCEPT !.running = FALSE].ic = s.ic
    BY DEF Server
  <2>5. [[s EXCEPT !.running = FALSE] EXCEPT !.ic[i].connected = b]
            = [[s EXCEPT !.running = FALSE] EXCEPT !.ic = f]
    BY <2>4 DEF f
  <2> QED
    BY <1>2, <2>1, <2>2, <2>3, <2>5 DEF Mark
<1>5. CASE k # 0 /\ stage[s.clients[k].client_win] = "dead"
  BY <1>2, <1>3, <1>5 DEF SendAt, Mark
<1>6. CASE k # 0 /\ stage[s.clients[k].client_win] # "dead"
  <2>1. PICK g : g = [s.out EXCEPT ![s.clients[k].client_win] = Append(@, m)]
    OBVIOUS
  <2>2. SendAt(s, k, m) = [s EXCEPT !.out = g]
    BY <1>6, <2>1 DEF SendAt
  <2>3. SendAt(r, k, m) = [r EXCEPT !.out = g]
    BY <1>3, <1>6, <2>1 DEF SendAt
  <2>4. [[s EXCEPT !.out = g] EXCEPT !.ic = f] = [r EXCEPT !.out = g]
    BY <1>1 DEF Server
  <2>5. [s EXCEPT !.out = g].ic = s.ic
    BY DEF Server
  <2>6. [[s EXCEPT !.out = g] EXCEPT !.ic[i].connected = b]
            = [[s EXCEPT !.out = g] EXCEPT !.ic = f]
    BY <2>5 DEF f
  <2> QED
    BY <1>2, <2>2, <2>3, <2>4, <2>6 DEF Mark
<1> QED
  BY <1>4, <1>5, <1>6

\* A client that is told of its IC, which is on from then on.
LEMMA ToldKeeps ==
  ASSUME NEW s \in Server, Distinct(s), NEW c, RecordOf(s, c) # 0,
         NEW i \in InUse(s.ic), Of(s, i, c), NEW m, m = Msg("SET_EVENT_MASK", i, 1)
  PROVE  Keeps(s, [Answer(s, c, m) EXCEPT !.ic[i].connected = TRUE], {})
<1>1. i \in Id /\ m \in Message /\ s.ic \in [Id -> ICRecord]
  <2>1. i \in Id
    BY DEF InUse
  <2>2. m \in Message
    BY <2>1, Small, MsgType DEF Op
  <2> QED
    BY <2>1, <2>2 DEF Server
<1>2. PICK k : k = RecordOf(s, c)
  OBVIOUS
<1>3. k \in DOMAIN s.clients /\ s.clients[k].client_win = c
  BY <1>2, RecordPlace
<1>4. FindClient(s, s.ic[i].connect_id) = k
  <2>1. PICK l : l = FindClient(s, s.ic[i].connect_id)
    OBVIOUS
  <2>2. l # 0 /\ s.clients[l].client_win = c /\ l \in {0} \cup DOMAIN s.clients
    BY <2>1, OfFound, FindPlace
  <2> QED
    BY <1>3, <2>1, <2>2 DEF Distinct
<1>5. PICK r : r = [s EXCEPT !.ic[i].connected = TRUE]
  OBVIOUS
<1>6. r.clients = s.clients /\ r.ic[i].connect_id = s.ic[i].connect_id
  BY <1>1, <1>5 DEF Server, ICRecord
<1>7. SetEventMask(r, i, 1) = SendAt(r, k, m)
  BY <1>4, <1>6 DEF SetEventMask, Send, FindClient
<1>8. [Answer(s, c, m) EXCEPT !.ic[i].connected = TRUE] = SendAt(r, k, m)
  <2>1. k \in {0} \cup DOMAIN s.clients /\ Answer(s, c, m) = SendAt(s, k, m)
    BY <1>2, <1>3 DEF Answer
  <2>2. TRUE \in BOOLEAN
    OBVIOUS
  <2>3. Mark(SendAt(s, k, m), i, TRUE) = SendAt(Mark(s, i, TRUE), k, m)
    BY <1>1, <2>1, <2>2, MarkedFirst
  <2> QED
    BY <1>5, <2>1, <2>3 DEF Mark
<1>9. Keeps(s, SetEventMask([s EXCEPT !.ic[i].connected = TRUE], i, 1), {})
  BY SwitchKeeps
<1> QED
  BY <1>5, <1>7, <1>8, <1>9

\* No IC goes because a message is sent, or an IC is marked.
LEMMA SendAtSpares ==
  ASSUME NEW s \in Server, NEW k \in {0} \cup DOMAIN s.clients, NEW m \in Message
  PROVE  Spares(s, SendAt(s, k, m), {})
<1>1. PICK t : t = SendAt(s, k, m)
  OBVIOUS
<1>2. t.clients = s.clients /\ t.ic = s.ic /\ t.ic_free = s.ic_free
  BY <1>1 DEF SendAt, Server
<1>3. Spares(s, t, {})
  BY <1>2 DEF Spares, Kin
<1> QED
  BY <1>1, <1>3

\* An answer spares every IC,
LEMMA AnswerSpares ==
  ASSUME NEW s \in Server, NEW c, NEW m \in Message
  PROVE  Spares(s, Answer(s, c, m), {})
BY RecordPlace, SendAtSpares DEF Answer

\* and so does a mark.
LEMMA MarkSpares ==
  ASSUME NEW s \in Server, NEW i \in Id, NEW b \in BOOLEAN
  PROVE  Spares(s, Mark(s, i, b), {})
<1> DEFINE e == [s.ic[i] EXCEPT !.connected = b]
           t == [s EXCEPT !.ic = [s.ic EXCEPT ![i] = e]]
<1>1. t = Mark(s, i, b)
  BY DEF Mark
<1>2. s.ic \in [Id -> ICRecord] /\ s.ic[i] \in ICRecord
  BY DEF Server
<1>3. e.connect_id = s.ic[i].connect_id /\ e.focus_win = s.ic[i].focus_win
  BY <1>2 DEF ICRecord
<1>4. t.ic = [s.ic EXCEPT ![i] = e] /\ t.clients = s.clients /\ t.ic_free = s.ic_free
  BY <1>2 DEF Server
<1> HIDE DEF e, t
<1>5. \A j \in Id : /\ t.ic[j].connect_id = s.ic[j].connect_id
                    /\ t.ic[j].focus_win = s.ic[j].focus_win
  BY <1>2, <1>3, <1>4
<1>6. InUse(t.ic) = InUse(s.ic)
  BY <1>5 DEF InUse
<1>7. InUse(s.ic) \subseteq Id
  BY DEF InUse
<1>8. Spares(s, t, {})
  BY <1>4, <1>5, <1>6, <1>7 DEF Spares, Kin
<1> QED
  BY <1>1, <1>8

\* Two things done that take only doomed ICs.
LEMMA SparesTwice ==
  ASSUME NEW s, NEW t, NEW u, Spares(s, t, {}), Spares(t, u, {})
  PROVE  Spares(s, u, {})
<1>1. Spares(s, u, {} \cup {})
  BY SparesThen
<1> QED
  BY <1>1

\* What xim_trigger_handler() does of an IC that is there and has been marked.
Acted(on, i, p, text) ==
    LET act == IF text THEN Commit(CommitString(on, i)) ELSE on
    IN  IF p = "off" THEN Disconnect(act, i) ELSE act

\* Committing and switching keep everything.
LEMMA ActedKeeps ==
  ASSUME NEW s \in Server, Distinct(s), NEW i \in InUse(s.ic), NEW p, NEW text
  PROVE  Serves(s, Acted(s, i, p, text), {}) /\ Keeps(s, Acted(s, i, p, text), {})
<1>1. PICK a : a = IF text THEN Commit(CommitString(s, i)) ELSE s
  OBVIOUS
<1>2. Serves(s, a, {}) /\ Keeps(s, a, {}) /\ a.ic = s.ic
  BY <1>1, TextServes, TextKeeps, ServesSelf, KeepsSelf
<1>3. a \in Server /\ Distinct(a) /\ i \in InUse(a.ic)
  BY <1>2, ServesServer
<1>4. PICK d : d = IF p = "off" THEN Disconnect(a, i) ELSE a
  OBVIOUS
<1>5. Serves(a, d, {}) /\ Keeps(a, d, {})
  BY <1>3, <1>4, ConnectServes, ConnectKeeps, ServesSelf, KeepsSelf
<1>6. d = Acted(s, i, p, text)
  BY <1>1, <1>4 DEF Acted
<1> QED
  BY <1>2, <1>5, <1>6, Twice, KeepsTwice

\* TriggerNotifyMessageProc(): whoever asks is answered and, if its IC is there,
\* told that it is on before the handler decides.
LEMMA TriggeredKeeps ==
  ASSUME NEW s \in Server, Distinct(s), NEW c \in Client, RecordOf(s, c) # 0,
         NEW i \in Nat, NEW p, NEW text, NEW d, d = Triggered(s, c, i, p, text)
  PROVE  /\ Serves(s, d, {<<c, "TRIGGER_NOTIFY">>}) /\ Spares(s, d, {})
         /\ stage[c] # "dead" => Places(d.out[c], Answered) # {}
         /\ i \in InUse(s.ic) /\ Of(s, i, c) => Tells(s, d)
<1>1. PICK m : m = Msg("TRIGGER_NOTIFY", i, 0)
  OBVIOUS
<1>2. PICK n : n = Msg("SET_EVENT_MASK", i, 1)
  OBVIOUS
<1>3. /\ m \in Message /\ m.op = "TRIGGER_NOTIFY" /\ m.op \in Answered
      /\ m.op # "SET_EVENT_MASK"
      /\ n \in Message /\ n.op = "SET_EVENT_MASK" /\ n.op \notin Answered
  BY <1>1, <1>2, Small DEF Msg, Message, Op, Answered, Queries
<1>4. PICK first : first = Answer(s, c, m)
  OBVIOUS
<1>5. PICK told : told = Answer(first, c, n)
  OBVIOUS
<1>6. PICK on : on = Mark(told, i, TRUE)
  OBVIOUS
<1>7. d = IF i \notin InUse(s.ic) THEN told ELSE Acted(on, i, p, text)
  BY <1>1, <1>2, <1>4, <1>5, <1>6 DEF Triggered, Acted, Mark
<1>8. Serves(s, d, {<<c, "TRIGGER_NOTIFY">>})
  BY TriggeredServes
<1>9. Serves(s, first, {<<c, "TRIGGER_NOTIFY">>}) /\ first.ic = s.ic
  BY <1>3, <1>4, AnswerServes
<1>10. first \in Server /\ Distinct(first) /\ first.clients = s.clients
  BY <1>9, ServesServer DEF Serves
<1>11. Keeps(s, first, {})
  BY <1>3, <1>4, AnswerKeeps
<1>12. RecordOf(first, c) # 0
  BY <1>10 DEF RecordOf
<1>13. Serves(first, told, {}) /\ told.ic = first.ic
  BY <1>3, <1>5, <1>10, <1>12, AnswerServes
<1>14. told \in Server /\ Distinct(told)
  BY <1>10, <1>13, ServesServer
<1>15. Spares(first, told, {})
  BY <1>3, <1>5, <1>10, AnswerSpares
<1>16. Spares(s, told, {})
  BY <1>11, <1>15, SparesTwice DEF Keeps
<1>17. CASE i \notin InUse(s.ic)
  <2>1. d = told
    BY <1>7, <1>17
  <2>2. stage[c] # "dead" => Places(first.out[c], Answered) # {}
    BY <1>3, <1>4, AnswerEnds, EndsAnswered
  <2>3. Places(first.out[c], Answered) \subseteq Places(told.out[c], Answered)
    BY <1>13, SendsGrow DEF Serves
  <2> QED
    BY <1>8, <1>16, <1>17, <2>1, <2>2, <2>3
<1>18. CASE i \in InUse(s.ic)
  <2>1. i \in Id
    BY <1>18 DEF InUse
  <2>2. d = Acted(on, i, p, text)
    BY <1>7, <1>18
  <2>3. Serves(told, on, {}) /\ InUse(on.ic) = InUse(told.ic)
    <3>1. TRUE \in BOOLEAN
      OBVIOUS
    <3> QED
      BY <1>6, <1>14, <2>1, <3>1, TurnServes DEF Mark
  <2>4. on \in Server /\ Distinct(on) /\ i \in InUse(on.ic)
    BY <1>9, <1>13, <1>14, <1>18, <2>3, ServesServer
  <2>5. Serves(on, d, {}) /\ Keeps(on, d, {})
    BY <2>2, <2>4, ActedKeeps
  <2>6. Spares(told, on, {})
    <3>1. TRUE \in BOOLEAN
      OBVIOUS
    <3> QED
      BY <1>6, <1>14, <2>1, <3>1, MarkSpares
  <2>7. Spares(s, d, {})
    <3>1. Spares(s, on, {})
      BY <1>16, <2>6, SparesTwice
    <3> QED
      BY <2>5, <3>1, SparesTwice DEF Keeps
  <2>8. Serves(first, d, {})
    <3>1. Serves(told, d, {})
      BY <1>14, <2>3, <2>5, Twice
    <3> QED
      BY <1>10, <1>13, <3>1, Twice
  <2>9. stage[c] # "dead" => Places(d.out[c], Answered) # {}
    <3>1. stage[c] # "dead" => Places(first.out[c], Answered) # {}
      BY <1>3, <1>4, AnswerEnds, EndsAnswered
    <3>2. Places(first.out[c], Answered) \subseteq Places(d.out[c], Answered)
      BY <2>8, SendsGrow DEF Serves
    <3> QED
      BY <3>1, <3>2
  <2>10. ASSUME Of(s, i, c) PROVE Tells(s, d)
    <3>1. i \in InUse(first.ic) /\ Of(first, i, c)
      BY <1>9, <1>10, <1>18, <2>10 DEF Of
    <3>2. Keeps(first, on, {})
      BY <1>2, <1>5, <1>6, <1>10, <1>12, <3>1, ToldKeeps DEF Mark
    <3>3. Keeps(first, d, {})
      BY <2>5, <3>2, KeepsTwice
    <3>4. Keeps(s, d, {})
      BY <1>11, <3>3, KeepsTwice
    <3> QED
      BY <3>4 DEF Keeps
  <2> QED
    BY <1>8, <2>7, <2>9, <2>10
<1> QED
  BY <1>17, <1>18

\* TriggerNotifyMessageProc(): the IC is the client's, unless one has died.
LEMMA TriggerMinds ==
  ASSUME IInv, OwnInv, MaskInv, NEW c \in Client, TriggerNotify(c)
  PROVE  OwnInv' /\ MaskInv'
<1>1. /\ Takes(c) /\ Head(to_server[c]).op = "TRIGGER_NOTIFY"
      /\ RecordOf(Core, c) # 0 /\ Head(to_server[c]) \in Message
      /\ \A t : t \in Server /\ Store(t) => Core' = t
  BY Received1 DEF TriggerNotify
<1>2. Core \in Server /\ Distinct(Core) /\ Core.out = to_client /\ Core.ic = ic
      /\ Sound(Core)
  BY CoreIs DEF OwnInv
<1>3. PICK i : i = Head(to_server[c]).icid
  OBVIOUS
<1>4. PICK p, text, due :
          Store(CheckIcExist(Triggered(Core, c, i, p, text), i, due))
  <2>1. PICK p \in {"keep", "off"} : \E text \in {FALSE, p = "off"} : \E due \in BOOLEAN :
            Store(CheckIcExist(Triggered(Core, c, i, p, text), i, due))
    BY <1>3 DEF TriggerNotify
  <2> QED
    BY <2>1
<1>5. PICK t : t = Triggered(Core, c, i, p, text)
  OBVIOUS
<1>6. PICK d : d = CheckIcExist(t, i, due)
  OBVIOUS
<1>7. i \in Nat
  BY <1>1, <1>3 DEF Message
<1>8. /\ Serves(Core, t, {<<c, "TRIGGER_NOTIFY">>}) /\ Spares(Core, t, {})
      /\ stage[c] # "dead" => Places(t.out[c], Answered) # {}
      /\ i \in InUse(Core.ic) /\ Of(Core, i, c) => Tells(Core, t)
  BY <1>1, <1>2, <1>5, <1>7, TriggeredKeeps
<1>9. t \in Server /\ Distinct(t)
  BY <1>2, <1>8, ServesServer
<1>10. Serves(t, d, {}) /\ Keeps(t, d, {})
  BY <1>6, <1>9, CheckServes, CheckKeeps
<1>11. d \in Server
  BY <1>9, <1>10, ServesServer
<1>12. Core' = d
  BY <1>1, <1>4, <1>5, <1>6, <1>11
<1>13. to_client' = d.out
  BY <1>12 DEF Core
<1>14. Serves(Core, d, {<<c, "TRIGGER_NOTIFY">>})
  BY <1>2, <1>8, <1>10, AnswerFirst
<1>15. Passes(Core, Core', {})
  <2>1. Spares(Core, d, {})
    BY <1>8, <1>10, SparesTwice DEF Keeps
  <2> QED
    BY <1>12, <2>1, SparesPass
<1>16. ASSUME Alive(c) PROVE Places(to_client'[c], Answered) # {}
  <2>1. Places(t.out[c], Answered) # {}
    BY <1>8, <1>16 DEF Alive
  <2>2. Places(t.out[c], Answered) \subseteq Places(d.out[c], Answered)
    BY <1>10, SendsGrow DEF Serves
  <2> QED
    BY <1>13, <2>1, <2>2
<1>17. ASSUME ~DiedAsking({"DESTROY_IC", "TRIGGER_NOTIFY"}) PROVE Tells(Core, Core')
  <2>1. /\ Head(to_server[c]).op \in Answered /\ Head(to_server[c]).op \in AboutIC
    BY <1>1 DEF Answered, AboutIC
  <2>2. /\ to_server[c][1] = Head(to_server[c]) /\ 1 \in DOMAIN to_server[c]
        /\ waits[c] = "TRIGGER_NOTIFY"
    BY <1>1, <2>1, RequestTaken
  <2>3. Alive(c) /\ ~DiedAsking({"DESTROY_IC"})
    BY <1>17, <2>2 DEF DiedAsking
  <2>4. Owns(c)
    BY <2>3 DEF OwnInv
  <2>5. 1 \in Places(to_server[c], AboutIC)
    BY <2>1, <2>2 DEF Places
  <2>6. i \in held[c]
    BY <1>3, <2>2, <2>4, <2>5 DEF Owns
  <2>7. held[c] \subseteq Own(c)
    BY DEF Own, Given
  <2>8. i \in InUse(Core.ic) /\ Of(Core, i, c)
    BY <2>4, <2>6, <2>7 DEF Owns, Holds
  <2>9. Tells(Core, d)
    BY <1>8, <1>10, <2>8, TellsThen DEF Keeps
  <2> QED
    BY <1>12, <2>9
<1>18. Minds(Core, c, {})
  BY <1>1, <1>2, <1>12, <1>14, <1>15, <1>16, <1>17 DEF Minds, Serves
<1> QED
  BY <1>1, <1>18, MindsPlain

\* A record that changes without changing its client does not matter to the ICs.
LEMMA KinKeeps ==
  ASSUME NEW s, NEW t, Kin(s, t), t.ic = s.ic, t.ic_free = s.ic_free, t.out = s.out
  PROVE  Keeps(s, t, {})
BY DEF Keeps, Spares, Tells

\* ForwardEventMessageProc()
LEMMA ForwardMinds ==
  ASSUME IInv, OwnInv, MaskInv, NEW c \in Client, ForwardEvent(c)
  PROVE  OwnInv' /\ MaskInv'
<1>1. /\ Takes(c) /\ Head(to_server[c]).op = "FORWARD_EVENT"
      /\ RecordOf(Core, c) # 0 /\ Head(to_server[c]) \in Message
  BY Received1 DEF ForwardEvent
<1>2. Core \in Server /\ Distinct(Core) /\ Core.clients = clients
  BY CoreIs
<1>3. "FORWARD_EVENT" \notin Answered
  BY DEF Answered, Queries
<1>4. PICK k : k = RecordOf(Core, c)
  OBVIOUS
<1>5. k \in DOMAIN Core.clients /\ Core.clients[k].client_win = c
  BY <1>1, <1>2, <1>4, RecordPlace
<1>6. PICK m \in Message : m = Head(to_server[c])
  BY <1>1
<1>7. PICK o : Store(Forward(Core, c, k, m, o))
  BY <1>4, <1>6 DEF ForwardEvent
<1>8. CASE Core.clients[k].sync
  <2>1. PICK r : r = [clients[k] EXCEPT !.pending = Append(clients[k].pending, m)]
    OBVIOUS
  <2>2. PICK t : t = [Core EXCEPT !.clients = [clients EXCEPT ![k] = r]]
    OBVIOUS
  <2>3. Forward(Core, c, k, m, o) = t
    <3>1. Forward(Core, c, k, m, o) = AddQueue(Core, k, m)
      BY <1>8 DEF Forward
    <3>2. AddQueue(Core, k, m) = [Core EXCEPT !.clients = [clients EXCEPT ![k] = r]]
      BY <1>2, <2>1 DEF AddQueue
    <3> QED
      BY <2>2, <3>1, <3>2
  <2>4. clients[k] \in Record /\ m \in Key /\ clients \in Seq(Record)
    BY <1>1, <1>2, <1>5, <1>6, ElementOfSeq DEF Server, Key
  <2>5. Append(clients[k].pending, m) \in Seq(Key)
    BY <2>4, AppendProperties DEF Record
  <2>6. r \in Record /\ r.client_win = clients[k].client_win
        /\ r.connect_id = clients[k].connect_id
    BY <2>1, <2>4, <2>5 DEF Record
  <2>7. [clients EXCEPT ![k] = r] \in Seq(Record)
    BY <1>2, <1>5, <2>4, <2>6, ExceptSeq
  <2>8. /\ t.clients = [clients EXCEPT ![k] = r] /\ t.ic = Core.ic
        /\ t.ic_free = Core.ic_free /\ t.out = Core.out
    BY <2>2 DEF Core
  <2>9. t \in Server
    BY <1>2, <2>2, <2>7 DEF Server
  <2>10. Kin(Core, t)
    BY <1>2, <1>5, <2>4, <2>6, <2>8 DEF Kin
  <2>11. Sends(Core, t, {})
    BY <2>8 DEF Sends, NewAnswers
  <2>12. Keeps(Core, t, {})
    BY <2>8, <2>10, KinKeeps
  <2> QED
    BY <1>1, <1>3, <1>7, <2>3, <2>9, <2>11, <2>12, QuietMinds
<1>9. CASE ~Core.clients[k].sync
  <2>1. PICK t : t = HandleKey(Core, c, m, o)
    OBVIOUS
  <2>2. Forward(Core, c, k, m, o) = t
    BY <1>9, <2>1 DEF Forward
  <2>3. Took(Core, t, c, k, m.n)
    BY <1>2, <1>5, <2>1, HandleKeyTook
  <2>4. t \in Server /\ Sends(Core, t, {})
    BY <2>3 DEF Took, Works
  <2>5. Keeps(Core, t, {})
    BY <1>2, <1>5, <2>1, HandleKeyKeeps
  <2> QED
    BY <1>1, <1>3, <1>7, <2>2, <2>4, <2>5, QuietMinds
<1> QED
  BY <1>8, <1>9

\* SyncReplyMessageProc()
LEMMA SyncMinds ==
  ASSUME IInv, OwnInv, MaskInv, NEW c \in Client, SyncReply(c)
  PROVE  OwnInv' /\ MaskInv'
<1>1. /\ Takes(c) /\ Head(to_server[c]).op = "SYNC_REPLY" /\ RecordOf(Core, c) # 0
  BY Received1 DEF SyncReply
<1>2. Core \in Server /\ Distinct(Core) /\ Core.clients = clients
  BY CoreIs
<1>3. "SYNC_REPLY" \notin Answered
  BY DEF Answered, Queries
<1>4. PICK k : k = RecordOf(Core, c)
  OBVIOUS
<1>5. k \in DOMAIN clients /\ clients[k].client_win = c
  BY <1>1, <1>2, <1>4, RecordPlace
<1>6. clients[k] \in Record /\ clients \in Seq(Record)
  BY <1>2, <1>5, ElementOfSeq DEF Server
<1>7. PICK r : r = [clients[k] EXCEPT !.sync = FALSE]
  OBVIOUS
<1>8. r \in Record /\ r.client_win = c /\ r.connect_id = clients[k].connect_id
      /\ ~r.sync
  BY <1>5, <1>6, <1>7 DEF Record
<1>9. PICK s : s = [Core EXCEPT !.clients = [clients EXCEPT ![k] = r]]
  OBVIOUS
<1>10. [Core EXCEPT !.clients[k].sync = FALSE] = s
  BY <1>2, <1>7, <1>9
<1>11. /\ s.clients = [clients EXCEPT ![k] = r] /\ s.ic = Core.ic
       /\ s.ic_free = Core.ic_free /\ s.out = Core.out
  BY <1>9 DEF Core
<1>12. [clients EXCEPT ![k] = r] \in Seq(Record)
  BY <1>5, <1>6, <1>8, ExceptSeq
<1>13. s \in Server
  BY <1>2, <1>9, <1>12 DEF Server
<1>14. Kin(Core, s)
  BY <1>2, <1>5, <1>6, <1>8, <1>11 DEF Kin
<1>15. Keeps(Core, s, {}) /\ Sends(Core, s, {}) /\ Distinct(s)
  BY <1>2, <1>11, <1>14, KinKeeps, KinDistinct DEF Sends, NewAnswers
<1>16. k \in DOMAIN s.clients /\ s.clients[k] = r
  BY <1>5, <1>6, <1>11
<1>17. PICK os : Store(ProcessQueue(s, c, k, os))
  BY <1>4, <1>10 DEF SyncReply
<1>18. PICK t : t = ProcessQueue(s, c, k, os)
  OBVIOUS
<1>19. PICK q : q = s.clients[k].pending
  OBVIOUS
<1>20. Pushed(s, t, c, k, q, Len(q))
  BY <1>8, <1>13, <1>15, <1>16, <1>18, <1>19, QueuePushed
<1>21. Keeps(s, t, {})
  BY <1>8, <1>13, <1>15, <1>16, <1>18, QueueKeeps
<1>22. t \in Server /\ Sends(Core, t, {})
  <2>1. Sends(Core, t, {} \cup {})
    BY <1>15, <1>20, SendsThen DEF Pushed
  <2>2. t \in Server
    BY <1>20 DEF Pushed, Works
  <2> QED
    BY <2>1, <2>2
<1>23. Keeps(Core, t, {})
  BY <1>15, <1>21, KeepsTwice
<1> QED
  BY <1>1, <1>3, <1>17, <1>18, <1>22, <1>23, QuietMinds

\* What is lost is no request.
LEMMA LostMinds ==
  ASSUME IInv, OwnInv, MaskInv, NEW c \in Client, Lost(c)
  PROVE  OwnInv' /\ MaskInv'
<1>1. Core \in Server /\ Core.clients = clients
  BY CoreIs
<1>2. Takes(c) /\ RecordOf(Core, c) = 0 /\ Head(to_server[c]).op # "XCONNECT"
      /\ Store(Core)
  BY DEF Lost, Takes
<1>3. ~HasRecord(c)
  BY <1>1, <1>2, RecordPlace DEF HasRecord
<1>4. Head(to_server[c]).op \notin Answered
  <2> SUFFICES ASSUME Head(to_server[c]).op \in Answered PROVE FALSE
    OBVIOUS
  <2>1. waits[c] = Head(to_server[c]).op /\ Sent(c, waits[c])
    BY <1>2, RequestTaken
  <2>2. Staged(c) /\ waits[c] # None
    <3>1. None \notin Answered
      BY DEF None, Answered, Queries
    <3> QED
      BY <2>1, <3>1 DEF IInv
  <2> QED
    BY <1>2, <1>3, <2>1, <2>2 DEF Staged
<1>5. Sends(Core, Core, {})
  BY <1>1, ServesSelf DEF Serves
<1> QED
  BY <1>1, <1>2, <1>4, <1>5, KeepsSelf, QuietMinds

\* One step after the other, as far as connections are concerned.
LEMMA PassesThen ==
  ASSUME NEW s, NEW t, NEW u, Passes(s, t, {}), Passes(t, u, {})
  PROVE  Passes(s, u, {})
<1>1. \A j \in InUse(u.ic) : /\ j \in InUse(s.ic)
                             /\ u.ic[j].focus_win = s.ic[j].focus_win
                             /\ \A d : Of(u, j, d) <=> Of(s, j, d)
  BY DEF Passes
<1>2. ASSUME NEW j \in InUse(s.ic) \ InUse(u.ic) PROVE Doomed(s, j)
  <2>1. CASE j \notin InUse(t.ic)
    BY <1>2, <2>1 DEF Passes
  <2>2. CASE j \in InUse(t.ic)
    <3>1. Doomed(t, j)
      BY <1>2, <2>2 DEF Passes
    <3>2. /\ \A i \in InUse(t.ic) : i \in InUse(s.ic)
                                    /\ t.ic[i].focus_win = s.ic[i].focus_win
          /\ \A d : Of(t, j, d) <=> Of(s, j, d)
      BY <2>2 DEF Passes
    <3> QED
      BY <2>2, <3>1, <3>2 DEF Doomed
  <2> QED
    BY <2>1, <2>2
<1>3. \A j \in u.ic_free : j \in s.ic_free \/ j \notin InUse(u.ic)
  BY DEF Passes
<1> QED
  BY <1>1, <1>2, <1>3 DEF Passes

\* WaitXConnectMessage(): the new connection has the connect_id of no IC.
LEMMA ReadXConnectMinds ==
  ASSUME IInv, OwnInv, MaskInv, NEW c \in Client, ReadXConnect(c)
  PROVE  OwnInv' /\ MaskInv'
<1>1. /\ Takes(c) /\ Head(to_server[c]).op = "XCONNECT"
      /\ \A t : t \in Server /\ Store(t) => Core' = t
  BY Received1 DEF ReadXConnect
<1>2. "XCONNECT" \in Answered \ {"CREATE_IC", "DESTROY_IC", "CLOSE"}
  BY DEF Answered
<1>3. ~HasRecord(c)
  <2>1. waits[c] = "XCONNECT" /\ Sent(c, "XCONNECT")
    BY <1>1, <1>2, RequestTaken
  <2> QED
    BY <2>1 DEF IInv, Staged
<1>4. Core \in Server /\ Distinct(Core) /\ Core.out = to_client /\ Core.clients = clients
      /\ Core.ic = ic /\ Sound(Core)
  BY CoreIs DEF OwnInv
<1>5. PICK t : t = NewClient(Core, c)
  OBVIOUS
<1>6. /\ t \in Server /\ Listed(t)
      /\ t.ic = Core.ic /\ t.ic_free = Core.ic_free /\ t.icid = Core.icid
      /\ t.buf = Core.buf /\ t.running = Core.running /\ t.out = Core.out
      /\ t.handled = Core.handled
      /\ \A k \in DOMAIN Core.clients :
            \E l \in DOMAIN t.clients : t.clients[l] = Core.clients[k]
      /\ \A l \in DOMAIN t.clients :
            \/ \E id \in Nat : t.clients[l] = Fresh(c, id)
            \/ \E k \in DOMAIN Core.clients : t.clients[l] = Core.clients[k]
      /\ \E l \in DOMAIN t.clients, id \in Nat : t.clients[l] = Fresh(c, id)
  <2>1. \A k \in DOMAIN Core.clients : Core.clients[k].client_win # c
    BY <1>3, <1>4 DEF HasRecord
  <2>2. Listed(Core)
    BY DEF IInv
  <2> QED
    BY <1>4, <1>5, <2>1, <2>2, NewClientJoins
<1>7. ASSUME NEW j \in InUse(Core.ic), NEW d PROVE Of(t, j, d) <=> Of(Core, j, d)
  <2>1. PICK k \in DOMAIN clients : clients[k].connect_id = ic[j].connect_id
    BY <1>4 DEF Sound, Linked
  <2>2. PICK l \in DOMAIN t.clients : t.clients[l] = clients[k]
    BY <1>4, <1>6
  <2>3. \A x \in DOMAIN t.clients : t.clients[x].connect_id = ic[j].connect_id => x = l
    BY <1>6, <2>1, <2>2 DEF Listed
  <2>4. \A x \in DOMAIN clients : clients[x].connect_id = ic[j].connect_id => x = k
    BY <1>4, <2>1 DEF Distinct
  <2>5. Of(t, j, d) <=> clients[k].client_win = d
    BY <1>4, <1>6, <2>1, <2>2, <2>3 DEF Of
  <2>6. Of(Core, j, d) <=> clients[k].client_win = d
    BY <1>4, <2>1, <2>4 DEF Of
  <2> QED
    BY <2>5, <2>6
<1>8. Linked(t)
  BY <1>4, <1>6 DEF Sound, Linked
<1>9. Passes(Core, t, {})
  BY <1>6, <1>7, <1>8 DEF Passes
<1>10. PICK m : m = Msg("XCONNECT", NoId, 0)
  OBVIOUS
<1>11. m \in Message /\ m.op = "XCONNECT" /\ m.op # "SET_EVENT_MASK" /\ m.op \in Answered
  BY <1>2, <1>10, Small DEF Msg, Message, Op, NoId
<1>12. PICK u : u = Answer(t, c, m)
  OBVIOUS
<1>13. RecordOf(t, c) # 0
  <2>1. \A id : Fresh(c, id).client_win = c
    BY DEF Fresh
  <2> QED
    BY <1>6, <2>1, RecordPlace
<1>14. Serves(t, u, {<<c, "XCONNECT">>})
  BY <1>6, <1>11, <1>12, <1>13, AnswerServes
<1>15. Keeps(t, u, {})
  BY <1>6, <1>11, <1>12, AnswerKeeps
<1>16. Core' = u
  BY <1>1, <1>5, <1>10, <1>12, <1>14 DEF ReadXConnect, Serves, Works
<1>17. Passes(Core, u, {})
  BY <1>9, <1>15, SparesPass, PassesThen DEF Keeps
<1>18. Tells(Core, u)
  <2>1. \A j \in InUse(u.ic) : j \in InUse(t.ic)
    BY <1>15 DEF Keeps, Spares
  <2>2. Tells(t, u)
    BY <1>15 DEF Keeps
  <2> QED
    BY <1>6, <1>7, <2>1, <2>2 DEF Tells
<1>19. Sends(Core, u, {<<c, "XCONNECT">>})
  BY <1>6, <1>14 DEF Serves, Sends, NewAnswers
<1>20. Alive(c) => Places(to_client'[c], Answered) # {}
  <2>1. to_client' = u.out
    BY <1>16 DEF Core
  <2> QED
    BY <1>6, <1>11, <1>12, <1>13, <2>1, AnswerEnds, EndsAnswered DEF Alive
<1>21. Minds(Core, c, {})
  BY <1>1, <1>4, <1>16, <1>17, <1>18, <1>19, <1>20 DEF Minds
<1> QED
  BY <1>1, <1>21, MindsPlain

\* DisConnectMessageProc(): the record that goes is that of no IC.
LEMMA DisConnectMinds ==
  ASSUME IInv, OwnInv, MaskInv, NEW c \in Client, DisConnect(c)
  PROVE  OwnInv' /\ MaskInv'
<1>1. /\ Takes(c) /\ Head(to_server[c]).op = "DISCONNECT" /\ RecordOf(Core, c) # 0
      /\ \A t : t \in Server /\ Store(t) => Core' = t
  BY Received1 DEF DisConnect
<1>2. "DISCONNECT" \in Answered \ {"CREATE_IC", "DESTROY_IC", "CLOSE"}
  BY DEF Answered
<1>3. Core \in Server /\ Distinct(Core) /\ Core.out = to_client /\ Core.clients = clients
      /\ Core.ic = ic /\ Sound(Core)
  BY CoreIs DEF OwnInv
<1>4. PICK k \in DOMAIN clients : k = RecordOf(Core, c) /\ clients[k].client_win = c
  BY <1>1, <1>3, RecordPlace
<1>5. \A i \in Id : ic[i].connect_id # clients[k].connect_id
  <2>1. waits[c] = "DISCONNECT"
    BY <1>1, <1>2, RequestTaken
  <2>2. Closed(c)
    BY <2>1 DEF Closed
  <2> QED
    BY <1>4, <2>2 DEF IInv, Cleaned
<1>6. PICK m : m = Msg("DISCONNECT", NoId, 0)
  OBVIOUS
<1>7. m \in Message /\ m.op = "DISCONNECT" /\ m.op # "SET_EVENT_MASK" /\ m.op \in Answered
  BY <1>2, <1>6, Small DEF Msg, Message, Op, NoId
<1>8. PICK a : a = Answer(Core, c, m)
  OBVIOUS
<1>9. Serves(Core, a, {<<c, "DISCONNECT">>}) /\ a.ic = ic
  BY <1>1, <1>3, <1>7, <1>8, AnswerServes
<1>10. Keeps(Core, a, {})
  BY <1>3, <1>7, <1>8, AnswerKeeps
<1>11. a \in Server /\ Listed(a) /\ a.clients = clients
  <2>1. a \in Server /\ a.clients = clients /\ a.free = Core.free /\ a.last = Core.last
    BY <1>3, <1>9 DEF Serves, Works
  <2> QED
    BY <1>3, <2>1 DEF IInv, Listed
<1>12. PICK t : t = DeleteClient(a, a.clients[k].connect_id)
  OBVIOUS
<1>13. /\ t \in Server /\ Listed(t)
       /\ t.ic = a.ic /\ t.ic_free = a.ic_free /\ t.icid = a.icid
       /\ t.buf = a.buf /\ t.running = a.running /\ t.out = a.out
       /\ t.handled = a.handled
       /\ \A j \in DOMAIN a.clients : j # k =>
             \E l \in DOMAIN t.clients : t.clients[l] = a.clients[j]
       /\ \A l \in DOMAIN t.clients :
             \E j \in DOMAIN a.clients : j # k /\ t.clients[l] = a.clients[j]
  BY <1>11, <1>12, DeleteClientLeaves
<1>14. PICK u : u = [t EXCEPT !.handled[c] = <<>>]
  OBVIOUS
<1>15. /\ u \in Server /\ u.clients = t.clients /\ u.ic = t.ic /\ u.ic_free = t.ic_free
       /\ u.out = t.out
  <2>1. <<>> \in Seq(Number)
    OBVIOUS
  <2> QED
    BY <1>13, <1>14, <2>1 DEF Server
<1>16. Core' = u
  <2>1. u = [Gone(Core, c) EXCEPT !.handled[c] = <<>>]
    BY <1>3, <1>4, <1>6, <1>8, <1>11, <1>12, <1>14 DEF Gone, Connection
  <2> QED
    BY <1>1, <1>15, <2>1 DEF DisConnect
<1>17. ASSUME NEW j \in InUse(a.ic), NEW d PROVE Of(u, j, d) <=> Of(a, j, d)
  <2>1. a.ic[j].connect_id # a.clients[k].connect_id
    BY <1>5, <1>9, <1>11 DEF InUse
  <2> QED
    BY <1>13, <1>15, <2>1 DEF Of
<1>18. Linked(a) => Linked(u)
  <2>1. \A j \in InUse(a.ic) : a.ic[j].connect_id # a.clients[k].connect_id
    BY <1>5, <1>9, <1>11 DEF InUse
  <2> QED
    BY <1>13, <1>15, <2>1 DEF Linked
<1>19. Passes(Core, u, {})
  <2>1. Passes(a, u, {})
    BY <1>13, <1>15, <1>17, <1>18 DEF Passes
  <2> QED
    BY <1>10, <2>1, SparesPass, PassesThen DEF Keeps
<1>20. Tells(Core, u)
  BY <1>10, <1>13, <1>15 DEF Keeps, Tells
<1>21. Sends(Core, u, {<<c, "DISCONNECT">>})
  BY <1>9, <1>13, <1>15 DEF Serves, Sends, NewAnswers
<1>22. Alive(c) => Places(to_client'[c], Answered) # {}
  <2>1. to_client' = a.out
    BY <1>13, <1>15, <1>16 DEF Core
  <2> QED
    BY <1>1, <1>3, <1>7, <1>8, <2>1, AnswerEnds, EndsAnswered DEF Alive
<1>23. Minds(Core, c, {})
  BY <1>1, <1>3, <1>16, <1>19, <1>20, <1>21, <1>22 DEF Minds
<1> QED
  BY <1>1, <1>23, MindsPlain

\* Whatever the server does.
LEMMA ServeMinds ==
  ASSUME IInv, IInv', OwnInv, MaskInv, NEW c \in Client, Serve(c)
  PROVE  OwnInv' /\ MaskInv'
<1>1. /\ ReadXConnect(c) => OwnInv' /\ MaskInv'
      /\ Open(c) => OwnInv' /\ MaskInv'
      /\ Close(c) => OwnInv' /\ MaskInv'
      /\ DisConnect(c) => OwnInv' /\ MaskInv'
  BY ReadXConnectMinds, OpenMinds, CloseMinds, DisConnectMinds
<1>2. /\ CreateIC(c) => OwnInv' /\ MaskInv'
      /\ DestroyIC(c) => OwnInv' /\ MaskInv'
      /\ SetICValues(c) => OwnInv' /\ MaskInv'
      /\ GetICValues(c) => OwnInv' /\ MaskInv'
      /\ ResetIC(c) => OwnInv' /\ MaskInv'
  BY CreateMinds, DestroyMinds, SetICValuesMinds, GetICValuesMinds, ResetMinds
<1>3. /\ SetICFocus(c) => OwnInv' /\ MaskInv'
      /\ UnsetICFocus(c) => OwnInv' /\ MaskInv'
      /\ TriggerNotify(c) => OwnInv' /\ MaskInv'
      /\ ForwardEvent(c) => OwnInv' /\ MaskInv'
      /\ SyncReply(c) => OwnInv' /\ MaskInv'
      /\ Lost(c) => OwnInv' /\ MaskInv'
  BY SetFocusMinds, UnsetFocusMinds, TriggerMinds, ForwardMinds, SyncMinds, LostMinds
<1>4. ASSUME NEW op \in Queries, Query(c, op) PROVE OwnInv' /\ MaskInv'
  BY <1>4, QueryMinds
<1>5. ConnectMessage(c) \/ QueryExtension(c) \/ EncodingNegotiation(c) \/ GetIMValues(c)
         => OwnInv' /\ MaskInv'
  BY <1>4 DEF ConnectMessage, QueryExtension, EncodingNegotiation, GetIMValues, Queries
<1> QED
  BY <1>1, <1>2, <1>3, <1>5 DEF Serve

----------------------------------------------------------------------------
(* The clients.                                                            *)

\* The first message is read: what is left about i, and what it will say.
LEMMA PoppedAbout ==
  ASSUME NEW q \in Seq(Message), q # <<>>, NEW i
  PROVE  /\ \A n \in About(Tail(q), i) :
               n \in Nat \ {0} /\ n + 1 \in About(q, i) /\ Tail(q)[n] = q[n + 1]
         /\ \A n \in About(q, i) :
               /\ n \in Nat \ {0}
               /\ \/ n = 1 /\ Head(q).op = "SET_EVENT_MASK" /\ Head(q).icid = i
                  \/ n - 1 \in About(Tail(q), i) /\ q[n] = Tail(q)[n - 1]
         /\ Head(q).op = "SET_EVENT_MASK" /\ Head(q).icid = i
               => 1 \in About(q, i) /\ q[1] = Head(q)
<1>1. PICK t : t = Tail(q)
  OBVIOUS
<1>2. PICK h : h = Head(q)
  OBVIOUS
<1>3. /\ \A n \in Places(t, {"SET_EVENT_MASK"}) :
            n \in Nat \ {0} /\ n + 1 \in Places(q, {"SET_EVENT_MASK"}) /\ t[n] = q[n + 1]
      /\ \A n \in Places(q, {"SET_EVENT_MASK"}) :
            /\ n \in Nat \ {0}
            /\ \/ n = 1 /\ h.op \in {"SET_EVENT_MASK"}
               \/ n - 1 \in Places(t, {"SET_EVENT_MASK"}) /\ q[n] = t[n - 1]
      /\ h.op \in {"SET_EVENT_MASK"} => 1 \in Places(q, {"SET_EVENT_MASK"}) /\ q[1] = h
  BY <1>1, <1>2, PoppedPlaces
<1>4. /\ \A n \in About(t, i) : n \in Nat \ {0} /\ n + 1 \in About(q, i) /\ t[n] = q[n + 1]
      /\ \A n \in About(q, i) :
            /\ n \in Nat \ {0}
            /\ \/ n = 1 /\ h.op = "SET_EVENT_MASK" /\ h.icid = i
               \/ n - 1 \in About(t, i) /\ q[n] = t[n - 1]
      /\ h.op = "SET_EVENT_MASK" /\ h.icid = i => 1 \in About(q, i) /\ q[1] = h
  BY <1>3 DEF About
<1> QED
  BY <1>1, <1>2, <1>4

\* What a client will think is the same when it has read one message of it.
LEMMA ToldTail ==
  ASSUME NEW q \in Seq(Message), q # <<>>, NEW b \in BOOLEAN, NEW i
  PROVE  /\ Head(q).op = "SET_EVENT_MASK" /\ Head(q).icid = i =>
               ToldBy(Tail(q), Head(q).n = 1, i) = ToldBy(q, b, i)
         /\ ~(Head(q).op = "SET_EVENT_MASK" /\ Head(q).icid = i) =>
               ToldBy(Tail(q), b, i) = ToldBy(q, b, i)
<1>1. PICK t : t = Tail(q)
  OBVIOUS
<1>2. PICK h : h = Head(q)
  OBVIOUS
<1>3. PICK A : A = About(q, i)
  OBVIOUS
<1>4. PICK B : B = About(t, i)
  OBVIOUS
<1>5. /\ \A n \in B : n \in Nat \ {0} /\ n + 1 \in A /\ t[n] = q[n + 1]
      /\ \A n \in A : /\ n \in Nat \ {0}
                      /\ \/ n = 1 /\ h.op = "SET_EVENT_MASK" /\ h.icid = i
                         \/ n - 1 \in B /\ q[n] = t[n - 1]
      /\ h.op = "SET_EVENT_MASK" /\ h.icid = i => 1 \in A /\ q[1] = h
  BY <1>1, <1>2, <1>3, <1>4, PoppedAbout, ZenonT(30)
<1>6. B # {} => A # {} /\ ((\E n \in A : (\A k \in A : k <= n) /\ q[n].n = 1)
                              <=> (\E n \in B : (\A k \in B : k <= n) /\ t[n].n = 1))
  <2> SUFFICES ASSUME B # {}
               PROVE  A # {} /\ ((\E n \in A : (\A k \in A : k <= n) /\ q[n].n = 1)
                              <=> (\E n \in B : (\A k \in B : k <= n) /\ t[n].n = 1))
    OBVIOUS
  <2>1. PICK x \in B : x \in Nat \ {0} /\ x + 1 \in A
    BY <1>5
  <2>2. ASSUME NEW n \in B, \A k \in B : k <= n
        PROVE  n + 1 \in A /\ q[n + 1] = t[n] /\ \A k \in A : k <= n + 1
    <3>1. n \in Nat \ {0} /\ n + 1 \in A /\ q[n + 1] = t[n]
      BY <1>5
    <3>2. ASSUME NEW k \in A PROVE k <= n + 1
      <4>1. k \in Nat \ {0} /\ (k = 1 \/ k - 1 \in B)
        BY <1>5
      <4>2. CASE k = 1
        BY <3>1, <4>2
      <4>3. CASE k - 1 \in B
        BY <2>2, <3>1, <4>1, <4>3
      <4> QED
        BY <4>1, <4>2, <4>3
    <3> QED
      BY <3>1, <3>2
  <2>3. ASSUME NEW n \in A, \A k \in A : k <= n
        PROVE  n - 1 \in B /\ q[n] = t[n - 1] /\ \A k \in B : k <= n - 1
    <3>1. n \in Nat \ {0} /\ x + 1 <= n
      BY <1>5, <2>1, <2>3
    <3>2. n # 1
      BY <2>1, <3>1
    <3>3. n - 1 \in B /\ q[n] = t[n - 1]
      BY <1>5, <3>2
    <3>4. ASSUME NEW k \in B PROVE k <= n - 1
      <4>1. k \in Nat \ {0} /\ k + 1 <= n
        BY <1>5, <2>3
      <4> QED
        BY <3>1, <4>1
    <3> QED
      BY <3>3, <3>4
  <2> QED
    BY <2>1, <2>2, <2>3
<1>7. CASE h.op = "SET_EVENT_MASK" /\ h.icid = i
  <2>1. CASE B = {}
    <3>1. A = {1} /\ q[1] = h
      BY <1>5, <1>7, <2>1
    <3>2. (\E n \in A : (\A k \in A : k <= n) /\ q[n].n = 1) <=> h.n = 1
      BY <3>1
    <3>3. ToldBy(t, h.n = 1, i) = (h.n = 1)
      BY <1>4, <2>1 DEF ToldBy
    <3>4. ToldBy(q, b, i) = (h.n = 1)
      BY <1>3, <3>1, <3>2 DEF ToldBy
    <3> QED
      BY <1>1, <1>2, <1>7, <3>3, <3>4
  <2>2. CASE B # {}
    <3>1. ToldBy(t, h.n = 1, i) = (\E n \in B : (\A k \in B : k <= n) /\ t[n].n = 1)
      BY <1>4, <2>2 DEF ToldBy
    <3>2. ToldBy(q, b, i) = (\E n \in A : (\A k \in A : k <= n) /\ q[n].n = 1)
      BY <1>3, <1>6, <2>2 DEF ToldBy
    <3>3. ToldBy(t, h.n = 1, i) = ToldBy(q, b, i)
      BY <1>6, <2>2, <3>1, <3>2
    <3> QED
      BY <1>1, <1>2, <1>7, <3>3
  <2> QED
    BY <2>1, <2>2
<1>8. CASE ~(h.op = "SET_EVENT_MASK" /\ h.icid = i)
  <2>1. CASE B = {}
    <3>1. A = {}
      BY <1>5, <1>8, <2>1
    <3> QED
      BY <1>1, <1>2, <1>3, <1>4, <1>8, <2>1, <3>1 DEF ToldBy
  <2>2. CASE B # {}
    <3>1. ToldBy(t, b, i) = (\E n \in B : (\A k \in B : k <= n) /\ t[n].n = 1)
      BY <1>4, <2>2 DEF ToldBy
    <3>2. ToldBy(q, b, i) = (\E n \in A : (\A k \in A : k <= n) /\ q[n].n = 1)
      BY <1>3, <1>6, <2>2 DEF ToldBy
    <3> QED
      BY <1>1, <1>2, <1>6, <1>8, <2>2, <3>1, <3>2
  <2> QED
    BY <2>1, <2>2
<1> QED
  BY <1>7, <1>8

\* Nothing of the other clients changes.
Alone(c) ==
    \A d \in Client : d # c =>
        /\ to_server'[d] = to_server[d] /\ to_client'[d] = to_client[d]
        /\ stage'[d] = stage[d] /\ waits'[d] = waits[d]
        /\ held'[d] = held[d] /\ mask'[d] = mask[d]

\* They own and know what they did.
LEMMA OthersStay ==
  ASSUME NEW c, UNCHANGED serverVars, Alone(c), NEW d \in Client, d # c
  PROVE  /\ Alive(d)' <=> Alive(d)
         /\ Owns(d) => Owns(d)'
         /\ Owed(d) => Owed(d)'
         /\ Knows(d) => Knows(d)'
<1>1. /\ to_server'[d] = to_server[d] /\ to_client'[d] = to_client[d]
      /\ stage'[d] = stage[d] /\ waits'[d] = waits[d]
      /\ held'[d] = held[d] /\ mask'[d] = mask[d]
  BY DEF Alone
<1>2. /\ Core.clients = clients /\ Core.ic = ic /\ Core'.clients = clients
      /\ Core'.ic = ic /\ ic' = ic
      /\ Core.out = to_client /\ Core'.out = to_client'
  BY DEF serverVars, Core
<1>3. /\ Own(d)' = Own(d) /\ Left(d)' = Left(d) /\ Leaving(d)' = Leaving(d)
      /\ (Closing(d)' <=> Closing(d))
  BY <1>1 DEF Own, Given, Leaving, Left, Closing, Sent
<1>4. \A O : /\ Holds(Core', d, O) <=> Holds(Core, d, O)
             /\ AllOf(Core', d, O) <=> AllOf(Core, d, O)
  BY <1>2 DEF Holds, AllOf, Of
<1>5. Owns(d) => Owns(d)'
  BY <1>1, <1>2, <1>3, <1>4 DEF Owns
<1>6. Fits(Core, d, Own(d)) => Fits(Core, d, Own(d))'
  BY <1>1, <1>2, <1>3 DEF Fits
<1>7. Knows(d) => Knows(d)'
  BY <1>1, <1>3, <1>6 DEF Knows
<1>8. Owed(d) => Owed(d)'
  BY <1>1 DEF Owed
<1> QED
  BY <1>1, <1>5, <1>7, <1>8 DEF Alive

\* A step of one client, then, has to be right for that client.
LEMMA ClientMinds ==
  ASSUME OwnInv, MaskInv, NEW c \in Client, Alive(c), UNCHANGED serverVars, Alone(c),
         Alive(c)' /\ Owns(c) /\ Owed(c) => Owns(c)' /\ Owed(c)',
         Alive(c)' /\ Owns(c) /\ Knows(c) => Knows(c)'
  PROVE  OwnInv' /\ MaskInv'
<1>1. \A ops : DiedAsking(ops) => DiedAsking(ops)'
  BY DEF DiedAsking, Alone, Alive
<1>2. Sound(Core)'
  <2>1. /\ Core'.clients = Core.clients /\ Core'.ic = Core.ic
        /\ Core'.ic_free = Core.ic_free
    BY DEF serverVars, Core
  <2> QED
    BY <2>1 DEF OwnInv, Sound, Linked, Of
<1>3. ASSUME ~DiedAsking({"DESTROY_IC"})', NEW d \in Client, Alive(d)'
      PROVE  Owns(d)' /\ Owed(d)'
  <2>1. ~DiedAsking({"DESTROY_IC"})
    BY <1>1, <1>3
  <2>2. CASE d = c
    BY <1>3, <2>1, <2>2 DEF OwnInv
  <2>3. CASE d # c
    BY <1>3, <2>1, <2>3, OthersStay DEF OwnInv
  <2> QED
    BY <2>2, <2>3
<1>4. ASSUME ~DiedAsking({"DESTROY_IC", "TRIGGER_NOTIFY"})', NEW d \in Client, Alive(d)'
      PROVE  Knows(d)'
  <2>1. ~DiedAsking({"DESTROY_IC", "TRIGGER_NOTIFY"})
    BY <1>1, <1>4
  <2>2. ~DiedAsking({"DESTROY_IC"})
    BY <2>1 DEF DiedAsking
  <2>3. CASE d = c
    BY <1>4, <2>1, <2>2, <2>3 DEF OwnInv, MaskInv
  <2>4. CASE d # c
    BY <1>4, <2>1, <2>4, OthersStay DEF MaskInv
  <2> QED
    BY <2>3, <2>4
<1>5. OwnInv'
  BY <1>2, <1>3 DEF OwnInv
<1>6. MaskInv'
  BY <1>4 DEF MaskInv
<1> QED
  BY <1>5, <1>6

\* A client that awaits nothing owns what it holds.
LEMMA IdleOwns ==
  ASSUME IInv, NEW c \in Client, waits[c] = None
  PROVE  /\ Places(to_server[c], Answered) = {} /\ Places(to_client[c], Answered) = {}
         /\ \A x \in Answered : /\ Places(to_server[c], {x}) = {}
                                /\ Places(to_client[c], {x}) = {}
         /\ Own(c) = held[c] /\ Left(c) = {} /\ Leaving(c) = {} /\ ~Closing(c)
<1>1. Places(to_server[c], Answered) = {} /\ Places(to_client[c], Answered) = {}
  BY NothingAwaited
<1>2. \A x \in Answered : Places(to_server[c], {x}) = {} /\ Places(to_client[c], {x}) = {}
  BY <1>1 DEF Places
<1>3. {"CREATE_IC", "DESTROY_IC", "CLOSE"} \subseteq Answered /\ None # "CLOSE"
  BY DEF Answered, None
<1>4. Left(c) = {} /\ Leaving(c) = {} /\ Given(c) = held[c]
  BY <1>2, <1>3 DEF Left, Leaving, Given
<1> QED
  BY <1>1, <1>2, <1>3, <1>4 DEF Own, Closing

\* The request of a client that awaited nothing is all there is of requests.
Posts(c, m) == to_server' = [to_server EXCEPT ![c] = Append(@, m)]
OnlyAsked(c, m) ==
    /\ \A x \in Answered : \A n \in Places(to_server'[c], {x}) :
          m.op = x /\ to_server'[c][n] = m
    /\ \A ops : m.op \in ops => \E n \in Places(to_server'[c], ops) :
          to_server'[c][n] = m

\* It is, indeed.
LEMMA OneAsked ==
  ASSUME IInv, NEW c \in Client, waits[c] = None, NEW m \in Message, Posts(c, m)
  PROVE  OnlyAsked(c, m)
<1>1. PICK q \in Seq(Message) : q = to_server[c]
  BY DEF IInv, Typed
<1>2. to_server'[c] = Append(q, m)
  BY <1>1 DEF IInv, Typed, Posts
<1>3. ASSUME NEW x \in Answered, NEW n \in Places(Append(q, m), {x})
      PROVE  m.op = x /\ Append(q, m)[n] = m
  <2>1. Places(q, {x}) = {}
    BY <1>1, IdleOwns
  <2>2. n \in Places(q, {x}) \/ (m.op \in {x} /\ Append(q, m)[n] = m)
    BY PushedPlaces
  <2> QED
    BY <2>1, <2>2
<1>4. ASSUME NEW ops, m.op \in ops
      PROVE  \E n \in Places(Append(q, m), ops) : Append(q, m)[n] = m
  BY <1>4, PushedPlaces
<1> QED
  BY <1>2, <1>3, <1>4 DEF OnlyAsked

\* XCloseIM() forgets the ICs; whoever opens has none.
LEMMA SessionMinds ==
  ASSUME IInv, OwnInv, MaskInv, NEW c \in Client, Session(c)
  PROVE  OwnInv' /\ MaskInv'
<1>1. PICK op : op = NextStage[stage[c]]
  OBVIOUS
<1>2. stage[c] \in {"off", "known", "open", "closed"}
  BY DEF IInv, Typed, Stage, Session
<1>3. /\ stage[c] = "off" => op = "XCONNECT"
      /\ stage[c] = "known" => op = "OPEN"
      /\ stage[c] = "open" => op = "CLOSE"
      /\ stage[c] = "closed" => op = "DISCONNECT"
  BY <1>1 DEF NextStage
<1>4. op \in Answered /\ op \notin AboutIC \cup {"CREATE_IC", "DESTROY_IC"} /\ op # None
      /\ op \in Op /\ NoId \in Nat /\ 0 \in Number
  BY <1>2, <1>3, Small DEF Answered, Op, NoId, AboutIC, None
<1>5. PICK m \in Message : m = Msg(op, NoId, 0) /\ m.op = op
  BY <1>4, MsgType
<1>6. /\ waits[c] = None /\ waits' = [waits EXCEPT ![c] = op]
      /\ to_server' = [to_server EXCEPT ![c] = Append(@, m)]
      /\ UNCHANGED <<to_client, serverVars, stage>>
  BY <1>1, <1>5 DEF Session, Request, Send1
<1>7. held' = [held EXCEPT ![c] = {}] /\ mask' = [mask EXCEPT ![c] = {}]
  BY DEF Session
<1>8. /\ waits \in [Client -> Answered \cup {None}] /\ held \in [Client -> SUBSET Nat]
      /\ mask \in [Client -> SUBSET Nat] /\ to_server \in [Client -> Seq(Message)]
  BY DEF IInv, Typed
<1>9. waits'[c] = op /\ held'[c] = {} /\ mask'[c] = {} /\ Alone(c)
  BY <1>6, <1>7, <1>8 DEF Alone
<1>10. /\ \A x \in Answered : /\ Places(to_server[c], {x}) = {}
                              /\ Places(to_client[c], {x}) = {}
       /\ Own(c) = held[c] /\ ~Closing(c)
  BY <1>6, IdleOwns
<1>11. /\ \A x \in Answered : \A n \in Places(to_server'[c], {x}) :
             m.op = x /\ to_server'[c][n] = m
       /\ \A ops : m.op \in ops => \E n \in Places(to_server'[c], ops) :
             to_server'[c][n] = m
  <2>1. Posts(c, m)
    BY <1>6 DEF Posts
  <2>2. OnlyAsked(c, m)
    BY <1>6, <2>1, OneAsked
  <2> QED
    BY <2>2 DEF OnlyAsked
<1>12. {"CREATE_IC", "DESTROY_IC", "CLOSE"} \cup AboutIC \subseteq Answered
  BY DEF Answered, AboutIC
<1>13. \A x \in AboutIC \cup {"CREATE_IC", "DESTROY_IC"} : Places(to_server'[c], {x}) = {}
  BY <1>4, <1>5, <1>11, <1>12
<1>14. Places(to_server'[c], AboutIC) = {}
  BY <1>13 DEF Places
<1>15. Own(c)' = {} /\ Left(c)' = {} /\ Leaving(c)' = {}
  <2>1. Leaving(c)' = {}
    BY <1>13 DEF Leaving
  <2>2. Left(c)' = {} /\ Given(c)' = {}
    BY <1>6, <1>9, <1>10, <1>12 DEF Left, Given
  <2> QED
    BY <2>1, <2>2 DEF Own
<1>16. ASSUME Owns(c) PROVE Owns(c)'
  <2>1. Holds(Core, c, Own(c))'
    BY <1>15 DEF Holds
  <2>2. CASE stage[c] = "open"
    <3>1. Closing(c)'
      BY <1>3, <1>5, <1>9, <1>11, <2>2 DEF Closing, Sent
    <3> QED
      BY <1>9, <1>13, <1>14, <1>15, <2>1, <3>1 DEF Owns
  <2>3. CASE stage[c] # "open"
    <3>1. Own(c) = {} /\ AllOf(Core, c, {})
      BY <1>10, <1>16, <2>3 DEF Owns
    <3>2. AllOf(Core', c, {})
      BY <1>6, <3>1 DEF AllOf, Of, Core, serverVars
    <3> QED
      BY <1>9, <1>13, <1>14, <1>15, <2>1, <3>2 DEF Owns
  <2> QED
    BY <2>2, <2>3
<1>17. Owed(c)'
  BY <1>4, <1>5, <1>11 DEF Owed
<1>18. ASSUME Knows(c) PROVE Knows(c)'
  <2>1. Fits(Core, c, Own(c))'
    BY <1>15 DEF Fits
  <2>2. stage'[c] = "open" => waits'[c] = "CLOSE"
    BY <1>3, <1>6, <1>9
  <2>3. stage'[c] \in {"off", "known", "closed"} =>
            Places(to_client'[c], {"SET_EVENT_MASK"}) = {}
    BY <1>6, <1>18 DEF Knows
  <2>4. /\ Places(to_client'[c], {"CLOSE"}) = {}
        /\ Places(to_client'[c], {"DESTROY_IC"}) = {}
    BY <1>6, <1>10, <1>12
  <2> QED
    BY <1>9, <2>1, <2>2, <2>3, <2>4 DEF Knows
<1>19. Alive(c)
  BY <1>2 DEF Alive
<1> QED
  BY <1>6, <1>9, <1>16, <1>17, <1>18, <1>19, ClientMinds

\* What a client that has an input method asks, or forwards: it is about an IC it
\* holds, and a new one gets a window of its own.
LEMMA AsksMinds ==
  ASSUME IInv, OwnInv, MaskInv, NEW c \in Client, NEW m \in Message,
         stage[c] = "open", waits[c] = None, m.op \notin {"CLOSE", "DISCONNECT"},
         to_server' = [to_server EXCEPT ![c] = Append(@, m)],
         UNCHANGED <<to_client, serverVars, stage, mask>>,
         waits' = IF m.op \in Answered THEN [waits EXCEPT ![c] = m.op] ELSE waits,
         held' = IF m.op = "DESTROY_IC" THEN [held EXCEPT ![c] = @ \ {m.icid}]
                 ELSE held,
         m.op \in AboutIC \cup {"DESTROY_IC"} => m.icid \in held[c],
         m.op = "CREATE_IC" => \A i \in held[c] : ic[i].focus_win # <<c, m.n>>
  PROVE  OwnInv' /\ MaskInv'
<1>1. /\ waits \in [Client -> Answered \cup {None}] /\ held \in [Client -> SUBSET Nat]
      /\ mask \in [Client -> SUBSET Nat] /\ to_server \in [Client -> Seq(Message)]
  BY DEF IInv, Typed
<1>2. /\ waits'[c] = IF m.op \in Answered THEN m.op ELSE None
      /\ held'[c] = IF m.op = "DESTROY_IC" THEN held[c] \ {m.icid} ELSE held[c]
      /\ mask' = mask /\ to_client' = to_client /\ stage' = stage /\ ic' = ic
  BY <1>1 DEF serverVars
<1>3. Alone(c)
  BY <1>1 DEF Alone
<1>4. /\ \A x \in Answered : /\ Places(to_server[c], {x}) = {}
                             /\ Places(to_client[c], {x}) = {}
      /\ Own(c) = held[c] /\ Left(c) = {} /\ ~Closing(c)
  BY IdleOwns
<1>5. /\ \A x \in Answered : \A n \in Places(to_server'[c], {x}) :
            m.op = x /\ to_server'[c][n] = m
      /\ \A ops : m.op \in ops => \E n \in Places(to_server'[c], ops) :
            to_server'[c][n] = m
  <2>1. Posts(c, m)
    BY DEF Posts
  <2>2. OnlyAsked(c, m)
    BY <2>1, OneAsked
  <2> QED
    BY <2>2 DEF OnlyAsked
<1>6. {"CREATE_IC", "DESTROY_IC", "CLOSE"} \cup AboutIC \subseteq Answered
  BY DEF Answered, AboutIC
<1>7. /\ m.op = "DESTROY_IC" => Leaving(c)' = {m.icid}
      /\ m.op # "DESTROY_IC" => Leaving(c)' = {}
  <2>1. PICK P : P = Places(to_server'[c], {"DESTROY_IC"})
    OBVIOUS
  <2>2. /\ \A n \in P : m.op = "DESTROY_IC" /\ to_server'[c][n] = m
        /\ m.op = "DESTROY_IC" => P # {}
    BY <1>5, <1>6, <2>1
  <2>3. Leaving(c)' = {to_server'[c][n].icid : n \in P}
    BY <2>1 DEF Leaving
  <2> QED
    BY <2>2, <2>3
<1>8. Left(c)' = {} /\ Given(c)' = held'[c]
  BY <1>2, <1>4, <1>6 DEF Left, Given
<1>9. Own(c)' = held[c]
  <2>1. Own(c)' = held'[c] \cup Leaving(c)'
    BY <1>8 DEF Own
  <2> QED
    BY <1>2, <1>7, <2>1
<1>10. \A n \in Places(to_server'[c], AboutIC) : to_server'[c][n] = m /\ m.op \in AboutIC
  <2> SUFFICES ASSUME NEW n \in Places(to_server'[c], AboutIC)
               PROVE  to_server'[c][n] = m /\ m.op \in AboutIC
    OBVIOUS
  <2>1. PICK x \in AboutIC : n \in Places(to_server'[c], {x})
    BY DEF Places
  <2> QED
    BY <1>5, <1>6, <2>1
<1>11. waits'[c] \notin {"CLOSE", "DISCONNECT"}
  BY <1>2 DEF None
<1>12. ASSUME Owns(c) PROVE Owns(c)'
  <2>1. Core'.clients = Core.clients /\ Core'.ic = Core.ic
    BY DEF serverVars, Core
  <2>2. /\ Holds(Core', c, held[c]) /\ AllOf(Core', c, held[c])
        /\ held[c] # {} => stage[c] = "open"
    BY <1>4, <1>12, <2>1 DEF Owns, Holds, AllOf, Of
  <2>3. (Leaving(c)' \cup Left(c)') \cap held'[c] = {}
    BY <1>2, <1>7, <1>8
  <2>4. \A n \in Places(to_server'[c], {"CREATE_IC"}) : \A i \in held[c] :
            ic'[i].focus_win # <<c, to_server'[c][n].n>>
    BY <1>2, <1>5, <1>6
  <2>5. "DESTROY_IC" \notin AboutIC
    BY DEF AboutIC
  <2>6. \A n \in Places(to_server'[c], AboutIC) : to_server'[c][n].icid \in held'[c]
    BY <1>2, <1>10, <2>5
  <2>7. held'[c] # {} => stage'[c] = "open" /\ waits'[c] # "CLOSE"
    BY <1>2, <1>11
  <2> QED
    BY <1>9, <2>2, <2>3, <2>4, <2>6, <2>7 DEF Owns
<1>13. Owed(c)'
  <2>1. CASE m.op \in Answered
    BY <1>5, <2>1 DEF Owed
  <2>2. CASE m.op \notin Answered
    BY <1>2, <2>2 DEF Owed
  <2> QED
    BY <2>1, <2>2
<1>14. ASSUME Knows(c) PROVE Knows(c)'
  <2>1. Core'.out = Core.out /\ Core'.ic = Core.ic
    BY DEF serverVars, Core
  <2>2. Fits(Core, c, Own(c))'
    BY <1>2, <1>4, <1>9, <1>14, <2>1 DEF Knows, Fits
  <2>3. waits[c] \notin {"CLOSE", "DISCONNECT"}
    BY DEF None
  <2>4. \A i \in Nat : i \notin Own(c)' \cup Left(c)' =>
            About(to_client'[c], i) = {} /\ i \notin mask'[c]
    BY <1>2, <1>4, <1>8, <1>9, <1>14, <2>3 DEF Knows
  <2>5. /\ Places(to_client'[c], {"CLOSE"}) = {}
        /\ Places(to_client'[c], {"DESTROY_IC"}) = {}
    BY <1>2, <1>4, <1>6
  <2> QED
    BY <1>2, <1>11, <2>2, <2>4, <2>5 DEF Knows
<1>15. Alive(c)
  BY DEF Alive
<1> QED
  BY <1>3, <1>12, <1>13, <1>14, <1>15, ClientMinds

\* Ask, when a client gives each of its ICs a window of its own.
LEMMA AskMinds ==
  ASSUME DistinctWindows, IInv, OwnInv, MaskInv, NEW c \in Client, Ask(c)
  PROVE  OwnInv' /\ MaskInv'
<1>1. stage[c] = "open" /\ UNCHANGED <<stage, mask>>
  BY DEF Ask
<1>2. held \in [Client -> SUBSET Nat] /\ \A i \in held[c] : i \in Nat
  BY DEF IInv, Typed
<1>3. ASSUME NEW op \in Answered \ {"CLOSE", "DISCONNECT"},
             NEW i \in Nat, NEW n \in Number, Request(c, op, i, n),
             held' = IF op = "DESTROY_IC" THEN [held EXCEPT ![c] = @ \ {i}] ELSE held,
             op \in AboutIC \cup {"DESTROY_IC"} => i \in held[c],
             op = "CREATE_IC" => \A j \in held[c] : ic[j].focus_win # <<c, n>>
      PROVE  OwnInv' /\ MaskInv'
  <2>1. PICK m \in Message : m = Msg(op, i, n) /\ m.op = op /\ m.icid = i /\ m.n = n
    BY MsgType DEF Op, Msg
  <2>2. /\ waits[c] = None /\ waits' = [waits EXCEPT ![c] = op]
        /\ to_server' = [to_server EXCEPT ![c] = Append(@, m)]
        /\ UNCHANGED <<to_client, serverVars>>
    BY <1>3, <2>1 DEF Request, Send1
  <2>3. waits' = IF m.op \in Answered THEN [waits EXCEPT ![c] = m.op] ELSE waits
    BY <2>1, <2>2
  <2> QED
    BY <1>1, <1>3, <2>1, <2>2, <2>3, AsksMinds, ZenonT(30)
<1>4. NoId \in Nat /\ 0 \in Number /\ \A w \in Windows : w \in Number
  BY Small DEF NoId, Number
<1>5. CASE /\ held[c] = {}
           /\ \E op \in Queries : Request(c, op, NoId, 0)
           /\ UNCHANGED held
  <2>1. \A op \in Queries : /\ op \in Answered \ {"CLOSE", "DISCONNECT"}
                            /\ op \notin AboutIC \cup {"DESTROY_IC", "CREATE_IC"}
    BY DEF Answered, Queries, AboutIC
  <2> QED
    BY <1>3, <1>4, <1>5, <2>1
<1>6. ASSUME NEW w \in Windows, Request(c, "CREATE_IC", NoId, w), UNCHANGED held,
             \A i \in held[c] : ic[i].focus_win # <<c, w>>
      PROVE  OwnInv' /\ MaskInv'
  <2>1. /\ "CREATE_IC" \in Answered \ {"CLOSE", "DISCONNECT"}
        /\ "CREATE_IC" \notin AboutIC \cup {"DESTROY_IC"}
    BY DEF Answered, AboutIC
  <2> QED
    BY <1>3, <1>4, <1>6, <2>1
<1>7. ASSUME NEW i \in held[c], Request(c, "DESTROY_IC", i, 0),
             held' = [held EXCEPT ![c] = @ \ {i}]
      PROVE  OwnInv' /\ MaskInv'
  <2>1. "DESTROY_IC" \in Answered \ {"CLOSE", "DISCONNECT"}
    BY DEF Answered
  <2> QED
    BY <1>2, <1>3, <1>4, <1>7, <2>1
<1>8. ASSUME NEW i \in held[c], UNCHANGED held,
             NEW op \in {"SET_IC_VALUES", "GET_IC_VALUES", "RESET_IC", "TRIGGER_NOTIFY"},
             Request(c, op, i, 0)
      PROVE  OwnInv' /\ MaskInv'
  <2>1. op \in Answered \ {"CLOSE", "DISCONNECT"} /\ op # "DESTROY_IC" /\ op # "CREATE_IC"
    BY DEF Answered
  <2> QED
    BY <1>2, <1>3, <1>4, <1>8, <2>1
<1>9. ASSUME NEW i \in held[c], UNCHANGED <<waits, held>>, waits[c] = None,
             NEW op \in {"SET_IC_FOCUS", "UNSET_IC_FOCUS"}, Send1(c, Msg(op, i, 0))
      PROVE  OwnInv' /\ MaskInv'
  <2>1. PICK m \in Message : m = Msg(op, i, 0) /\ m.op = op
    BY <1>2, <1>4, MsgType DEF Op
  <2>2. /\ to_server' = [to_server EXCEPT ![c] = Append(@, m)]
        /\ UNCHANGED <<to_client, serverVars>>
    BY <1>9, <2>1 DEF Send1
  <2>3. op \notin Answered /\ op \notin AboutIC
        /\ op \notin {"CLOSE", "DISCONNECT", "DESTROY_IC", "CREATE_IC"}
    BY DEF Answered, Queries, AboutIC
  <2>4. /\ waits' = IF m.op \in Answered THEN [waits EXCEPT ![c] = m.op] ELSE waits
        /\ held' = IF m.op = "DESTROY_IC" THEN [held EXCEPT ![c] = @ \ {m.icid}] ELSE held
    BY <1>9, <2>1, <2>3
  <2> QED
    BY <1>1, <1>9, <2>1, <2>2, <2>3, <2>4, AsksMinds
<1> QED
  BY <1>5, <1>6, <1>7, <1>8, <1>9 DEF Ask

\* A key that is forwarded.
LEMMA TypeMinds ==
  ASSUME IInv, OwnInv, MaskInv, NEW c \in Client, Type(c)
  PROVE  OwnInv' /\ MaskInv'
<1>1. PICK i \in mask[c] \cap held[c] : Send1(c, Msg("FORWARD_EVENT", i, typed[c] + 1))
  BY DEF Type
<1>2. i \in Nat /\ typed[c] + 1 \in Number
  BY DEF IInv, Typed, Number
<1>3. PICK m \in Message : m = Msg("FORWARD_EVENT", i, typed[c] + 1)
                           /\ m.op = "FORWARD_EVENT"
  BY <1>2, MsgType DEF Op, Synchronous
<1>4. /\ to_server' = [to_server EXCEPT ![c] = Append(@, m)]
      /\ UNCHANGED <<to_client, serverVars>>
  BY <1>1, <1>3 DEF Send1
<1>5. "FORWARD_EVENT" \notin Answered /\ "FORWARD_EVENT" \notin AboutIC
  BY DEF Answered, Queries, AboutIC
<1>6. stage[c] = "open" /\ waits[c] = None /\ UNCHANGED <<stage, waits, held, mask>>
  BY DEF Type
<1>7. /\ waits' = IF m.op \in Answered THEN [waits EXCEPT ![c] = m.op] ELSE waits
      /\ held' = IF m.op = "DESTROY_IC" THEN [held EXCEPT ![c] = @ \ {m.icid}] ELSE held
  BY <1>3, <1>5, <1>6
<1> QED
  BY <1>3, <1>4, <1>5, <1>6, <1>7, AsksMinds

\* Nothing is promised to who is gone.
LEMMA DieMinds ==
  ASSUME IInv, OwnInv, MaskInv, NEW c \in Client, Die(c)
  PROVE  OwnInv' /\ MaskInv'
<1>1. Alive(c) /\ ~Alive(c)'
  BY DEF Die, Alive, IInv, Typed
<1>2. UNCHANGED serverVars /\ Alone(c)
  BY DEF Die, Alone, IInv, Typed
<1> QED
  BY <1>1, <1>2, ClientMinds

\* What a client has sent and is still a request is what it was.
SameAsked(c) ==
    \A ops \in SUBSET Answered :
        /\ Places(to_server'[c], ops) = Places(to_server[c], ops)
        /\ \A n \in Places(to_server[c], ops) : to_server'[c][n] = to_server[c][n]

\* What the first message, which is no answer, does to a client's mask.
Masked(c, h) ==
    mask'[c] = IF h.op # "SET_EVENT_MASK" THEN mask[c]
               ELSE IF h.n = 1 THEN mask[c] \cup {h.icid} ELSE mask[c] \ {h.icid}

\* What a client reads that is no answer leaves it what it owns,
LEMMA ToldOwns ==
  ASSUME IInv, NEW c \in Client, Alive(c), NEW q \in Seq(Message), q # <<>>,
         to_client[c] = q, to_client'[c] = Tail(q), Head(q).op \notin Answered,
         UNCHANGED <<serverVars, stage, waits, held>>, SameAsked(c)
  PROVE  /\ Own(c)' = Own(c) /\ Left(c)' = Left(c)
         /\ Owns(c) => Owns(c)'
         /\ Owed(c) => Owed(c)'
<1>1. PICK t : t = Tail(q)
  OBVIOUS
<1>2. ASSUME NEW ops \in SUBSET Answered
      PROVE  /\ \A n \in Places(t, ops) : n + 1 \in Places(q, ops) /\ t[n] = q[n + 1]
             /\ \A n \in Places(q, ops) : n - 1 \in Places(t, ops) /\ q[n] = t[n - 1]
  <2>1. Head(q).op \notin ops
    OBVIOUS
  <2>2. /\ \A n \in Places(Tail(q), ops) :
              n \in Nat \ {0} /\ n + 1 \in Places(q, ops) /\ Tail(q)[n] = q[n + 1]
        /\ \A n \in Places(q, ops) :
              /\ n \in Nat \ {0}
              /\ \/ n = 1 /\ Head(q).op \in ops
                 \/ n - 1 \in Places(Tail(q), ops) /\ q[n] = Tail(q)[n - 1]
    BY PoppedPlaces
  <2>3. \A n \in Places(q, ops) : n - 1 \in Places(Tail(q), ops) /\ q[n] = Tail(q)[n - 1]
    BY <2>1, <2>2
  <2> QED
    BY <1>1, <2>2, <2>3
<1>3. {"CREATE_IC", "DESTROY_IC", "CLOSE"} \cup AboutIC \subseteq Answered
  BY DEF Answered, AboutIC
<1>4. Given(c)' = Given(c)
  <2>1. /\ \A n \in Places(t, {"CREATE_IC"}) :
              \E m \in Places(q, {"CREATE_IC"}) : t[n] = q[m]
        /\ \A n \in Places(q, {"CREATE_IC"}) :
              \E m \in Places(t, {"CREATE_IC"}) : q[n] = t[m]
    BY <1>2, <1>3
  <2>2. to_client'[c] = t /\ to_client[c] = q /\ held' = held
    BY <1>1
  <2>3. \A x : x \in Given(c) <=> x \in held[c] \/ \E n \in Places(q, {"CREATE_IC"}) : x = q[n].icid
    BY <2>2 DEF Given
  <2>4. \A x : x \in Given(c)' <=> x \in held'[c] \/ \E n \in Places(t, {"CREATE_IC"}) : x = t[n].icid
    BY <2>2 DEF Given
  <2>5. \A x : x \in Given(c)' <=> x \in Given(c)
    BY <2>1, <2>2, <2>3, <2>4
  <2> QED
    BY <2>5 DEF Given
<1>5. Left(c)' = Left(c)
  <2>1. /\ \A n \in Places(t, {"DESTROY_IC"}) :
              \E m \in Places(q, {"DESTROY_IC"}) : t[n] = q[m]
        /\ \A n \in Places(q, {"DESTROY_IC"}) :
              \E m \in Places(t, {"DESTROY_IC"}) : q[n] = t[m]
    BY <1>2, <1>3
  <2>2. to_client'[c] = t /\ to_client[c] = q /\ held' = held
    BY <1>1
  <2>3. \A x : x \in Left(c) <=> \E n \in Places(q, {"DESTROY_IC"}) : x = q[n].icid
    BY <2>2 DEF Left
  <2>4. \A x : x \in Left(c)' <=> \E n \in Places(t, {"DESTROY_IC"}) : x = t[n].icid
    BY <2>2 DEF Left
  <2>5. \A x : x \in Left(c)' <=> x \in Left(c)
    BY <2>1, <2>2, <2>3, <2>4
  <2> QED
    BY <2>5 DEF Left
<1>6. /\ \A x \in {"CREATE_IC", "DESTROY_IC", "CLOSE"} :
            /\ Places(to_server'[c], {x}) = Places(to_server[c], {x})
            /\ \A n \in Places(to_server[c], {x}) : to_server'[c][n] = to_server[c][n]
      /\ Places(to_server'[c], AboutIC) = Places(to_server[c], AboutIC)
      /\ \A n \in Places(to_server[c], AboutIC) : to_server'[c][n] = to_server[c][n]
      /\ Places(to_server'[c], Answered) = Places(to_server[c], Answered)
  BY <1>3 DEF SameAsked
<1>7. Leaving(c)' = Leaving(c) /\ (Closing(c)' <=> Closing(c))
  <2>1. Leaving(c)' = Leaving(c)
    BY <1>6 DEF Leaving
  <2>2. Closing(c)' <=> Closing(c)
    BY <1>6 DEF Closing, Sent
  <2> QED
    BY <2>1, <2>2
<1>8. Own(c)' = Own(c)
  BY <1>4, <1>7 DEF Own
<1>9. ASSUME Owns(c) PROVE Owns(c)'
  <2>1. Core'.clients = Core.clients /\ Core'.ic = Core.ic /\ ic' = ic
    BY DEF serverVars, Core
  <2>2. /\ Holds(Core', c, Own(c)) /\ (Closing(c) \/ AllOf(Core', c, Own(c)))
    BY <1>9, <2>1 DEF Owns, Holds, AllOf, Of
  <2>3. \A n \in Places(to_server'[c], {"CREATE_IC"}) : \A i \in Own(c) :
            ic'[i].focus_win # <<c, to_server'[c][n].n>>
    BY <1>6, <1>9, <2>1 DEF Owns
  <2>4. \A n \in Places(to_server'[c], AboutIC) : to_server'[c][n].icid \in held'[c]
    BY <1>6, <1>9 DEF Owns
  <2> QED
    BY <1>5, <1>7, <1>8, <1>9, <2>2, <2>3, <2>4 DEF Owns
<1>10. ASSUME Owed(c) PROVE Owed(c)'
  <2>1. Places(q, Answered) # {} => Places(t, Answered) # {}
    BY <1>2
  <2> QED
    BY <1>1, <1>6, <1>10, <2>1 DEF Owed
<1> QED
  BY <1>5, <1>8, <1>9, <1>10

\* and it knows what it knew, or has just been told.
LEMMA ToldKnows ==
  ASSUME IInv, NEW c \in Client, Alive(c), NEW q \in Seq(Message), q # <<>>,
         to_client[c] = q, to_client'[c] = Tail(q), Head(q).op \notin Answered,
         UNCHANGED <<serverVars, stage, waits, held>>, Masked(c, Head(q)),
         Own(c)' = Own(c), Left(c)' = Left(c), Knows(c)
  PROVE  Knows(c)'
<1>1. PICK t : t = Tail(q)
  OBVIOUS
<1>2. PICK h : h = Head(q)
  OBVIOUS
<1>3. /\ \A n \in Places(t, {"SET_EVENT_MASK"}) :
            n \in Nat \ {0} /\ n + 1 \in Places(q, {"SET_EVENT_MASK"})
      /\ h.op = "SET_EVENT_MASK" => 1 \in Places(q, {"SET_EVENT_MASK"})
      /\ \A n \in Places(t, {"CLOSE"}) : n \in Nat \ {0} /\ n + 1 \in Places(q, {"CLOSE"})
      /\ \A n \in Places(t, {"DESTROY_IC"}) :
            n \in Nat \ {0} /\ n + 1 \in Places(q, {"DESTROY_IC"}) /\ t[n] = q[n + 1]
  BY <1>1, <1>2, PoppedPlaces, ZenonT(30)
<1>4. \A i : /\ \A n \in About(t, i) : n \in Nat \ {0} /\ n + 1 \in About(q, i)
             /\ h.op = "SET_EVENT_MASK" /\ h.icid = i => 1 \in About(q, i)
  BY <1>1, <1>2, PoppedAbout
<1>5. h.op # "SET_EVENT_MASK" => mask'[c] = mask[c]
  BY <1>2 DEF Masked
<1>6. Fits(Core, c, Own(c))'
  <2> SUFFICES ASSUME NEW i \in Own(c)
               PROVE  ToldBy(t, i \in mask'[c], i) = ic[i].connected
    BY <1>1 DEF Fits, Core, serverVars
  <2>1. ToldBy(q, i \in mask[c], i) = ic[i].connected
    BY DEF Knows, Fits, Core
  <2>2. \A b \in BOOLEAN :
            /\ h.op = "SET_EVENT_MASK" /\ h.icid = i => ToldBy(t, h.n = 1, i) = ToldBy(q, b, i)
            /\ ~(h.op = "SET_EVENT_MASK" /\ h.icid = i) => ToldBy(t, b, i) = ToldBy(q, b, i)
    BY <1>1, <1>2, ToldTail
  <2>3. \E b \in BOOLEAN : ToldBy(q, b, i) = ic[i].connected /\ ((i \in mask[c]) = b)
    <3>1. CASE i \in mask[c]
      <4>1. (i \in mask[c]) = TRUE
        BY <3>1
      <4>2. ToldBy(q, TRUE, i) = ic[i].connected
        BY <2>1, <4>1, Zenon
      <4> QED
        BY <4>1, <4>2
    <3>2. CASE i \notin mask[c]
      <4>1. (i \in mask[c]) = FALSE
        BY <3>2
      <4>2. ToldBy(q, FALSE, i) = ic[i].connected
        BY <2>1, <4>1, Zenon
      <4> QED
        BY <4>1, <4>2
    <3> QED
      BY <3>1, <3>2
  <2>4. PICK b \in BOOLEAN : ToldBy(q, b, i) = ic[i].connected /\ ((i \in mask[c]) = b)
    BY <2>3
  <2>5. CASE h.op = "SET_EVENT_MASK" /\ h.icid = i
    <3>1. ToldBy(t, h.n = 1, i) = ic[i].connected
      BY <2>2, <2>4, <2>5
    <3>2. (i \in mask'[c]) <=> h.n = 1
      BY <1>2, <2>5 DEF Masked
    <3>3. CASE h.n = 1
      <4>1. (h.n = 1) = TRUE /\ (i \in mask'[c]) = TRUE
        BY <3>2, <3>3
      <4>2. ToldBy(t, TRUE, i) = ic[i].connected
        BY <3>1, <4>1, Zenon
      <4> QED
        BY <4>1, <4>2, Zenon
    <3>4. CASE h.n # 1
      <4>1. (h.n = 1) = FALSE /\ (i \in mask'[c]) = FALSE
        BY <3>2, <3>4
      <4>2. ToldBy(t, FALSE, i) = ic[i].connected
        BY <3>1, <4>1, Zenon
      <4> QED
        BY <4>1, <4>2, Zenon
    <3> QED
      BY <3>3, <3>4
  <2>6. CASE ~(h.op = "SET_EVENT_MASK" /\ h.icid = i)
    <3>1. ToldBy(t, b, i) = ic[i].connected
      BY <2>2, <2>4, <2>6
    <3>2. (i \in mask'[c]) <=> (i \in mask[c])
      BY <1>2, <2>6 DEF Masked
    <3>3. (i \in mask'[c]) = b
      BY <2>4, <3>2
    <3> QED
      BY <3>1, <3>3, Zenon
  <2> QED
    BY <2>5, <2>6
<1>7. ASSUME stage[c] = "open" /\ waits[c] # "CLOSE", NEW i \in Nat, i \notin Own(c) \cup Left(c)
      PROVE  About(t, i) = {} /\ i \notin mask'[c]
  <2>1. About(q, i) = {} /\ i \notin mask[c]
    BY <1>7 DEF Knows
  <2>2. ~(h.op = "SET_EVENT_MASK" /\ h.icid = i)
    BY <1>4, <2>1
  <2> QED
    BY <1>2, <1>4, <2>1, <2>2 DEF Masked
<1>8. ASSUME stage[c] \in {"off", "known", "closed"}
      PROVE  Places(t, {"SET_EVENT_MASK"}) = {} /\ h.op # "SET_EVENT_MASK"
  <2>1. Places(q, {"SET_EVENT_MASK"}) = {}
    BY <1>8 DEF Knows
  <2> QED
    BY <1>3, <2>1
<1>9. ASSUME stage[c] \in {"off", "known"} \/ waits[c] = "DISCONNECT" PROVE mask'[c] = {}
  <2>1. waits[c] = "DISCONNECT" => stage[c] = "closed"
    BY DEF IInv, Staged, Alive
  <2>2. h.op # "SET_EVENT_MASK"
    BY <1>8, <1>9, <2>1
  <2> QED
    BY <1>5, <1>9, <2>2 DEF Knows
<1>10. \A n \in Places(t, {"CLOSE"}) : \A m \in Places(t, {"SET_EVENT_MASK"}) : m < n
  <2> SUFFICES ASSUME NEW n \in Places(t, {"CLOSE"}), NEW m \in Places(t, {"SET_EVENT_MASK"})
               PROVE  m < n
    OBVIOUS
  <2>1. n \in Nat /\ m \in Nat /\ m + 1 < n + 1
    BY <1>3 DEF Knows
  <2> QED
    BY <2>1
<1>11. \A n \in Places(t, {"DESTROY_IC"}) : \A m \in About(t, t[n].icid) : m < n
  <2> SUFFICES ASSUME NEW n \in Places(t, {"DESTROY_IC"}), NEW m \in About(t, t[n].icid)
               PROVE  m < n
    OBVIOUS
  <2>1. n \in Nat /\ n + 1 \in Places(q, {"DESTROY_IC"}) /\ t[n] = q[n + 1]
    BY <1>3
  <2>2. m \in Nat /\ m + 1 \in About(q, q[n + 1].icid)
    BY <1>4, <2>1
  <2>3. m + 1 < n + 1
    BY <2>1, <2>2 DEF Knows
  <2> QED
    BY <2>1, <2>2, <2>3
<1> QED
  BY <1>1, <1>6, <1>7, <1>8, <1>9, <1>10, <1>11 DEF Knows

\* What is read that is no answer keeps what is promised.
LEMMA ToldMinds ==
  ASSUME IInv, OwnInv, MaskInv, NEW c \in Client, NEW ops, Delivered(c, ops),
         ops \cap Answered = {}, UNCHANGED <<stage, waits, held>>, Alone(c),
         SameAsked(c), Masked(c, Head(to_client[c]))
  PROVE  OwnInv' /\ MaskInv'
<1>1. to_client \in [Client -> Seq(Message)]
  BY DEF IInv, Typed, Core, Server
<1>2. PICK q \in Seq(Message) : q = to_client[c]
  BY <1>1
<1>3. /\ q # <<>> /\ to_client'[c] = Tail(q) /\ Head(q).op \notin Answered
      /\ UNCHANGED serverVars /\ Alive(c)
  BY <1>1, <1>2 DEF Delivered, Alive
<1>4. /\ Own(c)' = Own(c) /\ Left(c)' = Left(c)
      /\ Owns(c) => Owns(c)'
      /\ Owed(c) => Owed(c)'
  BY <1>2, <1>3, ToldOwns
<1>5. ASSUME Knows(c) PROVE Knows(c)'
  <2>1. Masked(c, Head(q))
    BY <1>2
  <2> QED
    BY <1>2, <1>3, <1>4, <1>5, <2>1, ToldKnows
<1> QED
  BY <1>3, <1>4, <1>5, ClientMinds

\* The answer to a text or a key.
LEMMA AnswerSyncMinds ==
  ASSUME IInv, OwnInv, MaskInv, NEW c \in Client, AnswerSync(c)
  PROVE  OwnInv' /\ MaskInv'
<1>1. Synchronous \cap Answered = {}
  BY DEF Synchronous, Answered, Queries
<1>2. PICK m \in Message : m = Msg("SYNC_REPLY", NoId, 0) /\ m.op = "SYNC_REPLY"
  <2>1. "SYNC_REPLY" \in Op /\ NoId \in Nat /\ 0 \in Number
    BY Small DEF Op, NoId
  <2> QED
    BY <2>1, MsgType
<1>3. /\ Delivered(c, Synchronous)
      /\ to_server' = [to_server EXCEPT ![c] = Append(@, m)]
      /\ UNCHANGED clientVars
  BY <1>2 DEF AnswerSync
<1>4. to_server \in [Client -> Seq(Message)] /\ to_client \in [Client -> Seq(Message)]
  BY DEF IInv, Typed, Core, Server
<1>5. PICK q \in Seq(Message) : q = to_server[c]
  BY <1>4
<1>6. to_server'[c] = Append(q, m)
  BY <1>3, <1>4, <1>5
<1>7. SameAsked(c)
  <2> SUFFICES ASSUME NEW ops \in SUBSET Answered
               PROVE  /\ Places(Append(q, m), ops) = Places(q, ops)
                      /\ \A n \in Places(q, ops) : Append(q, m)[n] = q[n]
    BY <1>5, <1>6 DEF SameAsked
  <2>1. m.op \notin ops
    BY <1>2 DEF Answered, Queries
  <2> QED
    BY <2>1, PushedPlaces
<1>8. Masked(c, Head(to_client[c]))
  BY <1>3 DEF Masked, Delivered, Synchronous, clientVars
<1>9. Alone(c)
  BY <1>3, <1>4 DEF Alone, Delivered, clientVars
<1>10. UNCHANGED <<stage, waits, held>>
  BY <1>3 DEF clientVars
<1> QED
  BY <1>1, <1>3, <1>7, <1>8, <1>9, <1>10, ToldMinds

\* An event mask, or the trigger keys.
LEMMA GetMaskMinds ==
  ASSUME IInv, OwnInv, MaskInv, NEW c \in Client, GetMask(c)
  PROVE  OwnInv' /\ MaskInv'
<1>1. {"SET_EVENT_MASK", "REGISTER_TRIGGERKEYS"} \cap Answered = {}
  BY DEF Answered, Queries
<1>2. PICK h : h = Head(to_client[c])
  OBVIOUS
<1>3. /\ Delivered(c, {"SET_EVENT_MASK", "REGISTER_TRIGGERKEYS"})
      /\ mask' = [mask EXCEPT ![c] = IF h.op # "SET_EVENT_MASK" THEN @
                                      ELSE IF h.n = 1 THEN @ \cup {h.icid}
                                      ELSE @ \ {h.icid}]
      /\ UNCHANGED <<to_server, stage, waits, held>>
  BY <1>2 DEF GetMask
<1>4. mask \in [Client -> SUBSET Nat] /\ to_client \in [Client -> Seq(Message)]
  BY DEF IInv, Typed, Core, Server
<1>5. SameAsked(c)
  BY <1>3 DEF SameAsked
<1>6. Masked(c, Head(to_client[c]))
  BY <1>2, <1>3, <1>4 DEF Masked
<1>7. Alone(c)
  BY <1>3, <1>4 DEF Alone, Delivered
<1> QED
  BY <1>1, <1>3, <1>5, <1>6, <1>7, ToldMinds

\* The answer that is read is the first message and all there is of answers.
Reads(c, q, h) ==
    /\ q \in Seq(Message) /\ q # <<>> /\ h = Head(q) /\ q[1] = h
    /\ to_client[c] = q /\ to_client'[c] = Tail(q)
    /\ h.op \in Answered /\ h.op = waits[c] /\ waits'[c] = None
    /\ \A x \in Answered : /\ Places(to_server[c], {x}) = {}
                           /\ Places(Tail(q), {x}) = {}
                           /\ Places(q, {x}) = IF x = h.op THEN {1} ELSE {}
    /\ Places(to_server[c], Answered) = {}
    /\ stage'[c] = IF h.op \in DOMAIN Reached THEN Reached[h.op] ELSE stage[c]
    /\ held'[c] = IF h.op = "CREATE_IC" THEN held[c] \cup {h.icid} ELSE held[c]
    /\ mask'[c] = IF h.op = "DESTROY_IC" THEN mask[c] \ {h.icid} ELSE mask[c]
    /\ UNCHANGED <<serverVars, to_server>> /\ Alone(c) /\ Alive(c)

\* That is what GetAnswer reads.
LEMMA AnswerRead ==
  ASSUME IInv, NEW c \in Client, GetAnswer(c)
  PROVE  \E q, h : Reads(c, q, h)
<1>1. /\ to_client \in [Client -> Seq(Message)] /\ stage \in [Client -> Stage]
      /\ waits \in [Client -> Answered \cup {None}] /\ held \in [Client -> SUBSET Nat]
      /\ mask \in [Client -> SUBSET Nat]
  BY DEF IInv, Typed, Core, Server
<1>2. PICK q \in Seq(Message) : q = to_client[c]
  BY <1>1
<1>3. PICK h : h = Head(q)
  OBVIOUS
<1>4. /\ q # <<>> /\ to_client' = [to_client EXCEPT ![c] = Tail(q)] /\ h.op \in Answered
      /\ UNCHANGED <<serverVars, to_server>> /\ Alive(c)
  BY <1>2, <1>3 DEF Delivered, GetAnswer, Alive
<1>5. /\ stage' = [stage EXCEPT ![c] = IF h.op \in DOMAIN Reached THEN Reached[h.op] ELSE @]
      /\ held' = [held EXCEPT ![c] = IF h.op = "CREATE_IC" THEN @ \cup {h.icid} ELSE @]
      /\ mask' = [mask EXCEPT ![c] = IF h.op = "DESTROY_IC" THEN @ \ {h.icid} ELSE @]
      /\ waits' = [waits EXCEPT ![c] = None]
  BY <1>2, <1>3 DEF GetAnswer
<1>6. /\ to_client'[c] = Tail(q) /\ waits'[c] = None
      /\ stage'[c] = IF h.op \in DOMAIN Reached THEN Reached[h.op] ELSE stage[c]
      /\ held'[c] = IF h.op = "CREATE_IC" THEN held[c] \cup {h.icid} ELSE held[c]
      /\ mask'[c] = IF h.op = "DESTROY_IC" THEN mask[c] \ {h.icid} ELSE mask[c]
  BY <1>1, <1>4, <1>5
<1>7. Alone(c)
  BY <1>1, <1>4, <1>5 DEF Alone
<1>8. 1 \in Places(q, {h.op}) /\ q[1] = h
  <2>1. Head(q).op \in {h.op}
    BY <1>3
  <2>2. 1 \in Places(q, {h.op}) /\ q[1] = Head(q)
    BY <1>4, <2>1, PoppedPlaces
  <2> QED
    BY <1>3, <2>2
<1>9. PICK op \in Answered : op = h.op
  BY <1>4
<1>10. /\ waits[c] = op
       /\ \A x \in Answered : Places(to_server[c], {x}) = {}
       /\ \A x \in Answered : x # op => Places(to_client[c], {x}) = {}
       /\ Places(to_client[c], {op}) = {1}
       /\ Places(to_server[c], Answered) = {}
  <2>1. 1 \in Places(to_client[c], {op})
    BY <1>2, <1>8, <1>9
  <2> QED
    BY <2>1, OneAnswer
<1>11. ASSUME NEW x \in Answered, NEW n \in Places(Tail(q), {x}) PROVE FALSE
  <2>1. n \in Nat \ {0} /\ n + 1 \in Places(q, {x})
    BY <1>4, PoppedPlaces
  <2>2. n + 1 = 1
    BY <1>2, <1>10, <2>1
  <2> QED
    BY <2>1, <2>2
<1>12. \A x \in Answered : /\ Places(to_server[c], {x}) = {}
                           /\ Places(Tail(q), {x}) = {}
                           /\ Places(q, {x}) = IF x = h.op THEN {1} ELSE {}
  BY <1>2, <1>9, <1>10, <1>11
<1>13. Reads(c, q, h)
  BY <1>2, <1>3, <1>4, <1>6, <1>7, <1>8, <1>9, <1>10, <1>12 DEF Reads
<1> QED
  BY <1>13

\* What was given is held; nothing is left.
LEMMA AnswerOwns ==
  ASSUME IInv, NEW c \in Client, NEW q, NEW h, Reads(c, q, h)
  PROVE  /\ Own(c)' = Own(c) /\ Own(c) = held'[c] /\ Left(c)' = {}
         /\ Left(c) = IF h.op = "DESTROY_IC" THEN {h.icid} ELSE {}
         /\ Owns(c) => Owns(c)'
<1>1. {"CREATE_IC", "DESTROY_IC", "CLOSE"} \cup AboutIC \subseteq Answered
  BY DEF Answered, AboutIC
<1>2. /\ to_client[c] = q /\ to_client'[c] = Tail(q) /\ q[1] = h
      /\ to_server' = to_server
      /\ \A x \in Answered : /\ Places(to_server[c], {x}) = {}
                             /\ Places(Tail(q), {x}) = {}
                             /\ Places(q, {x}) = IF x = h.op THEN {1} ELSE {}
      /\ held'[c] = IF h.op = "CREATE_IC" THEN held[c] \cup {h.icid} ELSE held[c]
  BY DEF Reads
<1>3. /\ Places(to_server[c], {"DESTROY_IC"}) = {} /\ Places(to_server[c], {"CREATE_IC"}) = {}
      /\ Places(Tail(q), {"DESTROY_IC"}) = {} /\ Places(Tail(q), {"CREATE_IC"}) = {}
      /\ Places(q, {"DESTROY_IC"}) = IF h.op = "DESTROY_IC" THEN {1} ELSE {}
      /\ Places(q, {"CREATE_IC"}) = IF h.op = "CREATE_IC" THEN {1} ELSE {}
      /\ Places(to_server[c], {"CLOSE"}) = {}
  BY <1>1, <1>2
<1>4. Leaving(c) = {} /\ Leaving(c)' = {} /\ Left(c)' = {}
  BY <1>2, <1>3 DEF Leaving, Left
<1>5. Left(c) = IF h.op = "DESTROY_IC" THEN {h.icid} ELSE {}
  <2>1. CASE h.op = "DESTROY_IC"
    BY <1>2, <1>3, <2>1 DEF Left
  <2>2. CASE h.op # "DESTROY_IC"
    BY <1>2, <1>3, <2>2 DEF Left
  <2> QED
    BY <2>1, <2>2
<1>6. Given(c)' = held'[c]
  BY <1>2, <1>3 DEF Given
<1>7. Given(c) = held'[c]
  <2>1. CASE h.op = "CREATE_IC"
    BY <1>2, <1>3, <2>1 DEF Given
  <2>2. CASE h.op # "CREATE_IC"
    BY <1>2, <1>3, <2>2 DEF Given
  <2> QED
    BY <2>1, <2>2
<1>8. Own(c)' = Own(c) /\ Own(c) = held'[c]
  BY <1>4, <1>6, <1>7 DEF Own
<1>9. ASSUME Owns(c) PROVE Owns(c)'
  <2>1. Core'.clients = Core.clients /\ Core'.ic = Core.ic
    BY DEF Reads, serverVars, Core
  <2>2. ~Closing(c)
    BY <1>3 DEF Closing, Sent
  <2>3. Holds(Core', c, Own(c)) /\ AllOf(Core', c, Own(c))
    BY <1>9, <2>1, <2>2 DEF Owns, Holds, AllOf, Of
  <2>4. Places(to_server'[c], AboutIC) = {} /\ Places(to_server'[c], {"CREATE_IC"}) = {}
    BY <1>1, <1>2, <1>3 DEF Places
  <2>5. ASSUME held'[c] # {} PROVE stage'[c] = "open" /\ waits'[c] # "CLOSE"
    <3>1. stage[c] # "dead" /\ waits[c] = h.op
      BY DEF Reads, Alive
    <3>2. stage[c] = "open" /\ h.op # "CLOSE"
      <4>1. CASE h.op = "CREATE_IC"
        BY <3>1, <4>1 DEF IInv, Staged, Answered
      <4>2. CASE h.op # "CREATE_IC"
        BY <1>2, <1>9, <2>5, <3>1, <4>2 DEF Owns
      <4> QED
        BY <4>1, <4>2
    <3>3. h.op \notin {"XCONNECT", "OPEN", "DISCONNECT"}
      BY <3>1, <3>2 DEF IInv, Staged
    <3>4. h.op \notin DOMAIN Reached
      BY <3>2, <3>3 DEF Reached
    <3> QED
      BY <3>2, <3>4 DEF Reads, None
  <2> QED
    BY <1>4, <1>8, <2>3, <2>4, <2>5 DEF Owns
<1> QED
  BY <1>4, <1>5, <1>8, <1>9

\* The answer changes nothing of what the client knows of its ICs, and it comes
\* last of what is said of those that are gone.
LEMMA AnswerKnows ==
  ASSUME IInv, NEW c \in Client, NEW q, NEW h, Reads(c, q, h), Owns(c), Knows(c)
  PROVE  Knows(c)'
<1>1. /\ q \in Seq(Message) /\ q # <<>> /\ h = Head(q) /\ q[1] = h
      /\ to_client[c] = q /\ h.op \in Answered /\ h.op = waits[c] /\ waits'[c] = None
      /\ UNCHANGED serverVars /\ stage[c] # "dead"
      /\ stage'[c] = IF h.op \in DOMAIN Reached THEN Reached[h.op] ELSE stage[c]
      /\ held'[c] = IF h.op = "CREATE_IC" THEN held[c] \cup {h.icid} ELSE held[c]
      /\ mask'[c] = IF h.op = "DESTROY_IC" THEN mask[c] \ {h.icid} ELSE mask[c]
      /\ \A x \in Answered : /\ Places(Tail(q), {x}) = {}
                             /\ Places(q, {x}) = IF x = h.op THEN {1} ELSE {}
  BY DEF Reads, Alive
<1>2. PICK t : t = Tail(q)
  OBVIOUS
<1>3. to_client'[c] = t
  BY <1>2 DEF Reads
<1>4. /\ Own(c)' = Own(c) /\ Own(c) = held'[c] /\ Left(c)' = {}
      /\ Left(c) = IF h.op = "DESTROY_IC" THEN {h.icid} ELSE {}
  BY AnswerOwns
<1>5. h.op # "SET_EVENT_MASK"
  BY <1>1 DEF Answered, Queries
<1>6. \A n \in Places(q, {"SET_EVENT_MASK"}) : n \in Nat \ {0}
  BY <1>1, PoppedPlaces
<1>7. /\ \A n \in Places(t, {"SET_EVENT_MASK"}) : n + 1 \in Places(q, {"SET_EVENT_MASK"})
      /\ \A i : \A n \in About(t, i) : n + 1 \in About(q, i)
      /\ \A i : About(q, i) \subseteq Places(q, {"SET_EVENT_MASK"})
  <2>1. \A n \in Places(Tail(q), {"SET_EVENT_MASK"}) : n + 1 \in Places(q, {"SET_EVENT_MASK"})
    BY <1>1, PoppedPlaces
  <2>2. \A i : \A n \in About(Tail(q), i) : n + 1 \in About(q, i)
    BY <1>1, PoppedAbout
  <2>3. \A i : About(q, i) \subseteq Places(q, {"SET_EVENT_MASK"})
    BY DEF About
  <2> QED
    BY <1>2, <2>1, <2>2, <2>3
<1>8. /\ h.op = "XCONNECT" => stage[c] = "off"
      /\ h.op = "OPEN" => stage[c] = "known"
      /\ h.op = "DISCONNECT" => stage[c] = "closed"
  BY <1>1 DEF IInv, Staged
<1>9. /\ h.op = "XCONNECT" => stage'[c] = "known"
      /\ h.op = "OPEN" => stage'[c] = "open"
      /\ h.op = "CLOSE" => stage'[c] = "closed"
      /\ h.op = "DISCONNECT" => stage'[c] = "off"
      /\ h.op \notin {"XCONNECT", "OPEN", "CLOSE", "DISCONNECT"} => stage'[c] = stage[c]
  BY <1>1 DEF Reached
<1>10. Fits(Core, c, Own(c))'
  <2> SUFFICES ASSUME NEW i \in Own(c)
               PROVE  ToldBy(t, i \in mask'[c], i) = ic[i].connected
    BY <1>1, <1>3, <1>4 DEF Fits, Core, serverVars
  <2>1. ToldBy(q, i \in mask[c], i) = ic[i].connected
    BY <1>1 DEF Knows, Fits, Core
  <2>2. \A b \in BOOLEAN : ToldBy(t, b, i) = ToldBy(q, b, i)
    BY <1>1, <1>2, <1>5, ToldTail
  <2>3. (i \in mask'[c]) <=> (i \in mask[c])
    <3>1. CASE h.op = "DESTROY_IC"
      <4>1. i \in held[c] /\ Left(c) = {h.icid} /\ Left(c) \cap held[c] = {}
        BY <1>1, <1>4, <3>1 DEF Owns
      <4> QED
        BY <1>1, <4>1
    <3>2. CASE h.op # "DESTROY_IC"
      BY <1>1, <3>2
    <3> QED
      BY <3>1, <3>2
  <2>4. CASE i \in mask[c]
    <3>1. (i \in mask[c]) = TRUE /\ (i \in mask'[c]) = TRUE
      BY <2>3, <2>4
    <3>2. ToldBy(q, TRUE, i) = ic[i].connected
      BY <2>1, <3>1, Zenon
    <3>3. ToldBy(t, TRUE, i) = ic[i].connected
      BY <2>2, <3>2
    <3> QED
      BY <3>1, <3>3, Zenon
  <2>5. CASE i \notin mask[c]
    <3>1. (i \in mask[c]) = FALSE /\ (i \in mask'[c]) = FALSE
      BY <2>3, <2>5
    <3>2. ToldBy(q, FALSE, i) = ic[i].connected
      BY <2>1, <3>1, Zenon
    <3>3. ToldBy(t, FALSE, i) = ic[i].connected
      BY <2>2, <3>2
    <3> QED
      BY <3>1, <3>3, Zenon
  <2> QED
    BY <2>4, <2>5
<1>11. ASSUME stage'[c] = "open", NEW i \in Nat, i \notin Own(c)
       PROVE  About(t, i) = {} /\ i \notin mask'[c]
  <2>1. CASE h.op = "OPEN"
    <3>1. Places(q, {"SET_EVENT_MASK"}) = {} /\ mask[c] = {}
      BY <1>1, <1>8, <2>1 DEF Knows
    <3> QED
      BY <1>1, <1>7, <3>1
  <2>2. CASE h.op # "OPEN" /\ i \notin Left(c)
    <3>1. stage[c] = "open" /\ waits[c] # "CLOSE"
      BY <1>1, <1>9, <1>11, <2>2
    <3>2. About(q, i) = {} /\ i \notin mask[c]
      BY <1>1, <1>11, <2>2, <3>1 DEF Knows
    <3> QED
      BY <1>1, <1>7, <3>2
  <2>3. CASE i \in Left(c)
    <3>1. h.op = "DESTROY_IC" /\ i = h.icid
      BY <1>4, <2>3
    <3>2. 1 \in Places(q, {"DESTROY_IC"})
      BY <1>1, <3>1
    <3>3. \A m \in About(q, i) : m < 1
      BY <1>1, <3>1, <3>2 DEF Knows
    <3>4. About(q, i) = {}
      BY <1>6, <1>7, <3>3
    <3> QED
      BY <1>1, <1>7, <3>1, <3>4
  <2> QED
    BY <2>1, <2>2, <2>3
<1>12. ASSUME stage'[c] \in {"off", "known", "closed"}
       PROVE  Places(t, {"SET_EVENT_MASK"}) = {}
  <2>1. CASE h.op = "CLOSE"
    <3>1. 1 \in Places(q, {"CLOSE"})
      BY <1>1, <2>1
    <3>2. \A m \in Places(q, {"SET_EVENT_MASK"}) : m < 1
      BY <1>1, <3>1 DEF Knows
    <3> QED
      BY <1>6, <1>7, <3>2
  <2>2. CASE h.op # "CLOSE"
    <3>1. stage[c] \in {"off", "known", "closed"}
      BY <1>8, <1>9, <1>12, <2>2
    <3>2. Places(q, {"SET_EVENT_MASK"}) = {}
      BY <1>1, <3>1 DEF Knows
    <3> QED
      BY <1>7, <3>2
  <2> QED
    BY <2>1, <2>2
<1>13. ASSUME stage'[c] \in {"off", "known"} PROVE mask'[c] = {}
  <2>1. stage[c] \in {"off", "known"} \/ waits[c] = "DISCONNECT"
    BY <1>1, <1>8, <1>9, <1>13
  <2> QED
    BY <1>1, <2>1 DEF Knows
<1>14. Places(t, {"CLOSE"}) = {} /\ Places(t, {"DESTROY_IC"}) = {}
  BY <1>1, <1>2 DEF Answered
<1>15. None # "DISCONNECT"
  BY DEF None
<1> QED
  BY <1>1, <1>3, <1>4, <1>10, <1>11, <1>12, <1>13, <1>14, <1>15 DEF Knows

\* An answer keeps what is promised,
LEMMA GetAnswerMinds ==
  ASSUME IInv, OwnInv, MaskInv, NEW c \in Client, GetAnswer(c)
  PROVE  OwnInv' /\ MaskInv'
<1>1. PICK q, h : Reads(c, q, h)
  BY AnswerRead
<1>2. Owns(c) => Owns(c)'
  BY <1>1, AnswerOwns
<1>3. Owns(c) /\ Knows(c) => Knows(c)'
  BY <1>1, AnswerKnows
<1>4. Owed(c)' /\ UNCHANGED serverVars /\ Alone(c) /\ Alive(c)
  BY <1>1 DEF Reads, Owed
<1> QED
  BY <1>2, <1>3, <1>4, ClientMinds

\* and so does everything a client reads.
LEMMA ListenMinds ==
  ASSUME IInv, OwnInv, MaskInv, NEW c \in Client, Listen(c)
  PROVE  OwnInv' /\ MaskInv'
BY GetAnswerMinds, AnswerSyncMinds, GetMaskMinds DEF Listen

\* At first nobody has an IC or awaits anything.
LEMMA InitMinds ==
  ASSUME Init
  PROVE  OwnInv /\ MaskInv
<1>1. InUse(ic) = {} /\ ic_free = {}
  BY DEF Init, InUse, Unused
<1>2. Sound(Core)
  BY <1>1 DEF Sound, Linked, Core
<1>3. ASSUME NEW c \in Client PROVE Owns(c) /\ Owed(c) /\ Knows(c)
  <2>1. /\ to_server[c] = <<>> /\ to_client[c] = <<>> /\ held[c] = {} /\ mask[c] = {}
        /\ waits[c] = None /\ stage[c] = "off"
    BY DEF Init
  <2>2. \A ops : Places(to_server[c], ops) = {} /\ Places(to_client[c], ops) = {}
    BY <2>1 DEF Places
  <2>3. Own(c) = {} /\ Leaving(c) = {} /\ Left(c) = {}
    BY <2>1, <2>2 DEF Own, Given, Leaving, Left
  <2>4. Holds(Core, c, {}) /\ AllOf(Core, c, {}) /\ Fits(Core, c, {})
    BY <1>1 DEF Holds, AllOf, Fits, Core
  <2>5. Owns(c) /\ Owed(c)
    BY <2>1, <2>2, <2>3, <2>4 DEF Owns, Owed
  <2>6. Knows(c)
    BY <2>1, <2>2, <2>3, <2>4 DEF Knows
  <2> QED
    BY <2>5, <2>6
<1> QED
  BY <1>2, <1>3 DEF OwnInv, MaskInv

\* A step in which nothing changes.
LEMMA StutterMinds ==
  ASSUME OwnInv, MaskInv, UNCHANGED vars
  PROVE  OwnInv' /\ MaskInv'
<1>1. UNCHANGED <<serverVars, to_server, to_client, stage, waits, held, mask>>
  BY DEF vars, clientVars
<1>2. \A ops : DiedAsking(ops)' <=> DiedAsking(ops)
  BY <1>1 DEF DiedAsking, Alive
<1>3. ASSUME NEW d \in Client
      PROVE  /\ Alive(d)' <=> Alive(d)
             /\ Owns(d) => Owns(d)'
             /\ Owed(d) => Owed(d)'
             /\ Knows(d) => Knows(d)'
  <2>1. Alone(0) /\ Alone(1)
    BY <1>1 DEF Alone
  <2>2. PICK c \in {0, 1} : c # d /\ Alone(c)
    BY <2>1
  <2> QED
    BY <1>1, <2>2, OthersStay
<1>4. Sound(Core)'
  <2>1. /\ Core'.clients = Core.clients /\ Core'.ic = Core.ic
        /\ Core'.ic_free = Core.ic_free
    BY <1>1 DEF serverVars, Core
  <2> QED
    BY <2>1 DEF OwnInv, Sound, Linked, Of
<1>5. OwnInv'
  BY <1>2, <1>3, <1>4 DEF OwnInv
<1>6. MaskInv'
  BY <1>2, <1>3 DEF MaskInv
<1> QED
  BY <1>5, <1>6

----------------------------------------------------------------------------
(* The theorems about ICs.                                                 *)

\* With windows that are not shared, xcin and its clients agree about whose the
\* ICs are and about what is awaited; the invariants above carry each other from
\* one state to the next.
THEOREM Agreed ==
  ASSUME DistinctWindows
  PROVE  Spec => [](IInv /\ OwnInv /\ MaskInv)
<1>1. Init => OwnInv /\ MaskInv
  BY InitMinds
<1>2. IInv /\ IInv' /\ OwnInv /\ MaskInv /\ [Next]_vars => OwnInv' /\ MaskInv'
  <2> SUFFICES ASSUME IInv, IInv', OwnInv, MaskInv, [Next]_vars
               PROVE  OwnInv' /\ MaskInv'
    OBVIOUS
  <2>1. ASSUME NEW c \in Client, Serve(c) PROVE OwnInv' /\ MaskInv'
    BY <2>1, ServeMinds
  <2>2. ASSUME NEW c \in Client, Session(c) \/ Ask(c) \/ Type(c)
        PROVE  OwnInv' /\ MaskInv'
    BY <2>2, SessionMinds, AskMinds, TypeMinds
  <2>3. ASSUME NEW c \in Client, Listen(c) \/ Die(c) PROVE OwnInv' /\ MaskInv'
    BY <2>3, ListenMinds, DieMinds
  <2>4. CASE UNCHANGED vars
    BY <2>4, StutterMinds
  <2> QED
    BY <2>1, <2>2, <2>3, <2>4 DEF Next
<1> QED
  BY <1>1, <1>2, Invariant, PTL DEF Spec

\* Whoever waits for an answer has its request or the answer under way, for any
\* number of clients, unless a client died while it had an IC destroyed.
THEOREM AnswerOwedAlways ==
  ASSUME DistinctWindows
  PROVE  Spec => []AnswerOwed
<1>1. IInv /\ OwnInv => AnswerOwed
  <2> SUFFICES ASSUME IInv, OwnInv, NEW c \in Client, Alive(c)
               PROVE  /\ \A n \in Places(to_server[c], Answered) :
                            /\ Places(to_server[c], Answered) = {n}
                            /\ to_server[c][n].op = waits[c]
                            /\ Places(to_client[c], Answered) = {}
                      /\ \A n \in Places(to_client[c], Answered) :
                            /\ Places(to_client[c], Answered) = {n}
                            /\ to_client[c][n].op = waits[c]
                      /\ waits[c] # None /\ ~DiedAsking({"DESTROY_IC"}) =>
                            \/ Places(to_server[c], Answered) # {}
                            \/ Places(to_client[c], Answered) # {}
    BY DEF AnswerOwed
  <2>1. Awaited(c)
    BY DEF IInv
  <2>2. ~DiedAsking({"DESTROY_IC"}) => Owed(c)
    BY DEF OwnInv
  <2> QED
    BY <2>1, <2>2 DEF Awaited, Owed
<1> QED
  BY <1>1, Agreed, PTL

\* xcin and a client agree about every IC the client holds: it is of the client's
\* connection, and IC_CONNECT is what the client was told of it last; unless a
\* client died while it had an IC destroyed or switched on.
THEOREM MaskAgreesAlways ==
  ASSUME DistinctWindows
  PROVE  Spec => []MaskAgrees
<1>1. IInv /\ OwnInv /\ MaskInv => MaskAgrees
  <2> SUFFICES ASSUME IInv, OwnInv, MaskInv, NEW c \in Client, NEW i \in held[c], Alive(c),
                      ~DiedAsking({"DESTROY_IC", "TRIGGER_NOTIFY"})
               PROVE  /\ Told(c, i) = ic[i].connected
                      /\ ic[i].connect_id = Connection(Core, c)
    BY DEF MaskAgrees
  <2>1. ~DiedAsking({"DESTROY_IC"})
    BY DEF DiedAsking
  <2>2. Owns(c) /\ Knows(c)
    BY <2>1 DEF OwnInv, MaskInv
  <2>3. i \in Own(c)
    BY DEF Own, Given
  <2>4. ToldBy(to_client[c], i \in mask[c], i) = ic[i].connected
    BY <2>2, <2>3 DEF Knows, Fits, Core
  <2>5. Told(c, i) = ToldBy(to_client[c], i \in mask[c], i)
    BY Zenon DEF Told, ToldBy, About
  <2>6. ic[i].connect_id = Connection(Core, c)
    <3>1. PICK k \in DOMAIN clients : clients[k].client_win = c
                                      /\ clients[k].connect_id = ic[i].connect_id
      BY <2>2, <2>3 DEF Owns, Holds, Of, Core
    <3>2. Core \in Server /\ Core.clients = clients
      BY DEF IInv, Typed, Core
    <3>3. /\ RecordOf(Core, c) \in {0} \cup DOMAIN Core.clients
          /\ RecordOf(Core, c) # 0 => Core.clients[RecordOf(Core, c)].client_win = c
          /\ (\E l \in DOMAIN Core.clients : Core.clients[l].client_win = c)
                => RecordOf(Core, c) # 0
      BY <3>2, RecordPlace
    <3>4. /\ RecordOf(Core, c) \in DOMAIN clients
          /\ clients[RecordOf(Core, c)].client_win = c
      BY <3>1, <3>2, <3>3
    <3>5. RecordOf(Core, c) = k
      BY <3>1, <3>2, <3>4 DEF IInv, Listed
    <3> QED
      BY <3>1, <3>2, <3>5 DEF Connection
  <2> QED
    BY <2>4, <2>5, <2>6, Zenon
<1> QED
  BY <1>1, Agreed, PTL
=============================================================================
