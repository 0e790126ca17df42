------------------------- MODULE ExitProtocol_proofs -------------------------
(***************************************************************************)
(* Proofs about ExitProtocol for every number of clients and of answers.   *)
(*                                                                         *)
(* A handler makes a new core record of the old one, so the invariant is   *)
(* stated of a core record, the queues and the windows (Good); the lemmas  *)
(* show that what a request stores is good, and StoreKeeps carries that to *)
(* the state.                                                              *)
(***************************************************************************)
EXTENDS ExitProtocol, TLAPS

Cores == [mode : SUBSET XcinMode, n_check : 0 .. SyncChecks, sync : BOOLEAN,
          ic : Client \cup {NoIC}, ics : SUBSET Client, focus : SUBSET Client,
          owed : [Client -> Nat]]

HasReply(q) == \E k \in 1 .. Len(q) : q[k] = "sync_reply"

Pending(o, q) == \E c \in Client : o[c] > 0 \/ HasReply(q[c])

\* A core record that is typed, and whose end, if it has come, was due.
Sound(s, w) ==
    /\ s \in Cores
    /\ s.focus \subseteq s.ics
    /\ "RUN_EXITALL" \notin s.mode => s.n_check < SyncChecks
    /\ "RUN_EXITALL" \in s.mode /\ s.ic # NoIC /\ Client \subseteq s.ics \cap w
         => s.n_check = SyncChecks

\* The record stored at the end of a step: an exit that is not over waits.
Good(s, q, w) ==
    /\ Sound(s, w)
    /\ "RUN_EXITALL" \in s.mode => "RUN_EXIT" \in s.mode
    /\ "RUN_EXIT" \in s.mode /\ "RUN_EXITALL" \notin s.mode
         => s.sync /\ Pending(s.owed, q)

\* The inductive invariant.
IInv == TypeOK /\ Good(Core, queue, window)

\* xim_close() is called for the current IC, or for a client's IC or none if the
\* client has lost it.
Asks(s, i) ==
    /\ i \in Client \cup {NoIC}
    /\ i = NoIC => s.ic = NoIC \/ ~(Client \subseteq s.ics)
    /\ i # NoIC => i \in Client

----------------------------------------------------------------------------
(* Lemmas on core records.                                                 *)

\* xim_close() leaves a good record: it asks a client that is there, or ends
\* when there is none to ask.
LEMMA XimCloseGood ==
    ASSUME NEW q, NEW s, Sound(s, window), NEW i, Asks(s, i)
    PROVE  Good(XimClose(s, i), q, window)
<1> DEFINE e == XimClose(s, i)
<1>1. CASE i # NoIC /\ i \in window
  <2>1. i \in Client
    BY <1>1 DEF Asks
  <2>2. e = [s EXCEPT !.mode = @ \cup {"RUN_EXIT"}, !.sync = TRUE,
                      !.owed[i] = @ + 1]
    BY <1>1 DEF XimClose
  <2> DEFINE o == [s.owed EXCEPT ![i] = @ + 1]
  <2>3. s.owed \in [Client -> Nat] /\ s.owed[i] \in Nat
    BY <2>1 DEF Sound, Cores
  <2>4. o \in [Client -> Nat] /\ o[i] > 0
    BY <2>1, <2>3
  <2>5. e.owed = o
    BY <2>2 DEF Sound, Cores
  <2> HIDE DEF o
  <2>6. /\ e \in Cores /\ e.sync /\ e.owed[i] > 0
        /\ e.mode = s.mode \cup {"RUN_EXIT"}
        /\ e.n_check = s.n_check /\ e.ic = s.ic /\ e.ics = s.ics
        /\ e.focus = s.focus
    BY <2>4, <2>5, <2>2 DEF Sound, Cores, XcinMode, o
  <2> HIDE DEF e
  <2>7. Pending(e.owed, q)
    BY <2>1, <2>6 DEF Pending
  <2> QED
    BY <2>6, <2>7 DEF Sound, Good, e
<1>2. CASE ~(i # NoIC /\ i \in window)
  <2>1. e = [s EXCEPT !.mode = @ \cup {"RUN_EXIT", "RUN_EXITALL"}]
    BY <1>2 DEF XimClose
  <2>2. /\ e \in Cores
        /\ e.mode = s.mode \cup {"RUN_EXIT", "RUN_EXITALL"}
        /\ e.n_check = s.n_check /\ e.ic = s.ic /\ e.ics = s.ics
        /\ e.focus = s.focus
    BY <2>1 DEF Sound, Cores, XcinMode
  <2>3. ~(e.ic # NoIC /\ Client \subseteq e.ics \cap window)
    BY <1>2, <2>2 DEF Asks
  <2> HIDE DEF e
  <2> QED
    BY <2>2, <2>3 DEF Sound, Good, e
<1> QED
  BY <1>1, <1>2

\* What the end of a request stores is good, if what the handler made is.
LEMMA EndOfRequestGood ==
    ASSUME NEW c, NEW q, NEW s, Good(s, q, window), EndOfRequest(c, s)
    PROVE  \E t : Good(t, q, window) /\ Store(t)
<1>1. CASE "RUN_KILL" \in s.mode
  <2> DEFINE r == [s EXCEPT !.mode = @ \ {"RUN_KILL"}]
  <2>1. Store(XimClose(r, s.ic))
    BY <1>1 DEF EndOfRequest
  <2>2. /\ r \in Cores /\ r.mode = s.mode \ {"RUN_KILL"}
        /\ r.n_check = s.n_check /\ r.ic = s.ic /\ r.ics = s.ics
        /\ r.focus = s.focus
    BY DEF Good, Sound, Cores
  <2> HIDE DEF r
  <2>3. Sound(r, window) /\ Asks(r, s.ic)
    BY <2>2 DEF Good, Sound, Asks, Cores
  <2>4. Good(XimClose(r, s.ic), q, window)
    BY <2>3, XimCloseGood
  <2> QED
    BY <2>1, <2>4
<1>2. CASE "RUN_KILL" \notin s.mode
  <2>1. PICK D \in SUBSET (s.ics \ (window \cup {c})) :
               ("RUN_EXIT" \in s.mode => D = {}) /\ Store(Delete(s, D))
    BY <1>2 DEF EndOfRequest
  <2> DEFINE e == Delete(s, D)
  <2>2. /\ e \in Cores /\ e.mode = s.mode /\ e.n_check = s.n_check
        /\ e.sync = s.sync /\ e.owed = s.owed
        /\ e.ics = s.ics \ D /\ e.focus = s.focus \ D
        /\ e.ic = IF s.ic \in D THEN NoIC ELSE s.ic
    BY DEF Good, Sound, Cores, Delete
  <2> HIDE DEF e
  <2>3. Good(e, q, window)
    BY <2>1, <2>2 DEF Good, Sound
  <2> QED
    BY <2>1, <2>3 DEF e
<1> QED
  BY <1>1, <1>2

\* xim_sync_reply_handler() leaves a good record: it counts the answer, and asks
\* again or ends.
LEMMA AnsweredGood ==
    ASSUME ConstantsOK, NoICFresh, NEW c \in Client, NEW q,
           NEW s, Sound(s, window), s.ics = ics,
           "RUN_EXIT" \in s.mode, "RUN_EXITALL" \notin s.mode
    PROVE  Good(Answered(s, c), q, window)
<1> DEFINE n == [s EXCEPT !.n_check = @ + 1]
           i == IF c \in ics THEN c ELSE NoIC
<1>1. /\ s.n_check \in Nat /\ s.n_check < SyncChecks /\ SyncChecks \in Nat
  BY DEF Sound, Cores, ConstantsOK
<1>2. /\ n \in Cores /\ n.n_check = s.n_check + 1 /\ n.mode = s.mode
      /\ n.ic = s.ic /\ n.ics = s.ics /\ n.focus = s.focus
  BY <1>1 DEF Sound, Cores
<1>3. n.n_check \in 1 .. SyncChecks
  BY <1>1, <1>2
<1>4. Answered(s, c) = IF n.n_check < SyncChecks THEN XimClose(n, i)
                       ELSE [n EXCEPT !.mode = @ \cup {"RUN_EXITALL"}]
  BY DEF Answered
<1> HIDE DEF n
<1>5. CASE n.n_check < SyncChecks
  <2>1. Sound(n, window)
    BY <1>2, <1>5 DEF Sound
  <2>2. Asks(n, i)
    BY <1>2 DEF Asks
  <2> QED
    BY <1>4, <1>5, <2>1, <2>2, XimCloseGood
<1>6. CASE ~(n.n_check < SyncChecks)
  <2> DEFINE e == Answered(s, c)
  <2>1. n.n_check = SyncChecks
    BY <1>1, <1>3, <1>6
  <2>2. /\ e \in Cores /\ e.mode = s.mode \cup {"RUN_EXITALL"}
        /\ e.n_check = SyncChecks /\ e.ic = s.ic /\ e.ics = s.ics
        /\ e.focus = s.focus
    BY <1>2, <1>4, <1>6, <2>1 DEF Cores, XcinMode
  <2> HIDE DEF e
  <2>3. Good(e, q, window)
    BY <2>2 DEF Good, Sound
  <2> QED
    BY <2>3 DEF e
<1> QED
  BY <1>5, <1>6

----------------------------------------------------------------------------
(* Lemmas on the queues.                                                   *)

\* Reading a request does not take away an answer that is under way.
LEMMA RequestLeavesReplies ==
    ASSUME NEW q \in Seq(Message), q # <<>>, Head(q) = "request", HasReply(q)
    PROVE  HasReply(Tail(q))
<1>1. PICK k \in 1 .. Len(q) : q[k] = "sync_reply"
  BY DEF HasReply
<1>2. k # 1
  BY <1>1
<1>3. k - 1 \in 1 .. Len(Tail(q)) /\ Tail(q)[k - 1] = q[k]
  BY <1>2
<1> QED
  BY <1>1, <1>3 DEF HasReply

\* A message that is sent is added behind the others.
LEMMA SentBehind ==
    ASSUME NEW q \in Seq(Message), NEW m \in Message
    PROVE  /\ Append(q, m) \in Seq(Message)
           /\ HasReply(q) => HasReply(Append(q, m))
           /\ m = "sync_reply" => HasReply(Append(q, m))
<1>1. /\ Len(Append(q, m)) = Len(q) + 1
      /\ Append(q, m)[Len(q) + 1] = m
      /\ \A k \in 1 .. Len(q) : Append(q, m)[k] = q[k]
      /\ Len(q) \in Nat
  OBVIOUS
<1> QED
  BY <1>1 DEF HasReply

----------------------------------------------------------------------------
(* Steps.                                                                  *)

\* A step that stores a good record keeps the invariant.
LEMMA StoreKeeps ==
    ASSUME IInv, NEW s, Store(s), Good(s, queue', window'),
           server' \in {"running", "exited"}, window' \in SUBSET Client,
           queue' \in [Client -> Seq(Message)], mainwin' \in BOOLEAN,
           signals' \in 0 .. MaxSignals
    PROVE  IInv'
<1>1. s \in Cores /\ s.focus \subseteq s.ics
  BY DEF Good, Sound
<1>2. TypeOK'
  BY <1>1 DEF TypeOK, Store, Cores
<1>3. Core' = s
  BY <1>1 DEF Core, Store, Cores
<1> QED
  BY <1>2, <1>3 DEF IInv, Good, Sound, Pending, HasReply

\* What reading a message from a queue changes, and what it leaves.
LEMMA ReceiveSpec ==
    ASSUME IInv, NEW c \in Client, NEW m, Receive(c, m)
    PROVE  /\ queue' \in [Client -> Seq(Message)]
           /\ m = "request" /\ Pending(owed, queue) => Pending(owed, queue')
           /\ "RUN_EXITALL" \notin xcin_mode
           /\ window' = window /\ server' = server
           /\ mainwin' = mainwin /\ signals' = signals
<1>1. queue \in [Client -> Seq(Message)]
  BY DEF IInv, TypeOK
<1>2. queue[c] \in Seq(Message) /\ queue[c] # <<>> /\ Head(queue[c]) = m
      /\ queue' = [queue EXCEPT ![c] = Tail(@)]
  BY <1>1 DEF Receive
<1>3. Tail(queue[c]) \in Seq(Message)
  BY <1>2
<1>4. queue' \in [Client -> Seq(Message)]
  BY <1>1, <1>2, <1>3
<1>5. ASSUME m = "request", Pending(owed, queue) PROVE Pending(owed, queue')
  <2>1. HasReply(queue[c]) => HasReply(queue'[c])
    BY <1>1, <1>2, <1>5, RequestLeavesReplies
  <2>2. \A d \in Client : d # c => queue'[d] = queue[d]
    BY <1>1, <1>2
  <2> QED
    BY <1>5, <2>1, <2>2 DEF Pending
<1> QED
  BY <1>4, <1>5 DEF Receive, userVars

\* A request whose handler, if it runs at all, does not touch the exit.
LEMMA RequestKeeps ==
    ASSUME IInv, NEW c \in Client, Receive(c, "request"), NEW s,
           s \in Cores, s.focus \subseteq s.ics, s.mode \subseteq xcin_mode,
           s.n_check = n_check, Handled(c, s)
    PROVE  IInv'
<1>1. Good(Core, queue, window) /\ Core \in Cores
      /\ Core.mode = xcin_mode /\ Core.n_check = n_check /\ Core.owed = owed
  BY DEF IInv, Good, Sound, Core
<1>2. /\ "RUN_EXITALL" \notin xcin_mode
      /\ Pending(owed, queue) => Pending(owed, queue')
  BY ReceiveSpec
<1> DEFINE t == IF "RUN_EXIT" \in xcin_mode THEN Core ELSE s
<1>3. EndOfRequest(c, t)
  BY DEF Handled
<1>4. Good(t, queue', window)
  <2>1. CASE "RUN_EXIT" \in xcin_mode
    <3>1. Good(Core, queue', window)
      BY <1>1, <1>2 DEF Good
    <3> QED
      BY <2>1, <3>1
  <2>2. CASE "RUN_EXIT" \notin xcin_mode
    <3>1. Good(s, queue', window)
      BY <1>1, <1>2, <2>2 DEF Good, Sound
    <3> QED
      BY <2>2, <3>1
  <2> QED
    BY <2>1, <2>2
<1> HIDE DEF t
<1>5. PICK u : Good(u, queue', window) /\ Store(u)
  BY <1>3, <1>4, EndOfRequestGood
<1> QED
  BY <1>5, ReceiveSpec, StoreKeeps DEF IInv, TypeOK

\* The answer to a synchronous message.
LEMMA SyncReplyKeeps ==
    ASSUME ConstantsOK, NoICFresh, IInv, NEW c \in Client, SyncReply(c)
    PROVE  IInv'
<1>1. Receive(c, "sync_reply")
  BY DEF SyncReply
<1>2. "RUN_EXITALL" \notin xcin_mode
  BY <1>1, ReceiveSpec
<1>3. Good(Core, queue, window) /\ Core.mode = xcin_mode /\ Core.sync = sync
  BY DEF IInv, Core
<1>4. ASSUME NEW u, Good(u, queue', window), Store(u) PROVE IInv'
  BY <1>1, <1>4, ReceiveSpec, StoreKeeps DEF IInv, TypeOK
<1>5. CASE ~sync
  <2>1. Good(Core, queue', window)
    BY <1>2, <1>3, <1>5 DEF Good
  <2> QED
    BY <1>4, <1>5, <2>1 DEF SyncReply
<1>6. CASE sync
  <2> DEFINE passed == [Core EXCEPT !.sync = FALSE]
             t == IF "RUN_EXIT" \in xcin_mode THEN Answered(passed, c) ELSE passed
  <2>1. EndOfRequest(c, t)
    BY <1>6 DEF SyncReply
  <2>2. /\ passed \in Cores /\ passed.mode = Core.mode
        /\ passed.n_check = Core.n_check /\ passed.ic = Core.ic
        /\ passed.ics = ics /\ passed.ics = Core.ics
        /\ passed.focus = Core.focus
    BY <1>3 DEF Good, Sound, Cores, Core
  <2> HIDE DEF passed
  <2>3. Sound(passed, window)
    BY <1>3, <2>2 DEF Good, Sound
  <2>4. CASE "RUN_EXIT" \in xcin_mode
    <3>1. Good(Answered(passed, c), queue', window)
      BY <1>2, <1>3, <2>2, <2>3, <2>4, AnsweredGood
    <3> QED
      BY <1>4, <2>1, <2>4, <3>1, EndOfRequestGood
  <2>5. CASE "RUN_EXIT" \notin xcin_mode
    <3>1. Good(passed, queue', window)
      BY <1>2, <1>3, <2>2, <2>3, <2>5 DEF Good
    <3> QED
      BY <1>4, <2>1, <2>5, <3>1, EndOfRequestGood
  <2> QED
    BY <2>4, <2>5
<1> QED
  BY <1>5, <1>6

\* Whatever gui_loop() reads, the invariant holds at the end of its handler.
LEMMA ServeKeeps ==
    ASSUME ConstantsOK, NoICFresh, IInv, NEW c \in Client, Serve(c)
    PROVE  IInv'
<1>1. /\ Core \in Cores /\ focus \subseteq ics
      /\ Core = [mode |-> xcin_mode, n_check |-> n_check, sync |-> sync,
                 ic |-> ic, ics |-> ics, focus |-> focus, owed |-> owed]
  BY DEF IInv, Good, Sound, Core
<1>2. ASSUME NEW probe \in BOOLEAN, Values(c, probe) PROVE IInv'
  <2> DEFINE first == probe /\ ic = NoIC /\ "RUN_INIT" \in xcin_mode
             r == [Core EXCEPT !.ics = @ \cup {c}]
             t == IF first THEN [r EXCEPT !.ic = c, !.mode = @ \ {"RUN_INIT"}]
                           ELSE r
  <2>1. Receive(c, "request") /\ Handled(c, t)
    BY <1>2 DEF Values
  <2>2. /\ t \in Cores /\ t.focus \subseteq t.ics /\ t.mode \subseteq xcin_mode
        /\ t.n_check = n_check
    BY <1>1 DEF Cores
  <2> HIDE DEF t
  <2> QED
    BY <2>1, <2>2, RequestKeeps
<1>3. CASE SetFocus(c)
  <2> DEFINE t == IF c \in ics \ focus
                    THEN [Core EXCEPT !.focus = @ \cup {c}, !.ic = c] ELSE Core
  <2>1. Receive(c, "request") /\ Handled(c, t)
    BY <1>3 DEF SetFocus
  <2>2. /\ t \in Cores /\ t.focus \subseteq t.ics /\ t.mode \subseteq xcin_mode
        /\ t.n_check = n_check
    BY <1>1 DEF Cores
  <2> HIDE DEF t
  <2> QED
    BY <2>1, <2>2, RequestKeeps
<1>4. CASE UnsetFocus(c)
  <2> DEFINE t == [Core EXCEPT !.focus = @ \ {c}]
  <2>1. Receive(c, "request") /\ Handled(c, t)
    BY <1>4 DEF UnsetFocus
  <2>2. /\ t \in Cores /\ t.focus \subseteq t.ics /\ t.mode \subseteq xcin_mode
        /\ t.n_check = n_check
    BY <1>1 DEF Cores
  <2> HIDE DEF t
  <2> QED
    BY <2>1, <2>2, RequestKeeps
<1>5. CASE Trigger(c)
  <2> DEFINE t == IF c \in ics THEN [Core EXCEPT !.focus = @ \cup {c}, !.ic = c]
                               ELSE Core
  <2>1. Receive(c, "request") /\ Handled(c, t)
    BY <1>5 DEF Trigger
  <2>2. /\ t \in Cores /\ t.focus \subseteq t.ics /\ t.mode \subseteq xcin_mode
        /\ t.n_check = n_check
    BY <1>1 DEF Cores
  <2> HIDE DEF t
  <2> QED
    BY <2>1, <2>2, RequestKeeps
<1>6. ASSUME NEW answer \in BOOLEAN, ForwardKey(c, answer) PROVE IInv'
  <2> DEFINE o == [owed EXCEPT ![c] = @ + 1]
             t == IF answer THEN [Core EXCEPT !.owed[c] = @ + 1] ELSE Core
  <2>1. Receive(c, "request") /\ Handled(c, t)
    BY <1>6 DEF ForwardKey
  <2>2. owed \in [Client -> Nat]
    BY DEF IInv, TypeOK
  <2>3. o \in [Client -> Nat]
    BY <2>2
  <2>4. t = IF answer THEN [Core EXCEPT !.owed = o] ELSE Core
    BY <1>1
  <2> HIDE DEF t, o
  <2>5. /\ t \in Cores /\ t.focus \subseteq t.ics /\ t.mode \subseteq xcin_mode
        /\ t.n_check = n_check
    BY <1>1, <2>3, <2>4 DEF Cores
  <2> QED
    BY <2>1, <2>5, RequestKeeps
<1>7. CASE Destroy(c)
  <2> DEFINE t == Delete(Core, {c})
  <2>1. Receive(c, "request") /\ Handled(c, t)
    BY <1>7 DEF Destroy
  <2>2. /\ t \in Cores /\ t.focus \subseteq t.ics /\ t.mode \subseteq xcin_mode
        /\ t.n_check = n_check
    BY <1>1 DEF Cores, Delete
  <2> HIDE DEF t
  <2> QED
    BY <2>1, <2>2, RequestKeeps
<1>8. CASE SyncReply(c)
  BY <1>8, SyncReplyKeeps
<1> QED
  BY <1>2, <1>3, <1>4, <1>5, <1>6, <1>7, <1>8 DEF Serve

\* Ending, the user and the system.
LEMMA EndKeeps ==
    ASSUME ConstantsOK, NoICFresh, IInv, ExitAll \/ CloseMainwin \/ Sighandler
    PROVE  IInv'
<1>1. Good(Core, queue, window) /\ TypeOK
  BY DEF IInv
<1>2. CASE ExitAll
  BY <1>1, <1>2 DEF ExitAll, clientVars, userVars, IInv, TypeOK, Core, Good, Sound,
                    Cores, Pending, HasReply
<1>3. CASE CloseMainwin
  <2>1. Sound(Core, window) /\ Asks(Core, ic) /\ Store(XimClose(Core, ic))
    BY <1>1, <1>3 DEF CloseMainwin, Good, Asks, TypeOK, Core
  <2>2. Good(XimClose(Core, ic), queue, window)
    BY <2>1, XimCloseGood
  <2> QED
    BY <1>1, <1>3, <2>1, <2>2, StoreKeeps
    DEF CloseMainwin, clientVars, TypeOK
<1>4. CASE Sighandler
  <2>1. /\ xcin_mode' \in {xcin_mode, xcin_mode \cup {"RUN_KILL"}}
        /\ server' \in {"running", "exited"} /\ signals' \in 0 .. MaxSignals
        /\ UNCHANGED <<n_check, sync, ic, ics, focus, owed, clientVars, mainwin>>
    BY <1>1, <1>4, ConstantsOK DEF Sighandler, TypeOK, ConstantsOK
  <2> QED
    BY <1>1, <2>1 DEF clientVars, IInv, TypeOK, XcinMode, Core, Good, Sound, Cores,
                      Pending, HasReply
<1> QED
  BY <1>2, <1>3, <1>4

\* The clients.
LEMMA ClientKeeps ==
    ASSUME IInv, NEW c \in Client, Send(c) \/ Answer(c) \/ Die(c)
    PROVE  IInv'
<1>1. Good(Core, queue, window) /\ TypeOK
  BY DEF IInv
<1> DEFINE coreVars == <<xcin_mode, n_check, sync, ic, ics, focus>>
<1>2. ASSUME queue' \in [Client -> Seq(Message)], owed' \in [Client -> Nat],
             window' \in SUBSET window,
             Pending(owed, queue) => Pending(owed', queue'),
             UNCHANGED <<coreVars, server, userVars>>
      PROVE  IInv'
  <2>1. TypeOK'
    BY <1>1, <1>2 DEF TypeOK, userVars
  <2>2. Good(Core', queue', window')
    BY <1>1, <1>2 DEF Good, Sound, Core, Cores
  <2> QED
    BY <2>1, <2>2 DEF IInv, Good, Sound, Core, Pending, HasReply
<1>3. CASE Send(c)
  <2>1. /\ queue' = [queue EXCEPT ![c] = Append(@, "request")]
        /\ UNCHANGED <<coreVars, server, userVars, owed, window>>
    BY <1>3 DEF Send
  <2>2. /\ queue' \in [Client -> Seq(Message)]
        /\ \A d \in Client : HasReply(queue[d]) => HasReply(queue'[d])
    BY <1>1, <2>1, SentBehind DEF TypeOK, Message
  <2> QED
    BY <1>1, <1>2, <2>1, <2>2 DEF Pending, TypeOK
<1>4. CASE Answer(c)
  <2>1. /\ queue' = [queue EXCEPT ![c] = Append(@, "sync_reply")]
        /\ owed' = [owed EXCEPT ![c] = @ - 1] /\ owed[c] > 0
        /\ UNCHANGED <<coreVars, server, userVars, window>>
    BY <1>4 DEF Answer
  <2>2. queue' \in [Client -> Seq(Message)] /\ HasReply(queue'[c])
    BY <1>1, <2>1, SentBehind DEF TypeOK, Message
  <2>3. owed' \in [Client -> Nat]
    BY <1>1, <2>1 DEF TypeOK
  <2> QED
    BY <1>1, <1>2, <2>1, <2>2, <2>3 DEF Pending, TypeOK
<1>5. CASE Die(c)
  <2>1. /\ window' = window \ {c}
        /\ UNCHANGED <<coreVars, server, userVars, owed, queue>>
    BY <1>5 DEF Die
  <2> QED
    BY <1>1, <1>2, <2>1 DEF TypeOK
<1> QED
  BY <1>3, <1>4, <1>5

----------------------------------------------------------------------------
(* Theorems.                                                               *)

\* The inductive invariant holds throughout, for any number of clients.
THEOREM Invariance == Spec => []IInv
<1>1. ASSUME Init PROVE IInv
  <2>1. TypeOK
    <3>1. queue \in [Client -> Seq(Message)] /\ owed \in [Client -> Nat]
      BY <1>1 DEF Init
    <3>2. n_check \in 0 .. SyncChecks /\ signals \in 0 .. MaxSignals
      BY <1>1, ConstantsOK DEF Init, ConstantsOK
    <3>3. xcin_mode \in SUBSET XcinMode
      BY <1>1 DEF Init, XcinMode
    <3>4. /\ server \in {"running", "exited"} /\ sync \in BOOLEAN
          /\ ic \in Client \cup {NoIC} /\ ics \in SUBSET Client
          /\ focus \in SUBSET ics /\ window \in SUBSET Client
          /\ mainwin \in BOOLEAN
      BY <1>1 DEF Init
    <3> QED
      BY <3>1, <3>2, <3>3, <3>4 DEF TypeOK
  <2>2. Core \in Cores /\ Core.mode = {"RUN_INIT"} /\ Core.n_check = 0
        /\ Core.focus = {}
    BY <1>1, <2>1 DEF Init, TypeOK, Core, Cores
  <2>3. 0 < SyncChecks
    BY ConstantsOK DEF ConstantsOK
  <2> QED
    BY <2>1, <2>2, <2>3 DEF IInv, Good, Sound
<1>2. IInv /\ [Next]_vars => IInv'
  <2>1. ASSUME IInv, UNCHANGED vars PROVE IInv'
    BY <2>1 DEF vars, IInv, TypeOK, Good, Sound, Core, Cores, Pending, HasReply
  <2> QED
    BY <2>1, ConstantsOK, NoICFresh, ServeKeeps, EndKeeps, ClientKeeps DEF Next
<1> QED
  BY <1>1, <1>2, PTL DEF Spec

\* Every variable keeps its type; the answers counted never exceed the number.
THEOREM TypeCorrect == Spec => []TypeOK
BY Invariance, PTL DEF IInv

\* While xcin is exiting an answer it will be passed is owed or under way, however
\* many clients there are and whatever they and the user do meanwhile.
THEOREM AlwaysWaitsForAnswer == Spec => []WaitsForAnswer
<1>1. IInv => WaitsForAnswer
  BY DEF IInv, Good, Core, Exiting, WaitsForAnswer, Pending, HasReply
<1> QED
  BY <1>1, Invariance, PTL

\* As long as every client is there, xcin ends only after MAX_XIM_SYNC_CHECK
\* answers.
THEOREM AnswersComeFirst == Spec => []AllAnswersFirst
<1>1. IInv => AllAnswersFirst
  BY DEF IInv, Good, Sound, Core, AllAnswersFirst
<1> QED
  BY <1>1, Invariance, PTL

\* Once xcin is exiting no request changes the current IC, the ICs or the focus,
\* and none makes xcin forget that it is exiting.
THEOREM FrozenOnceExiting == Spec => FrozenWhileExiting
<1>1. ASSUME Exiting, [Next]_vars PROVE UNCHANGED <<ic, ics, focus>>
  <2> DEFINE Same(s) ==
        /\ "RUN_EXIT" \in s.mode
        /\ s = [mode |-> s.mode, n_check |-> s.n_check, sync |-> s.sync,
                ic |-> ic, ics |-> ics, focus |-> focus, owed |-> s.owed]
  <2>1. Same(Core)
    BY <1>1 DEF Core, Exiting
  <2> DEFINE Mode(s, m)  == [s EXCEPT !.mode = m]
             Count(s, n) == [s EXCEPT !.n_check = n]
             Sync(s, b)  == [s EXCEPT !.sync = b]
             Owe(s, o)   == [s EXCEPT !.owed = o]
  <2>0. ASSUME NEW s, Same(s)
        PROVE  /\ \A m : "RUN_EXIT" \in m => Same(Mode(s, m))
               /\ \A n : Same(Count(s, n))
               /\ \A b : Same(Sync(s, b))
               /\ \A o : Same(Owe(s, o))
    BY <2>0
  <2>2. ASSUME NEW s, Same(s), NEW i PROVE Same(XimClose(s, i))
    <3> DEFINE m == s.mode \cup {"RUN_EXIT"}
               o == [s.owed EXCEPT ![i] = @ + 1]
               l == s.mode \cup {"RUN_EXIT", "RUN_EXITALL"}
    <3>1. XimClose(s, i) \in {Owe(Sync(Mode(s, m), TRUE), o), Mode(s, l)}
      BY <2>2 DEF XimClose
    <3>2. "RUN_EXIT" \in m /\ "RUN_EXIT" \in l
      OBVIOUS
    <3> HIDE DEF Same, Mode, Sync, Owe, m, o, l
    <3> QED
      BY <2>0, <2>2, <3>1, <3>2
  <2>3. ASSUME NEW s, Same(s), Store(s) PROVE UNCHANGED <<ic, ics, focus>>
    BY <2>3 DEF Store
  <2>4. ASSUME NEW s, Same(s), NEW c, EndOfRequest(c, s)
        PROVE  UNCHANGED <<ic, ics, focus>>
    <3>1. CASE "RUN_KILL" \in s.mode
      <4> DEFINE r == [s EXCEPT !.mode = @ \ {"RUN_KILL"}]
      <4>1. Same(r)
        BY <2>4
      <4>2. Store(XimClose(r, s.ic))
        BY <2>4, <3>1 DEF EndOfRequest
      <4> HIDE DEF r, Same
      <4> QED
        BY <2>2, <2>3, <4>1, <4>2
    <3>2. CASE "RUN_KILL" \notin s.mode
      <4>1. Store(Delete(s, {}))
        BY <2>4, <3>2 DEF EndOfRequest
      <4>2. Same(Delete(s, {}))
        BY <2>4 DEF Delete
      <4> HIDE DEF Same
      <4> QED
        BY <2>3, <4>1, <4>2
    <3> QED
      BY <3>1, <3>2
  <2>5. ASSUME NEW c, NEW s, Handled(c, s) PROVE UNCHANGED <<ic, ics, focus>>
    <3>1. EndOfRequest(c, Core)
      BY <1>1, <2>5 DEF Handled, Exiting
    <3> HIDE DEF Same
    <3> QED
      BY <2>1, <2>4, <3>1
  <2>6. ASSUME NEW c, SyncReply(c) PROVE UNCHANGED <<ic, ics, focus>>
    <3> DEFINE passed == [Core EXCEPT !.sync = FALSE]
               n == [passed EXCEPT !.n_check = @ + 1]
               i == IF c \in ics THEN c ELSE NoIC
               all  == n.mode \cup {"RUN_EXITALL"}
               last == Mode(n, all)
    <3>1. CASE ~sync
      BY <2>6, <3>1 DEF SyncReply, Store, Core
    <3>2. CASE sync
      <4>1. EndOfRequest(c, Answered(passed, c))
        BY <1>1, <2>6, <3>2 DEF SyncReply, Exiting
      <4>2. Answered(passed, c) \in {XimClose(n, i), last}
        BY DEF Answered
      <4>3. passed = Sync(Core, FALSE) /\ n = Count(passed, passed.n_check + 1)
        OBVIOUS
      <4>4. Same(passed) /\ Same(n)
        <5> HIDE DEF Same, passed, n, Sync, Count
        <5> QED
          BY <2>0, <2>1, <4>3
      <4>5. "RUN_EXIT" \in all
        BY <4>4
      <4> HIDE DEF Same, Mode, passed, n, i, all
      <4> QED
        BY <2>0, <2>2, <2>4, <4>1, <4>2, <4>4, <4>5
    <3> QED
      BY <3>1, <3>2
  <2>7. ASSUME NEW c, Serve(c) PROVE UNCHANGED <<ic, ics, focus>>
    <3> HIDE DEF Same
    <3> QED
      BY <2>5, <2>6, <2>7
      DEF Serve, Values, SetFocus, UnsetFocus, Trigger, ForwardKey, Destroy
  <2>8. CASE CloseMainwin
    <3> HIDE DEF Same
    <3> QED
      BY <2>1, <2>2, <2>3, <2>8 DEF CloseMainwin
  <2>9. CASE ExitAll \/ Sighandler \/ UNCHANGED vars
    BY <2>9 DEF ExitAll, Sighandler, vars
  <2>10. ASSUME NEW c, Send(c) \/ Answer(c) \/ Die(c)
         PROVE  UNCHANGED <<ic, ics, focus>>
    BY <2>10 DEF Send, Answer, Die
  <2> QED
    BY <1>1, <2>7, <2>8, <2>9, <2>10 DEF Next
<1>2. [Next]_vars => [Exiting => UNCHANGED <<ic, ics, focus>>]_vars
  BY <1>1
<1> QED
  BY <1>2, PTL DEF Spec, FrozenWhileExiting
=============================================================================
