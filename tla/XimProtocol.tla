----------------------------- MODULE XimProtocol -----------------------------
(***************************************************************************)
(* The connections of the XIM protocol: src/src/lib/IMdkit (i18nX.c,       *)
(* i18nUtil.c, i18nPtHdr.c, i18nIc.c, i18nMethod.c) as xcin's handlers in  *)
(* src/src/xim.c use it.  Messages are ClientMessages of the X server: in  *)
(* order on one connection, in any order between connections.              *)
(*                                                                         *)
(* A key that xcin hands back to its client (XIM_FORWARD_EVENT) or a text  *)
(* it commits is sent synchronously: the client answers XIM_SYNC_REPLY.    *)
(* While a key that was handed back is unanswered, further keys of that    *)
(* connection are kept in its pending list; every other request overtakes  *)
(* them.                                                                   *)
(*                                                                         *)
(* What an input method makes of a key is left open (Outcome): ImContext   *)
(* and the modules of the input methods look into that.  xcin is not being *)
(* ended here (XCIN_RUN_EXIT): that is ExitProtocol.  The clients are the  *)
(* X library's, external: one request at a time, answers awaited, keys     *)
(* sent for the ICs whose event mask says so.                              *)
(***************************************************************************)
EXTENDS Integers, Sequences, SequencesExt

CONSTANTS
    Client,           \* windows of client programs (x_client->client_win)
    Mortal,           \* those that may end without a word
    MaxIC,            \* bound: how far the static counter icid of new_IC goes
    MaxKeys,          \* bound: keys typed in one connection, for each client
    MaxAsked,         \* bound: requests in one connection, for each client
    MaxDone,          \* bound: keys and requests together
    MaxSessions,      \* bound: connections of each client
    Windows,          \* focus windows of a client
    DistinctWindows,  \* a client gives each of its ICs a window of its own
    CommitsOnSwitch   \* a method that is switched off may hand back text

ASSUME ConstantsOK ==
    /\ Mortal \subseteq Client
    /\ MaxIC \in Nat \ {0}
    /\ MaxKeys \in [Client -> Nat]
    /\ MaxAsked \in [Client -> Nat]
    /\ MaxDone \in [Client -> Nat]
    /\ MaxSessions \in [Client -> Nat]
    /\ DistinctWindows \in BOOLEAN
    /\ CommitsOnSwitch \in BOOLEAN

NoId == 0
Id == 1 .. MaxIC
NoText == <<NoId, NoId>>

\* What a client asks about the input method as a whole.
Queries == {"CONNECT", "QUERY_EXTENSION", "ENCODING_NEGOTIATION", "GET_IM_VALUES"}
\* The requests the X library waits for an answer to.
Answered == Queries \cup
            {"XCONNECT", "OPEN", "CLOSE", "DISCONNECT", "CREATE_IC", "DESTROY_IC",
             "SET_IC_VALUES", "GET_IC_VALUES", "RESET_IC", "TRIGGER_NOTIFY"}
\* What a client answers with SYNC_REPLY.
Synchronous == {"COMMIT", "FORWARD_EVENT"}

\* n is the number of a key, the focus window given to CREATE_IC, or the mask
\* of SET_EVENT_MASK (1 keys are wanted, 0 they are not).
Msg(op, i, n) == [op |-> op, icid |-> i, n |-> n]

VARIABLES
    clients,       \* i18n_core->address.clients, the newest first
    free_clients,  \* address.free_clients: the connect_ids to be used again
    connect_id,    \* static connect_id of _Xi18nNewClient()
    ic,            \* the ICs by id; connect_id = NoId for one not in use
    ic_free,       \* ids on ic_free
    icid,          \* static icid of new_IC()
    commit_buf,    \* the icid and connect_id of the text not sent yet
    running,       \* xcin has not followed the NULL of _Xi18nFindClient()
    to_server,     \* messages under way, from each client
    to_client,     \* messages under way, to each client
    stage,         \* how far each client is
    waits,         \* the request each client waits for
    held,          \* ids each client was given and has not destroyed
    mask,          \* ids each client forwards the keys of
    typed,         \* keys each client forwarded in this connection
    asked,         \* requests it made in this connection
    sessions,      \* connections it made
    handled        \* history: the keys xcin was given in this connection

serverVars == <<clients, free_clients, connect_id, ic, ic_free, icid, commit_buf,
                running, handled>>
clientVars == <<stage, waits, held, mask, typed, asked, sessions>>
vars == <<serverVars, to_server, to_client, clientVars>>

Stage == {"off", "known", "open", "closed", "dead"}
None == "none"

Unused == [connect_id |-> NoId, connected |-> FALSE, focus_win |-> <<>>]
InUse(ics) == {i \in Id : ics[i].connect_id # NoId}

Init ==
    /\ clients = <<>>
    /\ free_clients = <<>>
    /\ connect_id = 0
    /\ ic = [i \in Id |-> Unused]
    /\ ic_free = {}
    /\ icid = 0
    /\ commit_buf = NoText
    /\ running = TRUE
    /\ to_server = [c \in Client |-> <<>>]
    /\ to_client = [c \in Client |-> <<>>]
    /\ stage = [c \in Client |-> "off"]
    /\ waits = [c \in Client |-> None]
    /\ held = [c \in Client |-> {}]
    /\ mask = [c \in Client |-> {}]
    /\ typed = [c \in Client |-> 0]
    /\ asked = [c \in Client |-> 0]
    /\ sessions = [c \in Client |-> 0]
    /\ handled = [c \in Client |-> <<>>]

----------------------------------------------------------------------------
(* The server while it works on a message: s is a record of its variables  *)
(* and of what it has sent.                                                *)

Core == [clients |-> clients, free |-> free_clients, last |-> connect_id,
         ic |-> ic, ic_free |-> ic_free, icid |-> icid, buf |-> commit_buf,
         running |-> running, out |-> to_client, handled |-> handled]

Store(s) ==
    /\ clients' = s.clients
    /\ free_clients' = s.free
    /\ connect_id' = s.last
    /\ ic' = s.ic
    /\ ic_free' = s.ic_free
    /\ icid' = s.icid
    /\ commit_buf' = s.buf
    /\ running' = s.running
    /\ to_client' = s.out
    /\ handled' = s.handled

\* _Xi18nFindClient(): the place in the list, 0 for NULL.
FindClient(s, id) == SelectInSeq(s.clients, LAMBDA r : r.connect_id = id)

\* The record a message was sent to, by its accept_win.
RecordOf(s, c) == SelectInSeq(s.clients, LAMBDA r : r.client_win = c)
Connection(s, c) == s.clients[RecordOf(s, c)].connect_id

\* _Xi18nSendMessage() and Xi18nXSend().  A window that is gone takes nothing.
SendAt(s, k, m) ==
    IF k = 0 THEN [s EXCEPT !.running = FALSE]
    ELSE IF stage[s.clients[k].client_win] = "dead" THEN s
    ELSE [s EXCEPT !.out[s.clients[k].client_win] = Append(@, m)]
Send(s, id, m) == SendAt(s, FindClient(s, id), m)

\* A record that has just been put at the head of the list.
Fresh(c, id) ==
    [client_win |-> c, connect_id |-> id, sync |-> FALSE, pending |-> <<>>]

\* _Xi18nNewClient(): the record freed last, or a new number.
NewClient(s, c) ==
    IF s.free # <<>>
    THEN [s EXCEPT !.clients = <<Fresh(c, Head(s.free))>> \o @, !.free = Tail(@)]
    ELSE [s EXCEPT !.clients = <<Fresh(c, s.last + 1)>> \o @, !.last = @ + 1]

\* _Xi18nDeleteClient()
DeleteClient(s, id) ==
    [s EXCEPT !.clients = RemoveAt(@, FindClient(s, id)), !.free = <<id>> \o @]

Delete(s, D) ==
    [s EXCEPT !.ic = [i \in Id |-> IF i \in D THEN Unused ELSE @[i]],
              !.ic_free = @ \cup D]

\* check_ic_exist() at the end of a request, if one is due: ICs with the same
\* focus window go, and those whose client's windows are gone.
Swept(s, i) ==
    {j \in InUse(s.ic) \ {i} :
        \/ s.ic[j].focus_win = s.ic[i].focus_win
        \/ LET k == FindClient(s, s.ic[j].connect_id)
           IN  k # 0 /\ stage[s.clients[k].client_win] = "dead"}
CheckIcExist(s, i, due) ==
    IF due /\ i \in InUse(s.ic) THEN Delete(s, Swept(s, i)) ELSE s

\* _Xi18nSetEventMask(): whether the keys of i are wanted.
SetEventMask(s, i, n) == Send(s, s.ic[i].connect_id, Msg("SET_EVENT_MASK", i, n))

\* xim_connect() and xim_disconnect(): the client is told, unless it has been
\* told before.
Connect(s, i) ==
    IF s.ic[i].connected THEN s
    ELSE SetEventMask([s EXCEPT !.ic[i].connected = TRUE], i, 1)
Disconnect(s, i) ==
    IF ~s.ic[i].connected THEN s
    ELSE SetEventMask([s EXCEPT !.ic[i].connected = FALSE], i, 0)

\* What the handlers of focus, values and triggers do to the connection of i.
Preedit == {"keep", "on", "off"}
PreeditState(s, i, p) ==
    IF p = "on" THEN Connect(s, i) ELSE IF p = "off" THEN Disconnect(s, i) ELSE s

\* commit_string(): where the text goes is decided by whoever commits last.
CommitString(s, i) == [s EXCEPT !.buf = <<i, s.ic[i].connect_id>>]

\* xim_commit() and xi18n_commit()
Commit(s) ==
    IF s.buf = NoText THEN s
    ELSE Send([s EXCEPT !.buf = NoText], s.buf[2], Msg("COMMIT", s.buf[1], 0))

\* xi18n_forwardEvent(): always synchronous.
ForwardBack(s, id, m) ==
    LET k == FindClient(s, id)
    IN  SendAt([s EXCEPT !.clients[k].sync = TRUE], k, m)

----------------------------------------------------------------------------
(* One action per message of _Xi18nMessageHandler().                       *)

\* WaitXIMProtocol() finds the record of the window the message was sent to.
Received(c, op) ==
    /\ running
    /\ to_server[c] # <<>>
    /\ Head(to_server[c]).op = op
    /\ op = "XCONNECT" \/ RecordOf(Core, c) # 0
    /\ to_server' = [to_server EXCEPT ![c] = Tail(@)]
    /\ UNCHANGED clientVars

Answer(s, c, m) == SendAt(s, RecordOf(s, c), m)

\* WaitXConnectMessage(), ReadXConnectMessage(): a window to write to is made.
ReadXConnect(c) ==
    /\ Received(c, "XCONNECT")
    /\ Store(Answer(NewClient(Core, c), c, Msg("XCONNECT", NoId, 0)))

\* The requests about the input method as a whole, which xcin is not asked
\* about; PROTOCOL_RICH is not defined.
Query(c, op) ==
    /\ Received(c, op)
    /\ Store(Answer(Core, c, Msg(op, NoId, 0)))
ConnectMessage(c) == Query(c, "CONNECT")
QueryExtension(c) == Query(c, "QUERY_EXTENSION")
EncodingNegotiation(c) == Query(c, "ENCODING_NEGOTIATION")
GetIMValues(c) == Query(c, "GET_IM_VALUES")

\* OpenMessageProc(): xcin has trigger keys, so the client is told of them and
\* sends no keys until it is asked to.
Open(c) ==
    /\ Received(c, "OPEN")
    /\ Store(Answer(Answer(Core, c, Msg("REGISTER_TRIGGERKEYS", NoId, 0)), c,
                    Msg("OPEN", NoId, 0)))

\* Faulty: the ICs of the connection are left alone.
CleanNothing(s, id) == s

\* ic_clean_all()
CleanAll(s, id) == Delete(s, {i \in Id : s.ic[i].connect_id = id})

\* CloseMessageProc() and xim_close_handler()
Close(c) ==
    /\ Received(c, "CLOSE")
    /\ Store(Answer(CleanAll(Core, Connection(Core, c)), c, Msg("CLOSE", NoId, 0)))

\* Faulty: the record is given back before the client is answered.
GoneFirst(s, c) ==
    Answer(DeleteClient(s, Connection(s, c)), c, Msg("DISCONNECT", NoId, 0))

\* DisConnectMessageProc() and Xi18nXDisconnect(): what is pending goes with it.
Gone(s, c) ==
    DeleteClient(Answer(s, c, Msg("DISCONNECT", NoId, 0)), Connection(s, c))
DisConnect(c) ==
    /\ Received(c, "DISCONNECT")
    /\ Store([Gone(Core, c) EXCEPT !.handled[c] = <<>>])

NewIds == IF ic_free # {} THEN ic_free ELSE {icid + 1} \cap Id

\* _Xi18nChangeIC() with create_flag, xim_create_ic_handler(), ic_create().
CreateIC(c) ==
    /\ Received(c, "CREATE_IC")
    /\ \E i \in NewIds : \E p \in {"keep", "on"} : \E due \in BOOLEAN :
        LET new == [connect_id |-> Connection(Core, c), connected |-> FALSE,
                    focus_win |-> <<c, Head(to_server[c]).n>>]
            made == [Core EXCEPT !.ic[i] = new, !.ic_free = @ \ {i},
                                 !.icid = IF i > @ THEN i ELSE @]
        IN  Store(Answer(CheckIcExist(PreeditState(made, i, p), i, due), c,
                         Msg("CREATE_IC", i, 0)))

\* DestroyICMessageProc(), ic_destroy(): answered whether there was one or not.
Destroyed(s, c, i) ==
    Answer(IF i \in InUse(s.ic) THEN Delete(s, {i}) ELSE s, c, Msg("DESTROY_IC", i, 0))
DestroyIC(c) ==
    /\ Received(c, "DESTROY_IC")
    /\ Store(Destroyed(Core, c, Head(to_server[c]).icid))

\* ic_set_values(): XNPreeditState may switch the method on or off; one that is
\* switched off may hand back text, which nobody sends.
SetValues(s, i, p, text) ==
    PreeditState(IF p = "off" /\ text THEN CommitString(s, i) ELSE s, i, p)

\* _Xi18nChangeIC(): no answer if xcin does not know the IC.
SetICValues(c) ==
    /\ Received(c, "SET_IC_VALUES")
    /\ LET i == Head(to_server[c]).icid
       IN  IF i \notin InUse(ic) THEN Store(Core)
           ELSE \E p \in Preedit : \E text \in {FALSE, CommitsOnSwitch} :
                \E due \in BOOLEAN :
                    Store(Answer(CheckIcExist(SetValues(Core, i, p, text), i, due), c,
                                 Msg("SET_IC_VALUES", i, 0)))

\* _Xi18nGetIC(): the same.
GetICValues(c) ==
    /\ Received(c, "GET_IC_VALUES")
    /\ LET i == Head(to_server[c]).icid
       IN  IF i \notin InUse(ic) THEN Store(Core)
           ELSE \E due \in BOOLEAN :
                    Store(Answer(CheckIcExist(Core, i, due), c,
                                 Msg("GET_IC_VALUES", i, 0)))

\* ResetICMessageProc(): xcin does nothing, and the answer is an empty string.
ResetIC(c) ==
    /\ Received(c, "RESET_IC")
    /\ Store(Answer(Core, c, Msg("RESET_IC", Head(to_server[c]).icid, 0)))

\* SetICFocusMessageProc() and xim_set_focus_handler(); not answered.
SetICFocus(c) ==
    /\ Received(c, "SET_IC_FOCUS")
    /\ LET i == Head(to_server[c]).icid
       IN  \E p \in Preedit : \E due \in BOOLEAN :
               Store(IF i \in InUse(ic) THEN CheckIcExist(PreeditState(Core, i, p), i, due)
                     ELSE Core)

UnsetICFocus(c) ==
    /\ Received(c, "UNSET_IC_FOCUS")
    /\ \E due \in BOOLEAN : Store(CheckIcExist(Core, Head(to_server[c]).icid, due))

\* Faulty: the trigger is handled before the client is told of the mask.
TriggeredFirst(s, c, i, p, text) ==
    LET on  == [s EXCEPT !.ic[i].connected = TRUE]
        act == Commit(IF text THEN CommitString(on, i) ELSE on)
        end == IF p = "off" THEN Disconnect(act, i) ELSE act
    IN  Answer(Answer(end, c, Msg("TRIGGER_NOTIFY", i, 0)), c, Msg("SET_EVENT_MASK", i, 1))

\* TriggerNotifyMessageProc() for an on key: the answer and the event mask go
\* out before xim_trigger_handler() decides whether anything is switched on.
Triggered(s, c, i, p, text) ==
    LET told == Answer(Answer(s, c, Msg("TRIGGER_NOTIFY", i, 0)), c,
                       Msg("SET_EVENT_MASK", i, 1))
        on   == [told EXCEPT !.ic[i].connected = TRUE]
        act  == IF text THEN Commit(CommitString(on, i)) ELSE on
    IN  IF i \notin InUse(s.ic) THEN told
        ELSE IF p = "off" THEN Disconnect(act, i) ELSE act
TriggerNotify(c) ==
    /\ Received(c, "TRIGGER_NOTIFY")
    /\ LET i == Head(to_server[c]).icid
       IN  \E p \in {"keep", "off"} : \E text \in {FALSE, p = "off"} :
           \E due \in BOOLEAN :
               Store(CheckIcExist(Triggered(Core, c, i, p, text), i, due))

\* What xim_forward_handler() makes of a key: text is committed or not, and the
\* key is absorbed (1), ends the input (0) or goes back to the client (-1).
Outcome == [commit : BOOLEAN, ret : {"absorbed", "off", "back"}, due : BOOLEAN]

Forwarded(s, c, i, n, o) ==
    LET told == Commit(IF o.commit THEN CommitString(s, i) ELSE s)
    IN  IF o.ret = "off" THEN Disconnect(told, i)
        ELSE IF o.ret = "back"
        THEN ForwardBack(told, Connection(told, c), Msg("FORWARD_EVENT", i, n))
        ELSE told

\* ForwardEventMessageProc() and xim_forward_handler()
HandleKey(s, c, m, o) ==
    LET given == [s EXCEPT !.handled[c] = Append(@, m.n)]
    IN  IF m.icid \notin InUse(s.ic) THEN given
        ELSE CheckIcExist(Forwarded(given, c, m.icid, m.n, o), m.icid, o.due)

\* Faulty: the key goes to the head of the list.
AddFirst(s, k, m) == [s EXCEPT !.clients[k].pending = <<m>> \o @]

\* AddQueue(): at the end of the list.
AddQueue(s, k, m) == [s EXCEPT !.clients[k].pending = Append(@, m)]

Forward(s, c, k, m, o) ==
    IF s.clients[k].sync THEN AddQueue(s, k, m) ELSE HandleKey(s, c, m, o)
ForwardEvent(c) ==
    /\ Received(c, "FORWARD_EVENT")
    /\ \E o \in Outcome :
        Store(Forward(Core, c, RecordOf(Core, c), Head(to_server[c]), o))

\* Faulty: the keys held back are left for the next key to push on.
ProcessNothing(s, c, k, os) == s

\* ProcessQueue(): until a key is handed back again, or the queue is empty.
ProcessQueue(s, c, k, os) ==
    LET q == s.clients[k].pending
        after[n \in 0 .. Len(q)] ==
            IF n = 0 THEN s
            ELSE IF after[n - 1].clients[k].sync THEN after[n - 1]
            ELSE HandleKey([after[n - 1] EXCEPT !.clients[k].pending = Tail(@)], c,
                           q[n], os[n])
    IN  after[Len(q)]

\* SyncReplyMessageProc(), whatever message it answers.
SyncReply(c) ==
    /\ Received(c, "SYNC_REPLY")
    /\ LET k == RecordOf(Core, c)
       IN  \E os \in [1 .. Len(clients[k].pending) -> Outcome] :
               Store(ProcessQueue([Core EXCEPT !.clients[k].sync = FALSE], c, k, os))

\* Xi18nXDisconnect() has destroyed the window: the answer to a text or a key
\* of the connection that was closed reaches nobody.
Lost(c) ==
    /\ running
    /\ to_server[c] # <<>>
    /\ Head(to_server[c]).op # "XCONNECT"
    /\ RecordOf(Core, c) = 0
    /\ to_server' = [to_server EXCEPT ![c] = Tail(@)]
    /\ Store(Core)
    /\ UNCHANGED clientVars

Serve(c) ==
    \/ ReadXConnect(c) \/ ConnectMessage(c) \/ QueryExtension(c)
    \/ EncodingNegotiation(c) \/ GetIMValues(c)
    \/ Open(c) \/ Close(c) \/ DisConnect(c)
    \/ CreateIC(c) \/ DestroyIC(c) \/ SetICValues(c) \/ GetICValues(c)
    \/ ResetIC(c) \/ SetICFocus(c) \/ UnsetICFocus(c) \/ TriggerNotify(c)
    \/ ForwardEvent(c) \/ SyncReply(c) \/ Lost(c)

----------------------------------------------------------------------------
(* The clients, external.                                                  *)

Send1(c, m) ==
    /\ to_server' = [to_server EXCEPT ![c] = Append(@, m)]
    /\ UNCHANGED <<to_client, serverVars>>

\* A request that is waited for.
Request(c, op, i, n) ==
    /\ waits[c] = None
    /\ waits' = [waits EXCEPT ![c] = op]
    /\ Send1(c, Msg(op, i, n))

\* XOpenIM() step by step, and XCloseIM(), which forgets the ICs.  The requests
\* of XOpenIM() that change nothing here are among those of Ask.
NextStage == [off |-> "XCONNECT", known |-> "OPEN", open |-> "CLOSE",
              closed |-> "DISCONNECT"]
Session(c) ==
    /\ stage[c] # "dead"
    /\ Request(c, NextStage[stage[c]], NoId, 0)
    /\ IF stage[c] = "off"
       THEN /\ sessions[c] < MaxSessions[c]
            /\ sessions' = [sessions EXCEPT ![c] = @ + 1]
            /\ typed' = [typed EXCEPT ![c] = 0]
            /\ asked' = [asked EXCEPT ![c] = 0]
       ELSE UNCHANGED <<typed, asked, sessions>>
    /\ held' = [held EXCEPT ![c] = {}]
    /\ mask' = [mask EXCEPT ![c] = {}]
    /\ UNCHANGED stage

Ask(c) ==
    /\ stage[c] = "open"
    /\ asked[c] < MaxAsked[c]
    /\ typed[c] + asked[c] < MaxDone[c]
    /\ asked' = [asked EXCEPT ![c] = @ + 1]
    /\ UNCHANGED <<stage, mask, typed, sessions>>
    /\ \/ /\ held[c] = {}
          /\ \E op \in Queries : Request(c, op, NoId, 0)
          /\ UNCHANGED held
       \/ \E w \in Windows :
             /\ DistinctWindows => \A i \in held[c] : ic[i].focus_win # <<c, w>>
             /\ icid < MaxIC \/ ic_free # {}
             /\ Request(c, "CREATE_IC", NoId, w)
             /\ UNCHANGED held
       \/ \E i \in held[c] :
             \/ /\ Request(c, "DESTROY_IC", i, 0)
                /\ held' = [held EXCEPT ![c] = @ \ {i}]
             \/ /\ \E op \in {"SET_IC_VALUES", "GET_IC_VALUES", "RESET_IC"} :
                      Request(c, op, i, 0)
                /\ UNCHANGED held
             \/ /\ i \notin mask[c]
                /\ Request(c, "TRIGGER_NOTIFY", i, 0)
                /\ UNCHANGED held
             \/ /\ waits[c] = None
                /\ \E op \in {"SET_IC_FOCUS", "UNSET_IC_FOCUS"} : Send1(c, Msg(op, i, 0))
                /\ UNCHANGED <<waits, held>>

Type(c) ==
    /\ stage[c] = "open"
    /\ waits[c] = None
    /\ typed[c] < MaxKeys[c]
    /\ typed[c] + asked[c] < MaxDone[c]
    /\ typed' = [typed EXCEPT ![c] = @ + 1]
    /\ \E i \in mask[c] \cap held[c] :
          Send1(c, Msg("FORWARD_EVENT", i, typed[c] + 1))
    /\ UNCHANGED <<stage, waits, held, mask, asked, sessions>>

Delivered(c, ops) ==
    /\ stage[c] # "dead"
    /\ to_client[c] # <<>>
    /\ Head(to_client[c]).op \in ops
    /\ to_client' = [to_client EXCEPT ![c] = Tail(@)]
    /\ UNCHANGED serverVars

Reached == [XCONNECT |-> "known", OPEN |-> "open", CLOSE |-> "closed",
            DISCONNECT |-> "off"]

GetAnswer(c) ==
    /\ Delivered(c, Answered)
    /\ LET m == Head(to_client[c])
       IN  /\ stage' = [stage EXCEPT ![c] = IF m.op \in DOMAIN Reached THEN Reached[m.op]
                                            ELSE @]
           /\ held' = [held EXCEPT ![c] = IF m.op = "CREATE_IC" THEN @ \cup {m.icid} ELSE @]
           /\ mask' = [mask EXCEPT ![c] = IF m.op = "DESTROY_IC" THEN @ \ {m.icid} ELSE @]
    /\ waits' = [waits EXCEPT ![c] = None]
    /\ UNCHANGED <<to_server, typed, asked, sessions>>

AnswerSync(c) ==
    /\ Delivered(c, Synchronous)
    /\ to_server' = [to_server EXCEPT ![c] = Append(@, Msg("SYNC_REPLY", NoId, 0))]
    /\ UNCHANGED clientVars

GetMask(c) ==
    /\ Delivered(c, {"SET_EVENT_MASK", "REGISTER_TRIGGERKEYS"})
    /\ LET m == Head(to_client[c])
       IN  mask' = [mask EXCEPT ![c] = IF m.op # "SET_EVENT_MASK" THEN @
                                       ELSE IF m.n = 1 THEN @ \cup {m.icid}
                                       ELSE @ \ {m.icid}]
    /\ UNCHANGED <<to_server, stage, waits, held, typed, asked, sessions>>

Listen(c) == GetAnswer(c) \/ AnswerSync(c) \/ GetMask(c)

\* The windows vanish; what was sent before still arrives.
Die(c) ==
    /\ c \in Mortal
    /\ stage[c] \notin {"off", "dead"}
    /\ stage' = [stage EXCEPT ![c] = "dead"]
    /\ to_client' = [to_client EXCEPT ![c] = <<>>]
    /\ UNCHANGED <<serverVars, to_server, waits, held, mask, typed, asked, sessions>>

Next ==
    \E c \in Client :
        Serve(c) \/ Session(c) \/ Ask(c) \/ Type(c) \/ Listen(c) \/ Die(c)

Taken(c) == /\ running
            /\ to_server[c] # <<>>
            /\ to_server' = [to_server EXCEPT ![c] = Tail(@)]
Read(c) == /\ stage[c] # "dead"
           /\ to_client[c] # <<>>
           /\ to_client' = [to_client EXCEPT ![c] = Tail(@)]

\* The X server delivers, gui_loop() takes what comes, and the X library of a
\* client reads what it is sent; nobody has to ask or type anything.
Spec ==
    /\ Init /\ [][Next]_vars
    /\ \A c \in Client : WF_to_server(Taken(c)) /\ WF_to_client(Read(c))

----------------------------------------------------------------------------
(* Properties.                                                             *)

TypeOK ==
    /\ \A k \in DOMAIN clients :
          /\ clients[k].client_win \in Client
          /\ clients[k].connect_id \in 1 .. connect_id
          /\ clients[k].sync \in BOOLEAN
    /\ \A k \in DOMAIN free_clients : free_clients[k] \in 1 .. connect_id
    /\ icid \in 0 .. MaxIC
    /\ ic_free \subseteq 1 .. icid
    /\ running \in BOOLEAN
    /\ stage \in [Client -> Stage]
    /\ waits \in [Client -> Answered \cup {None}]
    /\ held \in [Client -> SUBSET Id]
    /\ mask \in [Client -> SUBSET Id]

Alive(c) == stage[c] # "dead"

\* The keys among messages.
Keys(ms) ==
    LET among[n \in 0 .. Len(ms)] ==
            IF n = 0 THEN <<>>
            ELSE IF ms[n].op = "FORWARD_EVENT" THEN Append(among[n - 1], ms[n].n)
            ELSE among[n - 1]
    IN  among[Len(ms)]

\* Where messages of some kinds are among those under way.
Places(ms, ops) == {n \in DOMAIN ms : ms[n].op \in ops}

\* Every key a client forwards is given to xcin once and in the order typed,
\* whatever is answered, committed, held back or overtaken meanwhile: those
\* given, those pending and those under way are the keys typed.
KeysInOrder ==
    \A c \in Client : \A k \in DOMAIN clients :
        clients[k].client_win = c =>
            handled[c] \o Keys(clients[k].pending) \o Keys(to_server[c])
                = [n \in 1 .. typed[c] |-> n]

\* Keys are held back only as long as there is something that will let them go:
\* with keys pending the connection is waiting, and a connection that is waiting
\* has a synchronous message, or its answer, under way.
WaitHasAnswer ==
    \A k \in DOMAIN clients :
        LET c == clients[k].client_win
        IN  /\ clients[k].pending # <<>> => clients[k].sync
            /\ clients[k].sync /\ Alive(c) =>
                   \/ Places(to_client[c], Synchronous) # {}
                   \/ Places(to_server[c], {"SYNC_REPLY"}) # {}

\* xcin looks ICs up by id alone.  What a client asked before it died may be taken
\* when its IC has been swept and the id is that of another client's IC.
DiedAsking(ops) == \E c \in Client : ~Alive(c) /\ waits[c] \in ops

\* A client that waits for an answer has its request or the answer under way,
\* and nobody is sent an answer that is not awaited.  As xim.c:880 has it, a
\* client "will use XSetICValues() to send its spot location to xcin, and xcin
\* *must* reply it".  Only an IC that was destroyed in the name of a client that
\* is gone is asked about in vain.
AnswerOwed ==
    \A c \in Client :
        Alive(c) =>
            LET asks    == Places(to_server[c], Answered)
                answers == Places(to_client[c], Answered)
            IN  /\ \A n \in asks : /\ asks = {n} /\ to_server[c][n].op = waits[c]
                                   /\ answers = {}
                /\ \A n \in answers : answers = {n} /\ to_client[c][n].op = waits[c]
                /\ waits[c] # None /\ ~DiedAsking({"DESTROY_IC"})
                       => asks # {} \/ answers # {}

\* xcin and the client agree about an IC: it was made for the connection of the
\* client that holds it, and IC_CONNECT says what the client was told last.
\* Otherwise a client sends its keys to an input method that is off, or never
\* sends any, and the answers go to somebody else.
Told(c, i) ==
    LET ms == {n \in Places(to_client[c], {"SET_EVENT_MASK"}) : to_client[c][n].icid = i}
    IN  IF ms = {} THEN i \in mask[c]
        ELSE \E n \in ms : (\A k \in ms : k <= n) /\ to_client[c][n].n = 1
MaskAgrees ==
    \A c \in Client : \A i \in held[c] :
        Alive(c) /\ i \in InUse(ic) /\ ~DiedAsking({"DESTROY_IC", "TRIGGER_NOTIFY"}) =>
            /\ Told(c, i) = ic[i].connected
            /\ stage[c] = "open" => ic[i].connect_id = Connection(Core, c)

\* Everything xcin sends because of an IC goes to the connect_id the IC was made
\* with: that has to be a connection, or xcin follows a NULL pointer.
ICsConnected ==
    /\ running
    /\ \A i \in InUse(ic) :
          \E k \in DOMAIN clients : clients[k].connect_id = ic[i].connect_id

\* A key that was typed is given to xcin in the end, unless its client closes
\* the connection or dies.
KeysHandled ==
    \A c \in Client : \A n \in 1 .. MaxKeys[c] :
        typed[c] = n ~> \/ n \in {handled[c][k] : k \in DOMAIN handled[c]}
                        \/ stage[c] \in {"off", "dead"}
=============================================================================
