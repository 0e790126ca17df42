---------------------------- MODULE ExitProtocol ----------------------------
(***************************************************************************)
(* How xcin ends (sighandler() of xcin_main.c, xim_close() and             *)
(* xim_sync_reply_handler() of xim.c, gui_loop() of gui.c).                *)
(*                                                                         *)
(* A client in a synchronous XIM request hangs if the server goes away, so *)
(* xcin sends XIM_SYNC to the client of the current IC and ends only after *)
(* a number of answers.  Three parties take steps: the clients, which send *)
(* requests, answer synchronous messages, or die; the user and the system, *)
(* which close the main window or send a signal; and the server, whose     *)
(* gui_loop takes one request at a time.                                   *)
(*                                                                         *)
(* Every client has one IC, named like the client.                         *)
(***************************************************************************)
EXTENDS Naturals, Sequences

CONSTANTS
    Client,
    SyncChecks,  \* MAX_XIM_SYNC_CHECK
    MaxQueue,    \* bound: requests a client has under way
    MaxOwed,     \* bound: answers a client owes when the server asks for more
    MaxSignals   \* bound: signals

ASSUME ConstantsOK ==
    /\ SyncChecks \in Nat \ {0}
    /\ MaxQueue \in Nat \ {0}
    /\ MaxOwed \in Nat
    /\ MaxSignals \in Nat

NoIC == "none"

ASSUME NoICFresh == NoIC \notin Client

XcinMode == {"RUN_INIT", "RUN_KILL", "RUN_EXIT", "RUN_EXITALL"}
Message  == {"request", "sync_reply"}

VARIABLES
    server,   \* "running" or "exited"
    xcin_mode,
    n_check,  \* static of xim_sync_reply_handler()
    sync,     \* ims->sync: the next XIM_SYNC_REPLY is passed to xcin
    ic,       \* xccore->ic
    ics,      \* the clients that have an IC
    focus,    \* those whose IC has IC_FOCUS
    window,   \* those whose client window exists
    queue,    \* what each client sent and the server has not read
    owed,     \* the synchronous messages each client has not answered
    mainwin,  \* the main window has not been closed
    signals

vars == <<server, xcin_mode, n_check, sync, ic, ics, focus, window, queue, owed,
          mainwin, signals>>

clientVars == <<window, queue>>
userVars   == <<mainwin, signals>>

Init ==
    /\ server = "running"
    /\ xcin_mode = {"RUN_INIT"}
    /\ n_check = 0
    /\ sync = FALSE
    /\ ic = NoIC
    /\ ics = {}
    /\ focus = {}
    /\ window = Client
    /\ queue = [c \in Client |-> <<>>]
    /\ owed = [c \in Client |-> 0]
    /\ mainwin = TRUE
    /\ signals = 0

----------------------------------------------------------------------------
(* xim_close() and the end of every request.                               *)

Core == [mode |-> xcin_mode, n_check |-> n_check, sync |-> sync, ic |-> ic,
         ics |-> ics, focus |-> focus, owed |-> owed]

\* Faulty: with nobody to ask, only RUN_EXIT is set.
XimCloseHangs(s, i) ==
    IF i # NoIC /\ i \in window
      THEN [s EXCEPT !.mode = @ \cup {"RUN_EXIT"}, !.sync = TRUE,
                     !.owed[i] = @ + 1]
      ELSE [s EXCEPT !.mode = @ \cup {"RUN_EXIT"}]

\* xim_close(i): ask the client of i, if there is one, else end.
XimClose(s, i) ==
    IF i # NoIC /\ i \in window
      THEN [s EXCEPT !.mode = @ \cup {"RUN_EXIT"}, !.sync = TRUE,
                     !.owed[i] = @ + 1]
      ELSE [s EXCEPT !.mode = @ \cup {"RUN_EXIT", "RUN_EXITALL"}]

Store(s) ==
    /\ xcin_mode' = s.mode
    /\ n_check' = s.n_check
    /\ sync' = s.sync
    /\ ic' = s.ic
    /\ ics' = s.ics
    /\ focus' = s.focus
    /\ owed' = s.owed

\* delete_IC(), for the clients in D.
Delete(s, D) == [s EXCEPT !.ics = @ \ D, !.focus = @ \ D,
                          !.ic = IF @ \in D THEN NoIC ELSE @]

\* The end of im_protocol_handler(): a signal that came before is acted upon;
\* unless that turned check_ic_exist() off, the sweep deletes some of the ICs
\* whose window is gone.
EndOfRequest(c, s) ==
    IF "RUN_KILL" \in s.mode
      THEN Store(XimClose([s EXCEPT !.mode = @ \ {"RUN_KILL"}], s.ic))
      ELSE \E D \in SUBSET (s.ics \ (window \cup {c})) :
             /\ "RUN_EXIT" \in s.mode => D = {}
             /\ Store(Delete(s, D))

\* gui_loop() reads the next message of client c.
Receive(c, message) ==
    /\ server = "running"
    /\ "RUN_EXITALL" \notin xcin_mode
    /\ queue[c] # <<>>
    /\ Head(queue[c]) = message
    /\ queue' = [queue EXCEPT ![c] = Tail(@)]
    /\ UNCHANGED <<server, window, userVars>>

\* Every handler but that of XIM_SYNC_REPLY does nothing once xcin is exiting.
Handled(c, s) == EndOfRequest(c, IF "RUN_EXIT" \in xcin_mode THEN Core ELSE s)

----------------------------------------------------------------------------
(* The requests.  Which one a queued message is, shows when it is read.     *)

\* XIM_CREATE_IC and XIM_SET_IC_VALUES.  Until there is a current IC, xcin asks
\* the X server whether the client's window has the input focus (probe).
Values(c, probe) ==
    LET first == probe /\ ic = NoIC /\ "RUN_INIT" \in xcin_mode
        s     == [Core EXCEPT !.ics = @ \cup {c}]
    IN  /\ Receive(c, "request")
        /\ Handled(c, IF first THEN [s EXCEPT !.ic = c, !.mode = @ \ {"RUN_INIT"}]
                               ELSE s)

SetFocus(c) ==
    /\ Receive(c, "request")
    /\ Handled(c, IF c \in ics \ focus
                    THEN [Core EXCEPT !.focus = @ \cup {c}, !.ic = c] ELSE Core)

UnsetFocus(c) ==
    /\ Receive(c, "request")
    /\ Handled(c, [Core EXCEPT !.focus = @ \ {c}])

Trigger(c) ==
    /\ Receive(c, "request")
    /\ Handled(c, IF c \in ics THEN [Core EXCEPT !.focus = @ \cup {c}, !.ic = c]
                               ELSE Core)

\* A forwarded key is absorbed, or the server commits text or sends the key back,
\* which the client has to answer with XIM_SYNC_REPLY.
ForwardKey(c, answer) ==
    /\ answer => c \in ics /\ owed[c] < MaxOwed
    /\ Receive(c, "request")
    /\ Handled(c, IF answer THEN [Core EXCEPT !.owed[c] = @ + 1] ELSE Core)

\* XIM_DESTROY_IC and XIM_CLOSE.
Destroy(c) ==
    /\ Receive(c, "request")
    /\ Handled(c, Delete(Core, {c}))

\* Faulty: one answer too few.
AnsweredEarly(s, c) ==
    LET n == [s EXCEPT !.n_check = @ + 1]
    IN  IF n.n_check < SyncChecks - 1
          THEN XimClose(n, IF c \in ics THEN c ELSE NoIC)
          ELSE [n EXCEPT !.mode = @ \cup {"RUN_EXITALL"}]

\* Faulty: the answers are counted, but the client is not asked again.
AnsweredOnce(s, c) ==
    LET n == [s EXCEPT !.n_check = @ + 1]
    IN  IF n.n_check < SyncChecks THEN n
        ELSE [n EXCEPT !.mode = @ \cup {"RUN_EXITALL"}]

\* xim_sync_reply_handler() when xcin is exiting.
Answered(s, c) ==
    LET n == [s EXCEPT !.n_check = @ + 1]
    IN  IF n.n_check < SyncChecks
          THEN XimClose(n, IF c \in ics THEN c ELSE NoIC)
          ELSE [n EXCEPT !.mode = @ \cup {"RUN_EXITALL"}]

\* The XIM library passes an XIM_SYNC_REPLY on only if IMSyncXlib() was called
\* since the last one, whatever message the client was answering.
SyncReply(c) ==
    LET passed == [Core EXCEPT !.sync = FALSE]
    IN  /\ Receive(c, "sync_reply")
        /\ IF ~sync THEN Store(Core)
           ELSE EndOfRequest(c, IF "RUN_EXIT" \in xcin_mode
                                  THEN Answered(passed, c) ELSE passed)

Serve(c) ==
    \/ \E probe \in BOOLEAN : Values(c, probe)
    \/ SetFocus(c)
    \/ UnsetFocus(c)
    \/ Trigger(c)
    \/ \E answer \in BOOLEAN : ForwardKey(c, answer)
    \/ Destroy(c)
    \/ SyncReply(c)

----------------------------------------------------------------------------
(* Ending, and what makes xcin end.                                        *)

\* gui_loop(): XCIN_RUN_EXITALL is looked at before the next event is.
ExitAll ==
    /\ server = "running"
    /\ "RUN_EXITALL" \in xcin_mode
    /\ server' = "exited"
    /\ UNCHANGED <<xcin_mode, n_check, sync, ic, ics, focus, owed, clientVars,
                   userVars>>

\* WM_DELETE_WINDOW for the main window: gui_freewin(), xcin_mainwin_destroy().
\* The window is off the window list afterwards, so this happens once.
CloseMainwin ==
    /\ server = "running"
    /\ "RUN_EXITALL" \notin xcin_mode
    /\ mainwin
    /\ mainwin' = FALSE
    /\ Store(XimClose(Core, ic))
    /\ UNCHANGED <<server, clientVars, signals>>

\* sighandler() on SIGTERM or SIGINT.
Sighandler ==
    /\ server = "running"
    /\ signals < MaxSignals
    /\ signals' = signals + 1
    /\ IF ic # NoIC /\ ic \in focus
         THEN /\ xcin_mode' = xcin_mode \cup {"RUN_KILL"}
              /\ UNCHANGED server
         ELSE /\ server' = "exited"
              /\ UNCHANGED xcin_mode
    /\ UNCHANGED <<n_check, sync, ic, ics, focus, owed, clientVars, mainwin>>

----------------------------------------------------------------------------
(* The clients, as long as there is a server.                              *)

\* A new request of client c.
Send(c) ==
    /\ server = "running"
    /\ c \in window
    /\ Len(queue[c]) < MaxQueue
    /\ queue' = [queue EXCEPT ![c] = Append(@, "request")]
    /\ UNCHANGED <<server, xcin_mode, n_check, sync, ic, ics, focus, owed, window,
                   userVars>>

\* The client's X library answers a synchronous message.
Answer(c) ==
    /\ server = "running"
    /\ c \in window
    /\ owed[c] > 0
    /\ owed' = [owed EXCEPT ![c] = @ - 1]
    /\ queue' = [queue EXCEPT ![c] = Append(@, "sync_reply")]
    /\ UNCHANGED <<server, xcin_mode, n_check, sync, ic, ics, focus, window,
                   userVars>>

\* The client goes away without a word; its window goes with it.
Die(c) ==
    /\ server = "running"
    /\ c \in window
    /\ window' = window \ {c}
    /\ UNCHANGED <<server, xcin_mode, n_check, sync, ic, ics, focus, owed, queue,
                   userVars>>

Next ==
    \/ \E c \in Client : Serve(c)
    \/ ExitAll
    \/ CloseMainwin
    \/ Sighandler
    \/ \E c \in Client : Send(c)
    \/ \E c \in Client : Answer(c)
    \/ \E c \in Client : Die(c)

\* gui_loop() reads on as long as there is something to read, and a client that
\* lives answers, inside its X library, what it is asked.  Nobody has to send a
\* request, to die or to close anything.
Fairness ==
    /\ WF_vars(ExitAll)
    /\ \A c \in Client : WF_vars(Serve(c)) /\ WF_vars(Answer(c))

Spec == Init /\ [][Next]_vars /\ Fairness

----------------------------------------------------------------------------
(* Properties.                                                             *)

Exiting == "RUN_EXIT" \in xcin_mode /\ "RUN_EXITALL" \notin xcin_mode

TypeOK ==
    /\ server \in {"running", "exited"}
    /\ xcin_mode \in SUBSET XcinMode
    /\ n_check \in 0 .. SyncChecks
    /\ sync \in BOOLEAN
    /\ ic \in Client \cup {NoIC}
    /\ ics \in SUBSET Client
    /\ focus \in SUBSET ics
    /\ window \in SUBSET Client
    /\ queue \in [Client -> Seq(Message)]
    /\ owed \in [Client -> Nat]
    /\ mainwin \in BOOLEAN
    /\ signals \in 0 .. MaxSignals

\* While xcin is exiting it waits for something: the next answer will be passed
\* on, and an answer is under way or owed.  A signal that comes on top of a
\* closed main window, or an answer to an earlier commit, does not use it up.
WaitsForAnswer ==
    Exiting => /\ sync
               /\ \E c \in Client : \/ owed[c] > 0
                                   \/ \E k \in 1 .. Len(queue[c]) :
                                        queue[c][k] = "sync_reply"

\* With a current IC, and as long as every client and its IC are there, xcin ends
\* only after the whole number of answers.
AllAnswersFirst ==
    "RUN_EXITALL" \in xcin_mode /\ ic # NoIC /\ Client \subseteq ics \cap window
      => n_check = SyncChecks

\* The current IC, whose client is asked again and again, is not taken away or
\* exchanged while xcin is exiting.
FrozenWhileExiting ==
    [][Exiting => UNCHANGED <<ic, ics, focus>>]_vars

\* An exit that has begun is completed, provided no client dies meanwhile.
ExitCompletes == Exiting ~> (server = "exited" \/ window # Client)

\* xim_IC.c on the initial focus window: killed before the first XSetICFocus,
\* "the XIM client may crash because xcin will not send XSync event to it. So we
\* must get the initial input focus window".  Here: a signal does not end xcin on
\* the spot while there is a current IC.
SignalSparesCurrent ==
    [][server' # server /\ "RUN_EXITALL" \notin xcin_mode => ic = NoIC]_vars

\* xim.c on XIM_SYNC: when terminating, xcin sends it "to the on-focus IC and
\* wait for its response".  Here: it ends with the current client alive only
\* after the whole number of answers.
CurrentAnswersFirst ==
    "RUN_EXITALL" \in xcin_mode /\ ic \in window => n_check = SyncChecks

\* xim.c on XCIN_RUN_KILL: "When backing the X event loop, xcin will check for
\* this flag and send the XIM_SYNC request".  Here: with all clients alive, it does.
KillNoticed ==
    "RUN_KILL" \in xcin_mode
      ~> ("RUN_EXIT" \in xcin_mode \/ server = "exited" \/ window # Client)
=============================================================================
