------------------------------ MODULE ImContext ------------------------------
(***************************************************************************)
(* The IC manager and the IMC system of xcin (src/src/xim_IC.c) under the  *)
(* XIM protocol handlers that drive them (src/src/xim.c).                  *)
(*                                                                         *)
(* An IC stands for one window of an XIM client; an IMC holds the state of *)
(* the input method the IC types through: which module is bound (imodp),   *)
(* which one is selected (inp_num), the flags of inp_state, and the data   *)
(* the module hung on inpinfo.iccf in its xim_init().  With SingleIMC      *)
(* FALSE every IC owns an IMC; with SingleIMC TRUE all ICs share one.      *)
(*                                                                         *)
(* xcin is single threaded: one action is one call of im_protocol_handler  *)
(* for one client request, the garbage collection check_ic_exist() that    *)
(* ends the call included (the set D of ICs it deletes).  Bit flags are    *)
(* sets of names, so |= is \cup and &= ~ is \.                             *)
(***************************************************************************)
EXTENDS Integers

CONSTANTS
    Client,      \* the XIM connections (connect_id)
    MaxIC,       \* bound: how far the static counter icid of new_IC goes
    MaxImEntry,  \* MAX_IM_ENTRY, the number of slots of the module table
    Registered,  \* the slots named in the rcfile, hence with a FKEY_IMN key
    Loadable,    \* those whose module IM_get() can deliver
    PhraseIM,    \* those that keep composed text until it is committed
    DefaultIM,   \* the slot load_default_IM() settled on
    SingleIMC,   \* XCIN_SINGLE_IMC
    ImFocusOn,   \* XCIN_IM_FOCUS at start-up
    ImFocusKey   \* the rcfile binds a key to FKEY_IMFOCUS

Slot == 0 .. MaxImEntry - 1

ASSUME ConstantsOK ==
    /\ MaxIC \in Nat \ {0}
    /\ MaxImEntry \in Nat \ {0}
    /\ Registered \subseteq Slot
    /\ Loadable \subseteq Registered
    /\ PhraseIM \subseteq Loadable
    /\ DefaultIM \in Loadable
    /\ SingleIMC \in BOOLEAN
    /\ ImFocusOn \in BOOLEAN
    /\ ImFocusKey \in BOOLEAN

Id       == 1 .. MaxIC
NoIC     == 0              \* a NULL pointer to an IC
NoIM     == -1             \* a NULL pointer to a module
English  == MaxImEntry     \* the slot number change_IM() takes for English
NoClient == "none"

InpState  == {"CINPUT", "2BYTES", "XIMFOCUS", "2BFOCUS"}
ICState   == {"NEWIC", "CONNECT", "FOCUS"}
XcinMode  == {"IM_FOCUS", "RUN_IM_FOCUS", "RUN_2B_FOCUS", "RUN_INIT"}
Preedit   == {"unset", "enable", "disable"}

VARIABLES
    ic_list,    \* the ids of the ICs in use
    ic_free,    \* the ids on the free list, to be handed out again
    icid,       \* the last id that was never used before
    ic,         \* the ICs, by id
    imc,        \* the IMCs, by imc->id
    xccore,     \* the core record: ic, icp, im_focus, default_im, xcin_mode
    first_call, \* static of change_IM(): it has run once
    unsent,     \* the ICs whose committed text is still in commit_buf
    unpaired    \* history: an xim_init() or xim_end() was called out of turn

vars == <<ic_list, ic_free, icid, ic, imc, xccore, first_call, unsent, unpaired>>

IC == [connect_id : Client \cup {NoClient}, ic_state : SUBSET ICState]

IMC == [inp_state : SUBSET InpState,
        inp_num   : Loadable,
        imodp     : Loadable \cup {NoIM},
        iccf      : Loadable \cup {NoIM},     \* whose data inpinfo holds
        n_lcch    : BOOLEAN]                  \* composed text not committed

XCcore == [ic         : Id \cup {NoIC},
           icp        : Id \cup {NoIC},
           im_focus   : Loadable,
           default_im : Loadable,
           xcin_mode  : SUBSET XcinMode]

FreedIC == [connect_id |-> NoClient, ic_state |-> {}]

\* An IMC fresh from calloc() or memset(): nothing bound, nothing selected yet
\* (ic_create() selects before anything reads inp_num).
FreshIMC == [inp_state |-> {}, inp_num |-> DefaultIM, imodp |-> NoIM,
             iccf |-> NoIM, n_lcch |-> FALSE]

Init ==
    /\ ic_list = {}
    /\ ic_free = {}
    /\ icid = 0
    /\ ic = [i \in Id |-> FreedIC]
    /\ imc = [i \in Id |-> FreshIMC]
    /\ xccore = [ic |-> NoIC, icp |-> NoIC,
                 im_focus |-> DefaultIM, default_im |-> DefaultIM,
                 xcin_mode |-> {"RUN_INIT"} \cup
                               (IF ImFocusOn THEN {"IM_FOCUS"} ELSE {})]
    /\ first_call = FALSE
    /\ unsent = {}
    /\ unpaired = FALSE

----------------------------------------------------------------------------
(* The IM context handlers.  They work on what one call of the protocol    *)
(* handler reads and writes: the IMC at hand, the IC's flags, the core     *)
(* record, the commit buffer, and the result of change_IM().               *)

\* new_IMC(): in single mode every IC gets the one IMC, the id of the first IC.
ImcOf(i) == IF SingleIMC THEN 1 ELSE i

Context(i) == [imc |-> imc[ImcOf(i)], st |-> ic[i].ic_state, xc |-> xccore,
               called |-> first_call, unsent |-> unsent,
               unpaired |-> unpaired, ok |-> TRUE]

Active(m) == m.inp_state \cap {"CINPUT", "2BYTES"} # {}

\* Faulty: XIMFOCUS outlives CINPUT.
XimEndKeepsFocus(s, i, clear) ==
    LET m    == s.imc
        ends == clear /\ m.imodp # NoIM /\ "CINPUT" \in m.inp_state
    IN  [s EXCEPT !.imc = [m EXCEPT !.inp_state = @ \ {"CINPUT"},
                                    !.iccf   = IF ends THEN NoIM ELSE @,
                                    !.n_lcch = @ /\ ~ends]]

\* call_xim_end(ic, 0, clear): the module's xim_end() releases what it hung on
\* inpinfo and hands back the text composed so far, which goes to commit_buf.
\* It is out of turn when what hangs there is not the data of that module.
XimEnd(s, i, clear) ==
    LET m    == s.imc
        ends == clear /\ m.imodp # NoIM /\ "CINPUT" \in m.inp_state
    IN  [s EXCEPT
          !.imc = [m EXCEPT !.inp_state = @ \ {"CINPUT", "XIMFOCUS"},
                            !.iccf   = IF ends THEN NoIM ELSE @,
                            !.n_lcch = @ /\ ~ends],
          !.unsent = IF ends /\ m.n_lcch THEN @ \cup {i} ELSE @,
          !.unpaired = @ \/ (ends /\ m.iccf # m.imodp)]

\* call_xim_init(ic, reset): xim_init() allocates afresh and overwrites iccf.
XimInit(s, reset) ==
    LET m      == s.imc
        starts == reset /\ m.imodp # NoIM /\ "CINPUT" \notin m.inp_state
    IN  [s EXCEPT
          !.imc = [m EXCEPT !.inp_state = @ \cup {"CINPUT", "XIMFOCUS"},
                            !.iccf   = IF starts THEN m.imodp ELSE @,
                            !.n_lcch = @ /\ ~starts],
          !.unpaired = @ \/ (starts /\ m.iccf # NoIM)]

\* Faulty: with an IMC per IC, too, only a change of the module resets.
ResetInpinfoOnChange(s, n) ==
    ~s.called \/ (n \in Slot /\ s.imc.inp_num # n)

\* Faulty: English counts as a change of the IM.
ResetInpinfoOnEnglish(s, n) ==
    ~s.called \/ ~SingleIMC \/ n \notin Slot \/ s.imc.inp_num # n

\* The value change_IM() computes for reset_inpinfo.
ResetInpinfo(s, n) ==
    \/ ~s.called
    \/ ~SingleIMC
    \/ n \in Slot /\ s.imc.inp_num # n

ToEnglish(s) ==
    [s EXCEPT !.imc.imodp = NoIM,
              !.xc.xcin_mode = IF "IM_FOCUS" \in @ THEN @ \ {"RUN_IM_FOCUS"}
                                                   ELSE @]

ToModule(s, n, reset) ==
    LET focus == "IM_FOCUS" \in s.xc.xcin_mode
        bound == [s EXCEPT
                    !.imc.imodp = n,
                    !.imc.inp_num = n,
                    !.xc.xcin_mode = IF focus THEN @ \cup {"RUN_IM_FOCUS"}
                                              ELSE @,
                    !.xc.im_focus = IF focus THEN n ELSE @,
                    !.xc.default_im = IF SingleIMC THEN n ELSE @]
    IN  XimInit(bound, reset)

\* change_IM(ic, n).  A slot that holds no loadable module changes nothing.
ChangeIM(s, i, n) ==
    LET english == n \notin Slot
        reset   == ResetInpinfo(s, n)
        leaves  == s.imc.imodp # NoIM /\ (english \/ n # s.imc.imodp)
        called  == [s EXCEPT !.called = TRUE]
        out     == IF leaves THEN XimEnd(called, i, reset) ELSE called
    IN  IF english THEN ToEnglish(out)
        ELSE IF n \in Loadable THEN ToModule(out, n, reset)
        ELSE [s EXCEPT !.ok = FALSE]

\* circular_change_IM(): the next slot, counting English as one more, that
\* change_IM() accepts.
CircularTarget(m, dir) ==
    LET start == IF "CINPUT" \in m.inp_state THEN m.inp_num ELSE English
        At(k) == (start + dir * k) % (MaxImEntry + 1)
        hits  == {k \in 1 .. MaxImEntry + 1 : At(k) \in Loadable \cup {English}}
    IN  At(CHOOSE k \in hits : \A h \in hits : k <= h)

----------------------------------------------------------------------------
(* What deleting ICs does (delete_IC(), once for every IC in D).           *)

\* In multi mode call_xim_end(ic, 1, 1) ends the bound module and delete_IMC()
\* frees the IMC; in single mode the shared IMC is left as it is.
\* Unended: the data is another module's, or the module is not on to be ended.
Unended(m) ==
    m.iccf # IF m.imodp # NoIM /\ "CINPUT" \in m.inp_state THEN m.imodp ELSE NoIM

Release(contexts, D) ==
    IF SingleIMC THEN contexts
    ELSE [i \in Id |-> IF i \in D THEN FreshIMC ELSE contexts[i]]

EndsUnpaired(contexts, D) == ~SingleIMC /\ \E i \in D : Unended(contexts[i])

\* Faulty: the previous IC is not looked at.
ForgetCurrentOnly(xc, D) == [xc EXCEPT !.ic = IF @ \in D THEN NoIC ELSE @]

\* xccore->ic and xccore->icp are cleared when they point at a deleted IC.
Forget(xc, D) == [xc EXCEPT !.ic  = IF @ \in D THEN NoIC ELSE @,
                            !.icp = IF @ \in D THEN NoIC ELSE @]

\* The end of a request on IC i, which belongs to client c: what the handler
\* made of its context (s) is stored, then check_ic_exist() deletes D.
Handled(i, c, s, D) ==
    LET imcs == [imc EXCEPT ![ImcOf(i)] = s.imc]
        ics  == [ic EXCEPT ![i] = [connect_id |-> c, ic_state |-> s.st]]
    IN  /\ ic_list' = (ic_list \cup {i}) \ D
        /\ ic_free' = (ic_free \ {i}) \cup D
        /\ ic' = [j \in Id |-> IF j \in D THEN FreedIC ELSE ics[j]]
        /\ imc' = Release(imcs, D)
        /\ xccore' = Forget(s.xc, D)
        /\ first_call' = s.called
        /\ unsent' = s.unsent
        /\ unpaired' = (s.unpaired \/ EndsUnpaired(imcs, D))

Served(i, s) ==
    /\ \E D \in SUBSET (ic_list \ {i}) : Handled(i, ic[i].connect_id, s, D)
    /\ UNCHANGED icid

\* XIM_DESTROY_IC and XIM_CLOSE: nothing but deletion.
Deleted(D) ==
    /\ ic_list' = ic_list \ D
    /\ ic_free' = ic_free \cup D
    /\ ic' = [j \in Id |-> IF j \in D THEN FreedIC ELSE ic[j]]
    /\ imc' = Release(imc, D)
    /\ xccore' = Forget(xccore, D)
    /\ unpaired' = (unpaired \/ EndsUnpaired(imc, D))
    /\ UNCHANGED <<icid, first_call, unsent>>

----------------------------------------------------------------------------
(* Creating, configuring and destroying ICs.                               *)

Connect(s)    == [s EXCEPT !.st = @ \cup {"CONNECT"}]
Disconnect(s) == [s EXCEPT !.st = @ \ {"CONNECT"}]
DisconnectIf(test, s) == IF test THEN Disconnect(s) ELSE s

\* ic_set_values() with the XNPreeditState attribute ps.
SetPreedit(s, i, ps) ==
    LET turned == ChangeIM(s, i, s.imc.inp_num)
    IN  CASE ps = "disable" /\ Active(s.imc) ->
               Disconnect(ChangeIM(s, i, English))
          [] ps = "enable" /\ ~Active(s.imc) ->
               IF turned.ok THEN Connect(turned) ELSE turned
          [] OTHER -> s

\* Until xcin has a current IC, gui_check_input_focus() is asked whether the
\* window of an IC whose style is being set has the input focus (probe).
Probes == IF "RUN_INIT" \in xccore.xcin_mode /\ xccore.ic = NoIC THEN BOOLEAN
                                                                 ELSE {FALSE}

SetValues(s, i, ps, probe) ==
    LET t == SetPreedit(s, i, ps)
    IN  IF probe THEN [t EXCEPT !.xc.ic = i, !.xc.xcin_mode = @ \ {"RUN_INIT"}]
                 ELSE t

\* new_IC(): an id off the free list, else the next of the counter.
NewIds == IF ic_free # {} THEN ic_free ELSE {icid + 1} \cap Id

\* Faulty: the focused module, whatever XCIN_IM_FOCUS says.
NewContextFocused(i) ==
    [Context(i) EXCEPT !.st = {"NEWIC"}, !.imc.inp_num = xccore.im_focus]

\* ic_create(): the new IC starts from the focused or the default module.
NewContext(i) ==
    LET num == IF "IM_FOCUS" \in xccore.xcin_mode THEN xccore.im_focus
                                                  ELSE xccore.default_im
    IN  [Context(i) EXCEPT !.st = {"NEWIC"}, !.imc.inp_num = num]

\* Faulty: the counter moves when an id is used again, too.
CreateICCountsReuse(c, i, ps, probe) ==
    /\ \E D \in SUBSET ic_list :
         Handled(i, c, SetValues(NewContext(i), i, ps, probe), D)
    /\ icid' = icid + 1

CreateIC(c, i, ps, probe) ==
    /\ \E D \in SUBSET ic_list :
         Handled(i, c, SetValues(NewContext(i), i, ps, probe), D)
    /\ icid' = IF i > icid THEN i ELSE icid

SetICValues(i, ps, probe) == Served(i, SetValues(Context(i), i, ps, probe))

DestroyIC(i) == Deleted({i})

\* ic_clean_all(): the ICs of the connection that went away.
CloseClient(c) ==
    /\ \E i \in ic_list : ic[i].connect_id = c
    /\ Deleted({i \in ic_list : ic[i].connect_id = c})

\* XIM_GET_IC_VALUES, a key release, XIM_SYNC_REPLY: only the sweep counts.
OtherRequest(i) == Served(i, Context(i))

----------------------------------------------------------------------------
(* Focus.                                                                  *)

\* The focus flags that go with what is switched on: a focus-in sets them, a
\* focus-out clears them.
FocusFlags(m) == (IF "CINPUT" \in m.inp_state THEN {"XIMFOCUS"} ELSE {})
            \cup (IF "2BYTES" \in m.inp_state THEN {"2BFOCUS"} ELSE {})

FocusIn(s, i) == [s EXCEPT !.imc.inp_state = @ \cup FocusFlags(s.imc),
                           !.st = @ \cup {"FOCUS"},
                           !.xc.ic = i]

\* A new IC inherits what the last focused one had, under XCIN_IM_FOCUS.
Inherit(s, i) ==
    LET mode == s.xc.xcin_mode
        im   == IF "RUN_IM_FOCUS" \in mode THEN ChangeIM(s, i, s.xc.im_focus)
                                           ELSE s
        sb   == IF "RUN_2B_FOCUS" \in mode
                  THEN [im EXCEPT !.imc.inp_state = @ \cup {"2BYTES", "2BFOCUS"}]
                  ELSE im
    IN  IF mode \cap {"RUN_IM_FOCUS", "RUN_2B_FOCUS"} # {} THEN Connect(sb) ELSE s

SetFocus(i) ==
    LET in  == FocusIn(Context(i), i)
        new == IF "NEWIC" \in in.st
                 THEN [Inherit(in, i) EXCEPT !.st = @ \ {"NEWIC"}]
                 ELSE in
        one == IF Active(new.imc) THEN Connect(new) ELSE Disconnect(new)
    IN  /\ "FOCUS" \notin ic[i].ic_state
        /\ Served(i, IF SingleIMC THEN one ELSE new)

UnsetFocus(i) ==
    LET s == Context(i)
        hidden == IF SingleIMC THEN {} ELSE FocusFlags(s.imc)
    IN  /\ "FOCUS" \in ic[i].ic_state
        /\ Served(i, [s EXCEPT !.imc.inp_state = @ \ hidden,
                               !.st = @ \ {"FOCUS"},
                               !.xc.icp = i])

----------------------------------------------------------------------------
(* Trigger keys: the client asks for the IM to be switched on.             *)

\* What xim_trigger_handler() does before it looks at the key.
Triggered(i) ==
    LET s == Context(i)
    IN  [s EXCEPT !.xc.icp = s.xc.ic, !.xc.ic = i,
                  !.st = @ \cup {"FOCUS", "CONNECT"}]

TwoBytes(s, on) ==
    LET flags == {"2BYTES", "2BFOCUS"}
        focus == "IM_FOCUS" \in s.xc.xcin_mode
    IN  [s EXCEPT
          !.imc.inp_state = IF on THEN @ \cup flags ELSE @ \ flags,
          !.xc.xcin_mode = IF ~focus THEN @
                           ELSE IF on THEN @ \cup {"RUN_2B_FOCUS"}
                           ELSE @ \ {"RUN_2B_FOCUS"}]

TriggerZhen(i) ==
    LET s == ChangeIM(Triggered(i), i, imc[ImcOf(i)].inp_num)
    IN  Served(i, DisconnectIf(~s.ok, s))

Trigger2bsb(i) == Served(i, TwoBytes(Triggered(i), TRUE))

TriggerCircular(i, dir) ==
    LET s == ChangeIM(Triggered(i), i, CircularTarget(imc[ImcOf(i)], dir))
    IN  Served(i, DisconnectIf("CINPUT" \notin s.imc.inp_state, s))

TriggerImn(i, n) ==
    LET s == ChangeIM(Triggered(i), i, n)
    IN  Served(i, DisconnectIf(~s.ok, s))

\* found: the key has a phrase, which is committed and, unlike on the other
\* triggers, sent at once.
TriggerQphrase(i, found) ==
    LET s == Disconnect(Triggered(i))
    IN  Served(i, IF found THEN [s EXCEPT !.unsent = {}] ELSE s)

----------------------------------------------------------------------------
(* Forwarded keys.  xim_forward_handler() ends with xim_commit(), which    *)
(* empties commit_buf whoever put text in it.                              *)

\* Faulty: the client stays connected.
FuncKeyStaysConnected(i, s) == Served(i, [s EXCEPT !.unsent = {}])

\* A function key; the client is let go once nothing is on any more.
FuncKey(i, s) ==
    Served(i, DisconnectIf(~Active(s.imc), [s EXCEPT !.unsent = {}]))

ForwardZhen(i) ==
    LET m == imc[ImcOf(i)]
    IN  FuncKey(i, ChangeIM(Context(i), i,
                     IF "CINPUT" \in m.inp_state THEN English ELSE m.inp_num))

Forward2bsb(i) ==
    FuncKey(i, TwoBytes(Context(i), "2BYTES" \notin imc[ImcOf(i)].inp_state))

ForwardCircular(i, dir) ==
    FuncKey(i, ChangeIM(Context(i), i, CircularTarget(imc[ImcOf(i)], dir)))

ForwardImn(i, n) == FuncKey(i, ChangeIM(Context(i), i, n))

\* FKEY_CHREP, FKEY_SIMD, FKEY_QPHRASE: they commit text or change the display.
ForwardOther(i) == FuncKey(i, Context(i))

\* Faulty: one of the two run modes is left on.
OutOfFocusModeHalf(mode) == mode \ {"IM_FOCUS", "RUN_IM_FOCUS"}

OutOfFocusMode(mode) == mode \ {"IM_FOCUS", "RUN_IM_FOCUS", "RUN_2B_FOCUS"}

\* FKEY_IMFOCUS turns XCIN_IM_FOCUS on or off.
ForwardImfocus(i) ==
    LET s == Context(i)
        run == IF "CINPUT" \in s.imc.inp_state THEN "RUN_IM_FOCUS"
                                               ELSE "RUN_2B_FOCUS"
        off == [s EXCEPT !.xc.xcin_mode = OutOfFocusMode(@)]
        on  == [s EXCEPT !.xc.xcin_mode = @ \cup {"IM_FOCUS", run},
                         !.xc.im_focus = s.imc.inp_num]
    IN  /\ ImFocusKey
        /\ FuncKey(i, IF "IM_FOCUS" \in s.xc.xcin_mode THEN off ELSE on)

\* An ordinary key: the module's keystroke() may start, extend or finish the
\* text it keeps (composing: what is left of it).
ForwardKey(i, composing) ==
    LET s == Context(i)
        typed == "CINPUT" \in s.imc.inp_state /\ s.imc.imodp \in PhraseIM
    IN  /\ composing => typed
        /\ Served(i, [s EXCEPT !.imc.n_lcch = IF typed THEN composing ELSE @,
                               !.unsent = {}])

----------------------------------------------------------------------------

Request(i) ==
    \/ \E ps \in Preedit, probe \in Probes : SetICValues(i, ps, probe)
    \/ OtherRequest(i)
    \/ SetFocus(i)
    \/ UnsetFocus(i)
    \/ TriggerZhen(i)
    \/ Trigger2bsb(i)
    \/ \E dir \in {1, -1} : TriggerCircular(i, dir)
    \/ \E n \in Registered : TriggerImn(i, n)
    \/ \E found \in BOOLEAN : TriggerQphrase(i, found)
    \/ ForwardZhen(i)
    \/ Forward2bsb(i)
    \/ \E dir \in {1, -1} : ForwardCircular(i, dir)
    \/ \E n \in Registered : ForwardImn(i, n)
    \/ ForwardOther(i)
    \/ ForwardImfocus(i)
    \/ \E composing \in BOOLEAN : ForwardKey(i, composing)

Next ==
    \/ \E c \in Client, i \in NewIds, ps \in Preedit, probe \in Probes :
         CreateIC(c, i, ps, probe)
    \/ \E i \in ic_list : DestroyIC(i)
    \/ \E c \in Client : CloseClient(c)
    \/ \E i \in ic_list : Request(i)

Spec == Init /\ [][Next]_vars

----------------------------------------------------------------------------
(* Properties.                                                             *)

TypeOK ==
    /\ icid \in 0 .. MaxIC
    /\ ic_list \in SUBSET Id
    /\ ic_free \in SUBSET Id
    /\ ic \in [Id -> IC]
    /\ imc \in [Id -> IMC]
    /\ xccore \in XCcore
    /\ first_call \in BOOLEAN
    /\ unsent \in SUBSET Id
    /\ unpaired \in BOOLEAN

\* The ids given out so far are either in use or on the free list, never both:
\* two clients never share an IC, and no id is lost (new_IC, delete_IC).
IdsPartition ==
    /\ ic_list \cap ic_free = {}
    /\ ic_list \cup ic_free = 1 .. icid

\* xccore->ic and xccore->icp, which the GUI follows at every redraw, never
\* point at an IC that was deleted by its client, with it, or by the sweep.
CurrentIsLive == {xccore.ic, xccore.icp} \subseteq ic_list \cup {NoIC}

\* The flags, the selected and the bound module of an IMC say the same thing,
\* whatever order of focus, trigger, key and attribute requests led there: the
\* keystroke path dereferences imodp on the strength of IM_CINPUT alone.
SelectionCoherent ==
    \A i \in ic_list :
      LET m == imc[ImcOf(i)]
      IN  /\ "CINPUT" \in m.inp_state <=> m.imodp # NoIM
          /\ m.imodp # NoIM => m.imodp = m.inp_num
          /\ "XIMFOCUS" \in m.inp_state => "CINPUT" \in m.inp_state
          /\ "2BFOCUS" \in m.inp_state => "2BYTES" \in m.inp_state

\* With an IMC per IC, inpinfo holds the data of the module that is bound and
\* of no other, and xim_init() and xim_end() were always called in turns, over
\* any sequence of switches, toggles and deletions.
ContextBalance ==
    /\ ~unpaired
    /\ \A i \in Id : imc[i].iccf = imc[i].imodp
    /\ \A i \in Id \ ic_list : imc[i].imodp = NoIM

\* With an IMC per IC, an IC told that preediting started has something switched
\* on: a client is never left waiting on an input method that is off.
ConnectedIsActive ==
    \A i \in ic_list : "CONNECT" \in ic[i].ic_state => Active(imc[i])

\* The modes a new IC inherits exist only while XCIN_IM_FOCUS is on.
FocusModes ==
    xccore.xcin_mode \cap {"RUN_IM_FOCUS", "RUN_2B_FOCUS"} # {}
      => "IM_FOCUS" \in xccore.xcin_mode

\* With one IMC, creating an IC writes inp_num of the IMC that all the others
\* are typing through (ic_create); the selection survives it because the core
\* record always names the module last selected.
SharedSelection ==
    ic_list # {} =>
      /\ imc[1].inp_num = xccore.default_im
      /\ "IM_FOCUS" \in xccore.xcin_mode => imc[1].inp_num = xccore.im_focus

\* With one IMC, going to English and back keeps the module's data: once the
\* first change_IM() has run, the data changes hands only with the selection.
SingleKeepsSession ==
    [][first_call /\ imc'[1].inp_num = imc[1].inp_num
         => imc'[1].iccf = imc[1].iccf]_vars

\* The IMC system implements the session discipline of ImSession: whatever
\* requests and sweeps there are, the data on an IC is always that of the module
\* it types through, set up and ended in turns, and nobody else's request
\* touches it.  An xim_end() left out when English is chosen, or an xim_init()
\* on data that is still there, is no step of ImSession.
Session == INSTANCE ImSession WITH
    Module <- Loadable, None <- NoIM,
    live <- ic_list,
    bound <- [i \in Id |-> imc[i].imodp],
    session <- [i \in Id |-> imc[i].iccf]

SessionSpec == Session!Spec

\* module.En on xim_end(): it is called for the module that is switched out
\* before the xim_init() of the next one.  Here: no xim_init() finds data of an
\* earlier module in inpinfo, and no xim_end() that of another.
SwitchOutBeforeInit == ~unpaired

\* change_IM() on first_call: "in order to let xim_init() take effect".  Here: a
\* key that goes to a module (IM_CINPUT) finds the data of that module.
KeystrokeHasContext ==
    \A i \in ic_list :
      LET m == imc[ImcOf(i)]
      IN  "CINPUT" \in m.inp_state => m.iccf = m.imodp

\* module.En on xim_end(): its return value "could used for string committing".
\* Here: no handler returns with text waiting in commit_buf.
NoPendingText == unsent = {}
=============================================================================
