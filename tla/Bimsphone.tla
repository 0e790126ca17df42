------------------------------ MODULE Bimsphone ------------------------------
(***************************************************************************)
(* The phonetic input methods, src/src/Cinput/bimsphone: zhuyin with and   *)
(* without automatic selection and pinyin, over the bims library.  bims is *)
(* not part of the repository: it keeps one editing context (BC) per imid, *)
(* and what it answers is any answer the module is written for.            *)
(*                                                                         *)
(* A candidate is the sequence of its characters; of the text only the     *)
(* number of characters is kept.  A handler is a set of outcomes, because  *)
(* the answers of bims are not determined.                                 *)
(***************************************************************************)
EXTENDS Integers, FiniteSets, SequencesExt, Functions, TLC

CONSTANTS
    IC,           \* input contexts, which are imids of bims too
    Methods,      \* the sections of the rcfile that name this module
    Rc,           \* Methods -> [pinyin, mode, esc, n_selphr]
    Selkey,       \* <<key, ...>>: the selection keys
    ZhiLists, TsiLists,   \* lists of candidates bims may offer
    MCCH_BUFSIZE, N_MAX_KEYCODE_PINYIN,
    MaxZhuyin,    \* symbols of a syllable that is not complete
    WinSizes,     \* what check_winsize() may compute from xcin_wlen
    Typed         \* <<key, modifiers>>: what the user may type

NoMethod == "none"
NoPool == "none"
NoIC == 0
OneChar == {"space", "Return", "Escape", "BackSpace", "char"} \cup Range(Selkey)

ASSUME BimsphoneConstants ==
    /\ NoMethod \notin Methods
    /\ NoIC \notin IC
    /\ \A m \in Methods :
        /\ Rc[m].mode \subseteq {"AUTOSEL", "SPACESEL", "PHRASESEL", "AUTOUPCH"}
        /\ Rc[m].pinyin \in BOOLEAN /\ Rc[m].n_selphr \in Nat
    /\ \A s \in WinSizes : s \in Nat /\ s > 1
    /\ MaxZhuyin \in Nat \ {0}
    /\ N_MAX_KEYCODE_PINYIN \in Nat
    /\ Selkey # <<>> /\ Selkey \in Seq(Range(Selkey))
    /\ Range(Selkey) \cap {"Escape", "BackSpace", "char"} = {}
    /\ \A l \in ZhiLists \cup TsiLists : l # <<>> /\ l \in Seq(Range(l))
    /\ \A l \in TsiLists : \A k \in DOMAIN l :
        Len(FlattenSeq(<<l[k]>>)) < MCCH_BUFSIZE
    /\ \A t \in Typed : t[2] \subseteq {"ctrl", "alt", "shift", "lock"}

VARIABLES
    loaded,   \* Methods -> "unread", "loaded" or "refused" by phone_init()
    dp,       \* the pool of each kind, named by the method that opened it
    cdp,      \* the pool all contexts use
    noauto,   \* bimsp_zhuyin_noauto
    winsize,  \* the window size as check_winsize() computes it
    inp,      \* inpinfo and iccf of each context
    bc,       \* the bims context of each imid
    call      \* history: what the last call did

vars == <<loaded, dp, cdp, noauto, winsize, inp, bc, call>>

Flat(cands) == FlattenSeq(cands)
Least(a, b) == IF a < b THEN a ELSE b

(* phone_init(): pinyin is always auto-selecting, and the options of one   *)
(* kind do not count for the other.                                        *)
Mode(m) ==
    IF Rc[m].pinyin \/ "AUTOSEL" \in Rc[m].mode
      THEN {"AUTOSEL"} \cup (Rc[m].mode \cap {"SPACESEL", "PHRASESEL"})
      ELSE Rc[m].mode \cap {"AUTOUPCH"}
Autosel(m) == "AUTOSEL" \in Mode(m)
Kind(m) == IF Rc[m].pinyin THEN "pinyin" ELSE "zhuyin"
NSelphr(m) == IF "PHRASESEL" \in Mode(m) THEN Rc[m].n_selphr ELSE 0

NewBC == [state |-> "EDITING", zhuyin |-> 0, text |-> 0, maxlen |-> 99,
          cands |-> <<>>, base |-> 0]
NoInp == [cf |-> NoMethod, z |-> 0, n_lcch |-> 0, mcch |-> <<>>,
          pgstate |-> "ONEPG", listchar |-> FALSE, selspot |-> FALSE,
          composed |-> FALSE, size |-> 0, maxlen |-> 0, gsize |-> 0, galloc |-> 0]
NoCall == [who |-> NoIC, ret |-> {}, got |-> 0, used |-> FALSE]

(* What a handler works on, and what it changed. *)
Joined(p, q) ==
    [f \in DOMAIN p \cup DOMAIN q |-> IF f \in DOMAIN p THEN p[f] ELSE q[f]]
World(i) == Joined(inp[i], [bc |-> bc[i], ret |-> {}, got |-> 0, used |-> FALSE])
InpOf(s) == [f \in DOMAIN NoInp |-> s[f]]
Answer(s, flags) == [s EXCEPT !.ret = flags]
Uses(s) == [s EXCEPT !.used = TRUE]
On(s, flag) == flag \in Mode(s.cf)
Then(results, Op(_)) == UNION {Op(s) : s \in results}
AbsorbIfText(s) == Answer(s, IF s.n_lcch > 0 THEN {} ELSE {"IGNORE"})

-----------------------------------------------------------------------------
(* bims, as the module uses it. *)

(* bimsFeedKey(): a key is refused, changes the syllable, or completes it. *)
(* COMMIT says that the text has outgrown its maximum.                     *)
Compose(b) ==
    {[bc |-> [b EXCEPT !.text = @ + 1, !.zhuyin = 0],
      val |-> IF b.text + 1 > b.maxlen THEN "COMMIT" ELSE "ABSORB"]}
Feed(b, key) ==
    LET ignored   == [bc |-> b, val |-> "IGNORE"]
        absorbed  == [bc |-> b, val |-> "ABSORB"]
        symbol(n) == [bc |-> [b EXCEPT !.zhuyin = n], val |-> "ABSORB"]
    IN  CASE key \in {"char", "space"} \cup Range(Selkey) ->
               {ignored}
                 \cup (IF b.zhuyin < MaxZhuyin THEN {symbol(b.zhuyin + 1)} ELSE {})
                 \cup (IF b.zhuyin > 0 THEN Compose(b) ELSE {})
          [] key = "BackSpace" ->
               IF b.zhuyin > 0 THEN {symbol(b.zhuyin - 1)}
               ELSE IF b.text > 0
                 THEN {[bc |-> [b EXCEPT !.text = @ - 1], val |-> "ABSORB"]}
                 ELSE {ignored}
          [] key = "Escape" -> IF b.zhuyin > 0 THEN {symbol(0)} ELSE {ignored}
          [] OTHER -> IF b.text > 0 THEN {absorbed} ELSE {ignored}

(* bimsToggleZhiSelection(), bimsToggleTsiSelection(): the lists they make *)
(* start at base 0.  Without text there is nothing to select from; a phrase *)
(* may always be missing.                                                   *)
ToSelection(s, state, lists) ==
    {[ok |-> TRUE, s |-> [s EXCEPT !.bc.state = state, !.bc.cands = l,
                                   !.bc.base = 0]] : l \in lists}
ToggleZhi(s) ==
    (IF s.bc.text > 0 THEN ToSelection(s, "ZHI", ZhiLists) ELSE {})
      \cup (IF s.bc.text = 0 \/ s.bc.zhuyin > 0 THEN {[ok |-> FALSE, s |-> s]}
            ELSE {})
ToggleTsi(s) ==
    (IF s.bc.text > 0 THEN ToSelection(Uses(s), "TSI", TsiLists) ELSE {})
      \cup {[ok |-> FALSE, s |-> Uses(s)]}

(* bimsPindownByNumber() puts the candidate in place of as much text;      *)
(* bimsToggleEditing()                                                     *)
Pindown(s) == Uses(s)
BackToEditing(s) ==
    [s EXCEPT !.bc.state = "EDITING", !.bc.cands = <<>>, !.bc.base = 0]

(* commit_string(): bimsFetchText() takes n characters off the text, fewer *)
(* where n would part a phrase.                                            *)
CommitString(s, n) ==
    {[Uses(s) EXCEPT !.bc.text = @ - k, !.got = k]
       : k \in IF n >= s.bc.text THEN {s.bc.text} ELSE 1 .. n}

-----------------------------------------------------------------------------
\* Faulty: a smaller window gets a smaller buffer.
WinSizeExact(s) ==
    [s EXCEPT !.maxlen = winsize - 1, !.bc.maxlen = winsize - 1,
              !.size = winsize + 1]

(* check_winsize(): a larger window gets a new buffer, and what was in the *)
(* old one is not copied.  The buffer never shrinks.                       *)
CheckWinsize(s) ==
    LET other == s.size # winsize
    IN  [s EXCEPT !.maxlen = IF other THEN winsize - 1 ELSE @,
                  !.bc.maxlen = IF other THEN winsize - 1 ELSE @,
                  !.size = IF @ <= winsize THEN winsize + 1 ELSE @]

(* editing_status(): the syllable and the text as bims has them now, and   *)
(* the n phrases of the text, seg[0] of bimsQueryYinSeg().                 *)
\* Faulty: the syllable is not looked at.
StatusWithoutSyllable(s) ==
    LET t    == s.bc.text
        z    == IF Rc[s.cf].pinyin THEN s.z ELSE s.bc.zhuyin
        grow == t >= s.size
        size == IF grow THEN t + 1 ELSE s.size
        with(n) == [s EXCEPT !.z = z, !.n_lcch = t, !.size = size,
                      !.composed = t > 0,
                      !.gsize = IF @ <= n THEN n + 1 ELSE @,
                      !.galloc = IF s.gsize <= n THEN size ELSE @]
    IN  IF ~On(s, "AUTOSEL") THEN {[s EXCEPT !.z = z]}
        ELSE {with(n) : n \in IF t = 0 THEN {0} ELSE 1 .. t}
EditingStatus(s) ==
    LET t    == s.bc.text
        z    == IF Rc[s.cf].pinyin THEN s.z ELSE s.bc.zhuyin
        grow == t >= s.size
        size == IF grow THEN t + 1 ELSE s.size
        with(n) == [s EXCEPT !.z = z, !.n_lcch = t, !.size = size,
                      !.composed = (z = 0 /\ t > 0),
                      !.gsize = IF @ <= n THEN n + 1 ELSE @,
                      !.galloc = IF s.gsize <= n THEN size ELSE @]
    IN  IF ~On(s, "AUTOSEL") THEN {[s EXCEPT !.z = z]}
        ELSE {with(n) : n \in IF t = 0 THEN {0} ELSE 1 .. t}

CommitAll(s, flags) ==
    {Answer(t, flags) : t \in Then(CommitString(s, s.n_lcch), EditingStatus)}

-----------------------------------------------------------------------------
(* determine_selection(): how many candidates fit on a page. *)
Fits(s, list) ==
    IF s.bc.state = "ZHI" THEN Len(Selkey)
    ELSE Cardinality({j \in 1 .. Least(NSelphr(s.cf), Len(list)) :
                        Len(Flat(SubSeq(list, 1, j))) < MCCH_BUFSIZE})
From(s, base) == SubSeq(s.bc.cands, base + 1, Len(s.bc.cands))
Before(s, base) == Reverse(SubSeq(s.bc.cands, 1, base))

TurnTo(s, dir) ==
    LET num  == Len(s.bc.cands)
        base == s.bc.base
        cp   == Fits(s, From(s, base))
        lp   == Fits(s, Before(s, base))
        rest == num % cp
    IN  IF dir = -1
          THEN IF base - lp >= 0 THEN base - lp
               ELSE IF s.pgstate = "BEGIN" /\ s.bc.state = "ZHI"
                      THEN num - (IF rest = 0 THEN cp ELSE rest)
                      ELSE base
        ELSE IF dir = 1
          THEN IF base + cp < num THEN base + cp
               ELSE IF s.pgstate = "END" THEN 0 ELSE base
        ELSE base

PageOf(s, list) == SubSeq(list, 1, Least(Fits(s, list), Len(list)))
PgState(base, more) ==
    IF base > 0 THEN IF more THEN "MIDDLE" ELSE "END"
    ELSE IF more THEN "BEGIN" ELSE "ONEPG"
MoreBehind(s, base) == base + Fits(s, From(s, s.bc.base)) < Len(s.bc.cands)

\* Faulty: bims is not told of the new base.
PageWithoutBase(s, dir) ==
    LET at(base) == [s EXCEPT !.mcch = PageOf(s, From(s, base)), !.composed = FALSE,
                              !.pgstate = PgState(base, MoreBehind(s, base))]
    IN  at(TurnTo(s, dir))
ShowPage(s, dir) ==
    LET at(base) == [s EXCEPT !.bc.base = base,
                              !.mcch = PageOf(s, From(s, base)), !.composed = FALSE,
                              !.pgstate = PgState(base, MoreBehind(s, base))]
    IN  at(TurnTo(s, dir))

(* Its result: 0 leaves the selection, n > 0 picks candidate n, and -1     *)
(* stays in it.                                                            *)
DetermineSelection(s, key) ==
    LET base == s.bc.base
        cp   == Fits(s, From(s, base))
        picks == {k \in DOMAIN Selkey : /\ Selkey[k] = key
                                        /\ k <= cp
                                        /\ base + k <= Len(s.bc.cands)}
        dir == IF key \in {"space", "Next"} THEN 1 ELSE IF key = "Prev" THEN -1 ELSE 0
        turn == key \in {"space", "Next", "Prev", "nokey"}
    IN  IF key = "Escape" THEN [r |-> 0, s |-> s]
        ELSE IF key \in {"OffPage", "BackSpace"} THEN [r |-> -1, s |-> s]
        ELSE IF ~turn /\ picks # {}
          THEN [r |-> base + CHOOSE k \in picks : TRUE, s |-> s]
        ELSE IF ~turn /\ On(s, "AUTOUPCH") THEN [r |-> base + 1, s |-> s]
        ELSE [r |-> -1, s |-> ShowPage(s, dir)]

-----------------------------------------------------------------------------
\* Faulty: the text is fetched, and the answer does not say so.
CommitUnsaid(s, flags) ==
    IF flags \in {{}, {"IGNORE"}} \/ s.n_lcch = 0 THEN {Answer(s, flags)}
    ELSE CommitAll(s, flags)

(* modifier_escape(), check_qphr_fallback(): text that is still being      *)
(* edited is committed before the key takes effect elsewhere.              *)
CommitBefore(s, flags) ==
    IF flags \in {{}, {"IGNORE"}} \/ s.n_lcch = 0 THEN {Answer(s, flags)}
    ELSE CommitAll(s, flags \cup {"COMMIT"})

Escapes(mods) == mods \cap {"ctrl", "alt", "shift", "lock"} # {}
ModifierEscape(s, key, mods) ==
    LET esc == Rc[s.cf].esc
        busy == s.n_lcch > 0
        one == key \in OneChar
        first == IF "ctrl" \in mods
                   THEN IF "ctrl" \in esc THEN {"CTRLPHR"}
                        ELSE IF busy THEN {} ELSE {"IGNORE"}
                 ELSE IF "alt" \in mods
                   THEN IF "alt" \in esc THEN {"ALTPHR"}
                        ELSE IF busy THEN {} ELSE {"IGNORE"}
                 ELSE IF "shift" \in mods
                   THEN IF "shift" \in esc THEN {"SHIFTPHR", "SHIFTESC"}
                        ELSE IF busy THEN {}
                        ELSE IF one THEN {"SHIFTESC"} ELSE {"IGNORE"}
                 ELSE {}
        lock == IF "lock" \notin mods THEN {}
                ELSE IF mods \cap {"ctrl", "alt"} = {} /\ one /\ s.listchar
                  THEN {"SHIFTESC"} ELSE {"IGNORE"}
    IN  CommitBefore(s, first \cup lock)

QphrFallback(s, key) ==
    LET flags == IF "fallback" \in Rc[s.cf].esc /\ key \in OneChar /\ s.listchar
                   THEN {"FALLBACKPHR"}
                 ELSE IF s.n_lcch > 0 THEN {} ELSE {"IGNORE"}
    IN  CommitBefore(s, flags)

-----------------------------------------------------------------------------
(* pinyin_keystroke(): outcomes with rval, the answer of bims, or with     *)
(* rval2, which is final.  A tone feeds the whole syllable to bims; what   *)
(* bims does not take stays in its syllable.                               *)
PinyinKeystroke(s, key) ==
    LET final(t, flags) == [final |-> TRUE, rval |-> "IGNORE", s |-> Answer(t, flags)]
        plain(t, val)   == [final |-> FALSE, rval |-> val, s |-> t]
        fed(t) == {plain([Uses(t) EXCEPT !.bc = f.bc], f.val) : f \in Feed(t.bc, key)}
        syllable(b) == {[bc |-> [b EXCEPT !.zhuyin = MaxZhuyin], val |-> "ABSORB"]}
                         \cup Compose(b)
    IN  CASE key = "BackSpace" ->
               IF s.z > 0 THEN {final([s EXCEPT !.z = @ - 1], {})} ELSE fed(s)
          [] key = "Escape" -> {final([s EXCEPT !.z = 0], {})}
          [] key \notin OneChar -> fed(s)
          [] key \in {"space"} \cup Range(Selkey) /\ s.z > 0 ->
               {final(s, {"BELL"})}
                 \cup {LET t == [Uses(s) EXCEPT !.bc = f.bc]
                       IN  IF f.bc.zhuyin > 0 THEN final(t, {"BELL"})
                           ELSE plain([t EXCEPT !.z = 0, !.composed = TRUE], f.val)
                         : f \in syllable(s.bc)}
          [] key = "char" ->
               {IF s.z >= N_MAX_KEYCODE_PINYIN
                  THEN final([s EXCEPT !.composed = FALSE], {"BELL"})
                  ELSE final([s EXCEPT !.composed = FALSE, !.z = @ + 1], {})}
          [] OTHER -> {plain(s, "IGNORE")}

(* enter_selection() *)
EnterSelection(s) ==
    IF ~On(s, "PHRASESEL") THEN ToggleZhi(s)
    ELSE LET tsi == IF s.bc.state = "TSI" THEN {[ok |-> FALSE, s |-> s]}
                    ELSE ToggleTsi(s)
         IN  UNION {IF t.ok THEN {t} ELSE ToggleZhi(t.s) : t \in tsi}

(* The end of bims_keystroke(), by the state bims is in then. *)
LeaveSelection(d) ==
    EditingStatus([BackToEditing(IF d.r > 0 THEN Pindown(d.s) ELSE d.s)
                     EXCEPT !.mcch = <<>>])

InSelection(s, key, mods) ==
    LET by(d) == IF d.r = -1 THEN {d.s}
                 ELSE {[t EXCEPT !.listchar = TRUE, !.selspot = FALSE]
                         : t \in LeaveSelection(d)}
    IN  IF mods \cap {"ctrl", "alt"} # {} THEN {[s EXCEPT !.selspot = TRUE]}
        ELSE by(DetermineSelection([s EXCEPT !.selspot = TRUE], key))

InEditing(s0, key, mods) ==
    LET s == [s0 EXCEPT !.selspot = FALSE]
        clear == [s EXCEPT !.mcch = <<>>]
        answers == IF Rc[s.cf].pinyin THEN PinyinKeystroke(clear, key)
                   ELSE {[final |-> FALSE, rval |-> f.val,
                          s |-> [Uses(clear) EXCEPT !.bc = f.bc]] : f \in Feed(s.bc, key)}
        done(a) ==
            CASE a.final -> {a.s}
              [] ~a.final /\ a.rval = "COMMIT" ->
                   {Answer(t, {"COMMIT"}) :
                      t \in Then(CommitString(a.s, a.s.maxlen), EditingStatus)}
              [] ~a.final /\ a.rval = "ABSORB" -> EditingStatus(a.s)
              [] OTHER -> QphrFallback(a.s, key)
    IN  IF Escapes(mods) THEN ModifierEscape(s, key, mods)
        ELSE UNION {done(a) : a \in answers}

ByState(s, key, mods) ==
    IF s.bc.state = "EDITING" THEN InEditing(s, key, mods) ELSE InSelection(s, key, mods)

(* Up, Down and the space key open the selection, if bims has one. *)
Opens(s, toggles, mods) ==
    UNION {IF t.ok THEN ByState([t.s EXCEPT !.listchar = FALSE], "nokey", mods)
           ELSE {AbsorbIfText(t.s)} : t \in toggles}

(* bims_keystroke(): the keystroke of the auto-selecting methods. *)
BimsKey(s, key, mods) ==
    LET own   == key \in {"Up", "Down", "Return", "space"}
        ready == key = "space" /\ s.composed
        opens == key \in {"Up", "Down"} \/ (ready /\ On(s, "SPACESEL"))
        all   == \/ key = "Return" /\ s.listchar /\ s.n_lcch > 0
                 \/ ready /\ ~On(s, "SPACESEL") /\ s.listchar
    IN  IF own /\ "lock" \in mods THEN {Answer(s, {"IGNORE"})}
        ELSE IF opens
          THEN Opens(s, IF key = "Down" THEN ToggleZhi(s) ELSE EnterSelection(s), mods)
        ELSE IF all THEN CommitAll(s, {"COMMIT"})
        ELSE IF key = "Return" /\ ~s.listchar THEN {s}
        ELSE IF \/ key = "Return"
                \/ key = "space" /\ ~s.composed /\ s.n_lcch = 0 /\ s.z = 0
          THEN {Answer(s, {"IGNORE"})}
        ELSE ByState(s, key, mods)

BimsKeystroke(s, key, mods) == BimsKey(CheckWinsize(s), key, mods)

-----------------------------------------------------------------------------
(* simple_keystroke(): zhuyin without automatic selection.  The context of *)
(* bims is thrown away with every character.                               *)
FreeBC(s) == [s EXCEPT !.bc = NewBC]
SimpleEditing(s0, key, mods) ==
    LET s == [s0 EXCEPT !.selspot = FALSE]
        offered(t) ==
            LET d == ShowPage([t EXCEPT !.z = MaxZhuyin], 0)
            IN  IF Len(d.mcch) = 1
                  THEN {Answer([FreeBC(e) EXCEPT !.got = 1], {"COMMIT"})
                          : e \in EditingStatus([d EXCEPT !.mcch = <<>>])}
                  ELSE {[d EXCEPT !.selspot = TRUE]}
        done(f) ==
            LET t == [Uses(s) EXCEPT !.mcch = <<>>, !.bc = f.bc]
            IN  UNION {IF z.ok THEN offered(z.s)
                       ELSE IF f.val = "IGNORE" THEN QphrFallback(z.s, key)
                       ELSE EditingStatus(z.s) : z \in ToggleZhi(t)}
    IN  IF Escapes(mods) THEN ModifierEscape(s, key, mods)
        ELSE UNION {done(f) : f \in Feed(s.bc, key)}

SimpleSelection(s, key, mods) ==
    LET left(d) == {[FreeBC(t) EXCEPT !.selspot = FALSE]
                      : t \in EditingStatus([d.s EXCEPT !.mcch = <<>>])}
        taken(t) == Answer([t EXCEPT !.got = 1], {"COMMIT"})
        again(t, pick) ==
            IF key = Selkey[((pick - 1) % Len(Selkey)) + 1] THEN {t}
            ELSE UNION {EditingStatus([Uses(t) EXCEPT !.bc = f.bc])
                          : f \in Feed(t.bc, key)}
        by(d) == IF d.r = -1 THEN {d.s}
                 ELSE IF d.r = 0 THEN left(d)
                 ELSE UNION {again(taken(t), d.r) : t \in left(d)}
    IN  IF mods \cap {"ctrl", "alt"} # {} THEN {[s EXCEPT !.selspot = TRUE]}
        ELSE by(DetermineSelection([s EXCEPT !.selspot = TRUE], key))

SimpleKeystroke(s, key, mods) ==
    IF s.z = 0 /\ key \in {"Return", "space"} THEN {Answer(s, {"IGNORE"})}
    ELSE IF s.bc.state = "EDITING" THEN SimpleEditing(s, key, mods)
    ELSE SimpleSelection(s, key, mods)

(* phone_keystroke() *)
Keystroke(s, key, mods) ==
    IF On(s, "AUTOSEL") THEN BimsKeystroke(s, key, mods) ELSE SimpleKeystroke(s, key, mods)

-----------------------------------------------------------------------------
Init ==
    /\ loaded = [m \in Methods |-> "unread"]
    /\ dp = [k \in {"zhuyin", "pinyin"} |-> NoPool]
    /\ cdp = NoPool
    /\ noauto = FALSE
    /\ winsize \in WinSizes
    /\ inp = [i \in IC |-> NoInp]
    /\ bc = [i \in IC |-> NewBC]
    /\ call = NoCall

(* phone_init(), run when IM_get() first needs the method: one of each     *)
(* kind.  When the data files cannot be opened bimsInit() returns NULL,    *)
(* and that is what cdp is then.                                           *)
PhoneInit(m, opens) ==
    LET taken == IF Autosel(m) THEN dp[Kind(m)] # NoPool ELSE noauto
        good  == ~taken /\ (opens \/ ~Autosel(m))
    IN  /\ loaded[m] = "unread"
        /\ loaded' = [loaded EXCEPT ![m] = IF good THEN "loaded" ELSE "refused"]
        /\ noauto' = (noauto \/ ~Autosel(m))
        /\ cdp' = IF taken \/ ~Autosel(m) THEN cdp ELSE IF opens THEN m ELSE NoPool
        /\ dp' = IF good /\ Autosel(m) THEN [dp EXCEPT ![Kind(m)] = m] ELSE dp
        /\ call' = NoCall
        /\ UNCHANGED <<winsize, inp, bc>>

(* phone_xim_init(): the pool of the method becomes the one everybody uses. *)
XimInit(i, m) ==
    LET fresh == [NoInp EXCEPT !.cf = m, !.listchar = Autosel(m)]
        sized == CheckWinsize(Joined(fresh, [bc |-> bc[i]]))
        s == IF Autosel(m) THEN [sized EXCEPT !.gsize = sized.size + 1, !.galloc = sized.size + 1]
             ELSE Joined(fresh, [bc |-> bc[i]])
    IN  /\ inp[i].cf = NoMethod
        /\ loaded[m] = "loaded"
        /\ cdp' = IF Autosel(m) THEN dp[Kind(m)] ELSE cdp
        /\ inp' = [inp EXCEPT ![i] = InpOf(s)]
        /\ bc' = [bc EXCEPT ![i] = s.bc]
        /\ call' = NoCall
        /\ UNCHANGED <<loaded, dp, noauto, winsize>>

Finish(i, s) ==
    /\ inp' = [inp EXCEPT ![i] = InpOf(s)]
    /\ bc' = [bc EXCEPT ![i] = s.bc]
    /\ call' = [who |-> i, ret |-> s.ret, got |-> s.got, used |-> s.used]
    /\ UNCHANGED <<loaded, dp, cdp, noauto, winsize>>

(* phone_xim_end() *)
XimEnd(i) ==
    LET busy == inp[i].n_lcch > 0
    IN  /\ inp[i].cf # NoMethod
        /\ \E s \in IF busy THEN CommitString(World(i), inp[i].n_lcch) ELSE {World(i)} :
              Finish(i, Joined(NoInp, [bc |-> NewBC, got |-> s.got, used |-> s.used,
                                       ret |-> IF busy THEN {"COMMIT"} ELSE {}]))

PhoneKeystroke(i, key, mods) ==
    /\ inp[i].cf # NoMethod
    /\ \E s \in Keystroke(World(i), key, mods) : Finish(i, s)

(* phone_show_keystroke(), for the display of the other method. *)
PhoneShowKeystroke(i) ==
    /\ inp[i].cf # NoMethod
    /\ Finish(i, Uses(World(i)))

(* The user resizes the main window. *)
Resize ==
    /\ winsize' \in WinSizes \ {winsize}
    /\ call' = NoCall
    /\ UNCHANGED <<loaded, dp, cdp, noauto, inp, bc>>

Next ==
    \/ \E m \in Methods, opens \in BOOLEAN : PhoneInit(m, opens)
    \/ \E i \in IC :
        \/ \E m \in Methods : XimInit(i, m)
        \/ XimEnd(i)
        \/ \E t \in Typed : PhoneKeystroke(i, t[1], t[2])
        \/ PhoneShowKeystroke(i)
    \/ Resize

Spec == Init /\ [][Next]_vars

-----------------------------------------------------------------------------
(* The shape of the state. *)
TypeOK ==
    /\ loaded \in [Methods -> {"unread", "loaded", "refused"}]
    /\ dp \in [{"zhuyin", "pinyin"} -> Methods \cup {NoPool}]
    /\ cdp \in Methods \cup {NoPool}
    /\ noauto \in BOOLEAN
    /\ winsize \in WinSizes
    /\ \A i \in IC :
        /\ inp[i].cf \in Methods \cup {NoMethod}
        /\ inp[i].z \in 0 .. (MaxZhuyin + N_MAX_KEYCODE_PINYIN)
        /\ inp[i].pgstate \in {"ONEPG", "BEGIN", "MIDDLE", "END"}
        /\ bc[i].state \in {"EDITING", "ZHI", "TSI"}
        /\ bc[i].zhuyin \in 0 .. MaxZhuyin
        /\ bc[i].base \in Nat
    /\ call.ret \subseteq {"COMMIT", "IGNORE", "BELL", "SHIFTESC", "SHIFTPHR",
                           "CTRLPHR", "ALTPHR", "FALLBACKPHR"}

User(i) == inp[i].cf # NoMethod
AutoIC(i) == User(i) /\ Autosel(inp[i].cf)
Selecting(i) == bc[i].state # "EDITING"

(* The list of composed characters is hidden exactly while bims waits for  *)
(* a choice: guimode of the context and the state of bims, which the code  *)
(* keeps apart, never disagree, whatever key ends or refuses a selection.  *)
(* Without automatic selection it is the mark of the selection keys.       *)
WindowFollowsBims ==
    \A i \in IC : /\ AutoIC(i) => (inp[i].listchar <=> ~Selecting(i))
                  /\ User(i) /\ ~AutoIC(i) => (inp[i].selspot <=> Selecting(i))

(* The page state says whether there is more behind the page. *)
EndTold(s) ==
    s.pgstate \in {"ONEPG", "END"} <=> s.bc.base + Len(s.mcch) = Len(s.bc.cands)

(* The phrases are so short that n_selphr of them always fit. *)
EvenPages(s) ==
    LET num == Len(s.bc.cands)
    IN  s.bc.state = "TSI" =>
            \A b \in 0 .. num :
                /\ Fits(s, From(s, b)) = Least(NSelphr(s.cf), num - b)
                /\ Fits(s, Before(s, b)) = Least(NSelphr(s.cf), b)

(* What the window offers is the part of the candidates that begins where  *)
(* bims is told the page begins, so that the key of a candidate picks this *)
(* one, and the page state says truly whether there is more before it and, *)
(* where all pages have room for as many phrases, behind it.               *)
PageIsSlice ==
    \A i \in IC : User(i) /\ Selecting(i) =>
        LET p == inp[i].mcch
            b == bc[i]
        IN  /\ p # <<>>
            /\ b.base + Len(p) <= Len(b.cands)
            /\ p = SubSeq(b.cands, b.base + 1, b.base + Len(p))
            /\ (inp[i].pgstate \in {"ONEPG", "BEGIN"}) <=> b.base = 0
            /\ EvenPages(World(i)) => EndTold(World(i))

(* The page state says of every page whether there is more behind it.      *)
(* Violated where the pages are not even: the state of the new page is     *)
(* computed with the number of phrases that fitted on the old one.         *)
EndAlwaysTold == \A i \in IC : User(i) /\ Selecting(i) => EndTold(World(i))

(* Every call that says COMMIT hands over text, and text that bims has     *)
(* given up is handed over by a call that says COMMIT.                     *)
CommitAnswers == "COMMIT" \in call.ret <=> call.got > 0

(* The copy of the text has the length bims has, so that committing n_lcch *)
(* characters leaves none behind, and no text is edited behind a context   *)
(* that selects character by character.                                    *)
CopyHasLength ==
    \A i \in IC : User(i) =>
        IF AutoIC(i) THEN inp[i].n_lcch = bc[i].text
        ELSE ~Selecting(i) => bc[i].text = 0

(* Both buffers, made and grown in three places, hold what is written: the *)
(* characters with an end mark, and one length for each phrase before the  *)
(* count.  lcchg_size never claims more than was allocated.                *)
BuffersFit ==
    \A i \in IC : AutoIC(i) =>
        /\ inp[i].n_lcch < inp[i].size
        /\ inp[i].gsize <= inp[i].galloc

(* The space key commits, or opens the selection, exactly when there is    *)
(* text and no syllable under way; with pinyin an erased syllable leaves   *)
(* the mark off.                                                           *)
ComposedHonest ==
    \A i \in IC : AutoIC(i) /\ ~Selecting(i) =>
        LET ready == inp[i].z = 0 /\ inp[i].n_lcch > 0
        IN  /\ inp[i].composed => ready
            /\ ready /\ ~Rc[inp[i].cf].pinyin => inp[i].composed

(* What the context and its window have copied of bims is what bims has:   *)
(* over any keys, refused ones, selections and commits.                    *)
ContextMirrorsBims == WindowFollowsBims /\ CopyHasLength /\ ComposedHonest

(* doc/En/internal/module.En: xim_init() sets up one IC.  What is typed in *)
(* a context is looked up in the data of its own method.  Violated: cdp is *)
(* one variable for all contexts.                                          *)
OwnPool ==
    \A i \in IC : call.who = i /\ call.used /\ AutoIC(i) => cdp = inp[i].cf
=============================================================================
