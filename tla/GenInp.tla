------------------------------- MODULE GenInp -------------------------------
(***************************************************************************)
(* The table driven input method, src/src/Cinput/gen_inp/gen_inp.c, built  *)
(* without libtabe: gen_inp_keystroke() over the state it keeps per input  *)
(* context (inpinfo and iccf) and over the buffers that are static in the  *)
(* C functions, so that all contexts share them.                           *)
(*                                                                         *)
(* A candidate is the sequence of its characters: one for a character,     *)
(* more for a phrase (tsi).  The table is sorted by keystroke, as cin2tab  *)
(* writes it; a key code is the position of the key in KeyOrder.           *)
(***************************************************************************)
EXTENDS Wildcard, FiniteSets, SequencesExt, Functions, TLC

CONSTANTS
    IC,            \* the input contexts that use this input method
    RcFiles,       \* the options of rcfiles: <<gen_inp_default's, the method's own>>
    Table,         \* <<[ks |-> keystroke, zi |-> candidate], ...>>, sorted
    KeyOrder,      \* the keys that have a key code, in the order of the codes
    Keyname,       \* the keys of the table (header.keyname)
    Selkey,        \* header.selkey
    Endkey,        \* header.endkey
    n_max_keystroke,
    Kremap,        \* KEYSTROKE_REMAP: <<[ks |-> , zi |-> character], ...>>
    DisableSel,    \* DISABLE_SEL_LIST
    CtrlPhrase,    \* QPHRASE_MODE has QPHR_CTRL
    TypedKey,      \* the keys the user may type
    Keyboard(_, _), \* bound: those typed in a context under cf->mode, {} if none
    MaxTyped       \* bound: how long a keystroke may get

AllModes == {"AUTOCOMPOSE", "AUTOUPCHAR", "SPACEAUTOUP", "SELKEYSHIFT",
             "AUTOFULLUP", "SPACEIGNOR", "AUTORESET", "SPACERESET", "WILDON",
             "ENDKEY", "TABNEXTPAGE"}

(* Junk stands for a text that is nothing the user could have asked for:   *)
(* pieces of several candidates, or memory outside the buffers.            *)
Junk == <<"junk">>
NoText == [ks |-> <<>>, text |-> <<>>, suggest |-> <<>>, tsi |-> FALSE]

(* The keys of a keystroke, the characters of a text. *)
Key  == Range(KeyOrder) \cup TypedKey
Char == UNION {Range(Table[k].zi) : k \in DOMAIN Table}

ASSUME ConstantsOK ==
    /\ \A rc \in RcFiles : \A n \in {1, 2} : rc[n].on \cup rc[n].off \subseteq AllModes
    /\ n_max_keystroke \in Nat \ {0}
    /\ MaxTyped \in Nat
    /\ Selkey \in Seq(Range(Selkey)) \ {<<>>}
    /\ KeyOrder \in Seq(Range(KeyOrder))
    /\ Table \in Seq([ks : Seq(Range(KeyOrder)), zi : Seq(Char) \ {<<>>}])
    /\ Kremap \in Seq(Range(Kremap))

VARIABLES
    cfmode,    \* cf->mode, set by gen_inp_init()
    inp,       \* inpinfo and iccf of each context
    static,    \* mcch_grouping_buf and the mcch_grouping of fillpage()
    ret,       \* the flags gen_inp_keystroke() returned last
    cch,       \* the text it assembled, and for which keystroke; NoText if none
    commits,   \* history: how many texts it assembled in that call
    filled     \* history: the context that changed a shared buffer last, if any

vars == <<cfmode, inp, static, ret, cch, commits, filled>>

Flat(page) == FlattenSeq(page)
Least(a, b) == IF a < b THEN a ELSE b
HasTsi(cands) == \E k \in DOMAIN cands : Len(cands[k]) > 1
Lengths(cands) == [k \in DOMAIN cands |-> Len(cands[k])]

(* all_index[k]: 0 beyond the candidates, the array is cleared by a match. *)
AllIndex(cands, k) ==
    IF k < Len(cands) THEN Len(Flat(SubSeq(cands, 1, k))) ELSE 0

(* The members of a sequence that are in a set, in their order: a search   *)
(* that goes through the table from one end.  (SelectSeq, written out.)    *)
Kept(seq, S) ==
    LET kept[n \in 0 .. Len(seq)] ==
          IF n = 0 THEN <<>>
          ELSE IF seq[n] \in S THEN Append(kept[n - 1], seq[n]) ELSE kept[n - 1]
    IN  kept[Len(seq)]

(* The places of the table, counted from 0 as in the code, those that have *)
(* exactly a keystroke, those that match one with wild cards, and the      *)
(* candidates that stand at some of them.                                  *)
Entry(p)    == Table[p + 1]
Places      == [k \in DOMAIN Table |-> k - 1]
Exact(ks)   == {p \in 0 .. Len(Table) - 1 : Entry(p).ks = ks}
Spelt(ks)   == {p \in 0 .. Len(Table) - 1 : WildMatch(ks, Entry(p).ks)}
Zis(places) == [k \in DOMAIN places |-> Entry(places[k]).zi]

-----------------------------------------------------------------------------
(* gen_inp_resource(): an option that a section of the rcfile names is     *)
(* switched on or off, the others stay.                                    *)
Resource(mode, section) == (mode \cup section.on) \ section.off

(* gen_inp_init() reads "gen_inp_default" and then the method's own        *)
(* section; some flags only count together with others.                    *)
AskedFor(rc) == Resource(Resource({}, rc[1]), rc[2])
EffectiveMode(rc) ==
    (rc \cap {"AUTOCOMPOSE", "AUTOUPCHAR", "AUTOFULLUP", "AUTORESET", "WILDON",
              "TABNEXTPAGE"})
      \cup (IF "AUTOUPCHAR" \in rc
              THEN rc \cap {"SPACEAUTOUP", "SELKEYSHIFT"} ELSE {})
      \cup (IF "AUTOFULLUP" \in rc THEN rc \cap {"SPACEIGNOR"} ELSE {})
      \cup (IF "AUTORESET" \in rc THEN {} ELSE rc \cap {"SPACERESET"})
      \cup (IF Endkey # {} THEN rc \cap {"ENDKEY"} ELSE {})

On(flag) == flag \in cfmode

(* inpinfo->n_selkey *)
NSelkey == Len(Selkey) + (IF On("SELKEYSHIFT") THEN 1 ELSE 0)

(* gen_inp_xim_init().  grouping says which array mcch_grouping points to. *)
FreshIC ==
    [keystroke |-> <<>>, mode |-> {}, spot |-> FALSE,
     mcch |-> <<>>, grouping |-> "none", pgstate |-> "ONEPG",
     all |-> <<>>, hidx |-> 0, eidx |-> 0, mkeys |-> <<>>, has_tsi |-> FALSE]

(* What a handler works on: one context, the shared buffers, and the texts *)
(* it assembles.                                                           *)
World(i) ==
    LET c == inp[i]
    IN  [keystroke |-> c.keystroke, mode |-> c.mode, spot |-> c.spot,
         mcch |-> c.mcch, grouping |-> c.grouping, pgstate |-> c.pgstate,
         all |-> c.all, hidx |-> c.hidx, eidx |-> c.eidx, mkeys |-> c.mkeys,
         has_tsi |-> c.has_tsi, normal |-> static.normal, wild |-> static.wild,
         cch |-> NoText, commits |-> 0]

-----------------------------------------------------------------------------
(* reset_keystroke(): neither guimode nor has_tsi nor mcch_hidx. *)
Reset(s) ==
    [s EXCEPT !.keystroke = <<>>, !.mcch = <<>>, !.mode = {},
              !.pgstate = "ONEPG", !.mkeys = <<>>]

(* match_keystroke_normal(): every entry with exactly this keystroke, one  *)
(* page of them shown.  mcch_hidx is set only if there are more.           *)
MatchNormal(s) ==
    LET all  == Zis(Kept(Places, Exact(s.keystroke)))
        page == SubSeq(all, 1, Least(NSelkey, Len(all)))
        more == Len(all) > Len(page)
    IN  IF all = <<>> THEN [s EXCEPT !.normal = <<>>]
        ELSE [s EXCEPT
                !.all = all, !.has_tsi = HasTsi(all), !.mcch = page,
                !.normal = IF HasTsi(all) THEN Lengths(page) ELSE <<>>,
                !.grouping = IF HasTsi(all) THEN "normal" ELSE "none",
                !.pgstate = IF more THEN "BEGIN" ELSE "ONEPG",
                !.hidx = IF more THEN 0 ELSE @]

(* cmp_icvalue(): keystrokes are ordered by the codes of their keys. *)
Before(s, t) ==
    LET code(k) == CHOOSE c \in DOMAIN KeyOrder : KeyOrder[c] = k
    IN  \E n \in 0 .. Len(s) :
            /\ n < Len(t)
            /\ SubSeq(s, 1, n) = SubSeq(t, 1, n)
            /\ n = Len(s) \/ code(s[n + 1]) < code(t[n + 1])

(* bsearch_char() in a sorted table: the first place whose keystroke does  *)
(* not sort before the one looked for, the place behind the table if none. *)
LowerBound(prefix) ==
    CHOOSE p \in 0 .. Len(Table) :
        /\ \A h \in 0 .. p - 1 : Before(Entry(h).ks, prefix)
        /\ p < Len(Table) => ~Before(Entry(p).ks, prefix)

(* The places in the table, from head on, that a wild card keystroke hits. *)
Hits(s, head, dir) ==
    IF dir = 1 THEN Kept(Places, {p \in Spelt(s.keystroke) : p >= head})
    ELSE Kept(Reverse(Places), {p \in Spelt(s.keystroke) : p <= head})

Picked(idxs, head, more) ==
    [idxs |-> idxs, more |-> more, cands |-> Zis(idxs),
     last |-> IF idxs = <<>> THEN head ELSE idxs[Len(idxs)]]

\* Faulty: a full page stops the search, so that nothing tells of the rest.
PickStopsWhenFull(s, head, dir) ==
    LET page(run) == SubSeq(run, 1, Least(NSelkey, Len(run)))
    IN  Picked(page(Hits(s, head, dir)), head, FALSE)

(* pick_cch_wild(): from table position head on, upwards or downwards, a   *)
(* page of matches, whether there is one more, and the last one's place.   *)
PickWild(s, head, dir) ==
    LET page(run) == Picked(SubSeq(run, 1, Least(NSelkey, Len(run))), head,
                            Len(run) > NSelkey)
    IN  page(Hits(s, head, dir))

(* match_keystroke_wild(): the first page for a keystroke with wild cards. *)
MatchWild(s) ==
    LET show(pick, head) ==
          [s EXCEPT
             !.hidx = head, !.eidx = pick.last, !.mkeys = pick.idxs,
             !.all = pick.cands, !.mcch = pick.cands,
             !.has_tsi = HasTsi(pick.cands),
             !.grouping = IF HasTsi(pick.cands) THEN "own" ELSE "none",
             !.pgstate = IF pick.more THEN "BEGIN" ELSE "ONEPG"]
        from(head) == show(PickWild(s, head, 1), head)
    IN  from(LowerBound(SubSeq(s.keystroke, 1, NextWild(s.keystroke, 1) - 1)))

MatchEither(s) == IF "INWILD" \in s.mode THEN MatchWild(s) ELSE MatchNormal(s)
Several(s) ==
    IF Len(Flat(s.mcch)) > 1 THEN [s EXCEPT !.mode = @ \ {"SPACE"}] ELSE s

\* Faulty: n_mcch is not cleared before the search.
MatchKeepsPage(s) == Several(MatchEither(s))

(* match_keystroke(): succeeds if and only if something is shown. *)
Match(s) == Several(MatchEither([s EXCEPT !.mcch = <<>>]))

-----------------------------------------------------------------------------
(* mcch_grouping[k], through whichever array the pointer names. *)
Grouping(s, k) ==
    LET lens == CASE s.grouping = "normal" -> s.normal
                  [] s.grouping = "wild"   -> s.wild
                  [] s.grouping = "own"    -> Lengths(s.all)
                  [] OTHER                 -> <<>>
    IN  IF k \in DOMAIN lens THEN lens[k] ELSE 0

(* get_correct_skeystroke(), and the plain copy for a keystroke without    *)
(* wild cards, in commit_char().                                           *)
Suggest(s, idx) ==
    IF ~\E k \in DOMAIN s.keystroke : IsWild(s.keystroke[k]) THEN s.keystroke
    ELSE IF idx >= Len(s.mkeys) THEN <<>>
    ELSE LET ks == Entry(s.mkeys[idx + 1]).ks
         IN  IF WildMatch(s.keystroke, ks) THEN ks ELSE <<>>

(* commit_char(), for the text it assembles. *)
CommitChar(s, idx, text) ==
    [s EXCEPT !.cch = [ks |-> s.keystroke, text |-> text,
                       suggest |-> Suggest(s, idx), tsi |-> s.has_tsi],
              !.commits = @ + 1,
              !.keystroke = <<>>, !.mcch = <<>>, !.pgstate = "ONEPG",
              !.mode = @ \ {"MCCH", "INWILD"}, !.has_tsi = FALSE,
              !.spot = FALSE]

(* The text commit_char() is given and reads: without phrases one          *)
(* character of the page, else as many from offset beg on as the grouping  *)
(* says.                                                                   *)
TextAt(s, idx, beg) ==
    LET zi  == Flat(s.mcch)
        len == Grouping(s, idx + 1)
    IN  IF ~s.has_tsi THEN <<zi[idx + 1]>>
        ELSE IF beg < 0 \/ beg + len > Len(zi) THEN Junk
        ELSE SubSeq(zi, beg + 1, beg + len)

(* KEYSTROKE_REMAP goes through the same commit_char(). *)
RemapText(s, idx) ==
    IF s.has_tsi /\ Grouping(s, idx + 1) # 1
      THEN IF Grouping(s, idx + 1) = 0 THEN <<>> ELSE Junk
      ELSE Kremap[idx + 1].zi

Wrong(s) ==
    IF On("AUTORESET") THEN Reset(s) ELSE [s EXCEPT !.mode = @ \cup {"WRONG"}]

(* commit_keystroke().  Each handler yields the state and its flags. *)
CommitMatch(m) ==
    IF m.mcch = <<>> THEN [s |-> Wrong(m), ret |-> {}]
    ELSE IF Len(m.all) = 1
      THEN [s |-> CommitChar(m, 0, TextAt(m, 0, 0)), ret |-> {"COMMIT"}]
    ELSE [s |-> [m EXCEPT !.mode = @ \cup {"MCCH"}, !.spot = TRUE], ret |-> {}]

CommitKeystroke(s) ==
    LET remap == {k \in DOMAIN Kremap : Kremap[k].ks = s.keystroke}
        r     == CHOOSE k \in remap : \A h \in remap : k <= h
    IN  IF remap # {}
          THEN [s |-> CommitChar(s, r - 1, RemapText(s, r - 1)), ret |-> {"COMMIT"}]
        ELSE CommitMatch(Match(s))

-----------------------------------------------------------------------------
(* mcch_choosech(): a negative idx asks for the first candidate.  The      *)
(* limit n_mcch counts characters, also where the candidates are phrases.  *)
ChooseIn(m, idx) ==
    LET k   == IF idx < 0 THEN 0 ELSE idx + (IF On("SELKEYSHIFT") THEN 1 ELSE 0)
        beg == IF "INWILD" \in m.mode THEN AllIndex(m.all, k)
               ELSE AllIndex(m.all, m.hidx + k) - AllIndex(m.all, m.hidx)
        ok  == /\ m.mcch # <<>>
               /\ idx < 0 \/ k < Least(NSelkey, Len(Flat(m.mcch)))
    IN  [ok |-> ok,
         s  |-> IF ok THEN Reset(CommitChar(m, k, TextAt(m, k, beg))) ELSE m]

Choose(s, idx) == ChooseIn(IF s.mcch = <<>> THEN Match(s) ELSE s, idx)

Chosen(c) == [s |-> c.s, ret |-> IF c.ok THEN {"COMMIT"} ELSE {}]
Select(s, idx) == Chosen(Choose(s, idx))

(* fillpage() without wild cards.  hidx is the first candidate shown. *)
\* Faulty: the grouping is not written again for the new page.
FillKeepsGrouping(s, dir) ==
    LET h == CASE dir = 0  -> 0
               [] dir = 1  -> s.hidx + NSelkey
               [] OTHER    -> s.hidx - NSelkey
        page == SubSeq(s.all, h + 1, Least(h + NSelkey, Len(s.all)))
    IN  IF (dir = 1 /\ h >= Len(s.all)) \/ h < 0 THEN s
        ELSE [s EXCEPT
                !.hidx = h, !.mcch = page,
                !.pgstate = CASE h = 0 -> "BEGIN"
                              [] h > 0 /\ h + NSelkey < Len(s.all) -> "MIDDLE"
                              [] OTHER -> "END"]

FillNormal(s, dir) ==
    LET h == CASE dir = 0  -> 0
               [] dir = 1  -> s.hidx + NSelkey
               [] OTHER    -> s.hidx - NSelkey
        page == SubSeq(s.all, h + 1, Least(h + NSelkey, Len(s.all)))
    IN  IF (dir = 1 /\ h >= Len(s.all)) \/ h < 0 THEN s
        ELSE [s EXCEPT
                !.hidx = h, !.mcch = page,
                !.normal = IF s.has_tsi THEN Lengths(page)
                             \o SubSeq(@, Len(page) + 1, Len(@)) ELSE @,
                !.pgstate = CASE h = 0 -> IF Len(Flat(page)) < Len(Flat(s.all))
                                            THEN "BEGIN" ELSE "ONEPG"
                              [] h > 0 /\ h + NSelkey < Len(s.all) -> "MIDDLE"
                              [] OTHER -> "END"]

(* fillpage() with wild cards: the page is searched for in the table again, *)
(* from the far end when it turns back.  What it found is then shown the   *)
(* other way round; mkey_list stays as it was found.                       *)
FillWild(s, dir) ==
    LET fwd  == dir = 1 /\ s.pgstate \in {"BEGIN", "MIDDLE"}
        back == dir = -1 /\ s.pgstate \in {"END", "MIDDLE"}
        from == IF fwd THEN s.eidx + 1 ELSE s.hidx - 1
        show(pick, page) ==
          [s EXCEPT
             !.mcch = page, !.all = page, !.mkeys = pick.idxs,
             !.has_tsi = HasTsi(page),
             !.wild = IF back THEN Lengths(page) ELSE @,
             !.grouping = IF ~HasTsi(page) THEN "none"
                          ELSE IF back THEN "wild" ELSE "own",
             !.pgstate = IF pick.more THEN "MIDDLE"
                         ELSE IF fwd THEN "END" ELSE "BEGIN",
             !.hidx = IF fwd THEN from ELSE pick.last,
             !.eidx = IF fwd THEN pick.last ELSE from]
        turn(pick) == show(pick, IF fwd THEN pick.cands ELSE Reverse(pick.cands))
    IN  IF ~fwd /\ ~back THEN s ELSE turn(PickWild(s, from, dir))

FillPage(s, dir) ==
    IF "INWILD" \in s.mode THEN FillWild(s, dir) ELSE FillNormal(s, dir)

(* mcch_nextpage() *)
NextPage(s, key) ==
    LET dir == CASE s.pgstate = "END"    -> IF key = "<" THEN -1 ELSE 0
                 [] s.pgstate = "MIDDLE" -> IF key = "<" THEN -1 ELSE 1
                 [] OTHER                -> 1
    IN  IF s.pgstate = "ONEPG" /\ key = " " /\ On("AUTOUPCHAR") THEN Select(s, -1)
        ELSE IF s.pgstate = "ONEPG" \/ (s.pgstate = "BEGIN" /\ key = "<")
          THEN [s |-> s, ret |-> {}]
        ELSE [s |-> FillPage(s, dir), ret |-> {}]

-----------------------------------------------------------------------------
(* The start of gen_inp_keystroke(): the two marks of the last key end. *)
Begin(i) == [World(i) EXCEPT !.mode = @ \ {"SPACE", "WRONG"}]

(* The end: the context and the shared buffers are as the handler left them. *)
Finish(i, r) ==
    /\ inp' = [inp EXCEPT ![i] = [f \in DOMAIN inp[i] |-> r.s[f]]]
    /\ static' = [f \in DOMAIN static |-> r.s[f]]
    /\ ret' = r.ret
    /\ cch' = r.s.cch
    /\ commits' = r.s.commits
    /\ filled' = [f \in DOMAIN filled |->
                     IF r.s[f] # static[f] THEN {i} ELSE filled[f]]
    /\ UNCHANGED cfmode

(* XK_BackSpace and XK_Delete with a keystroke to shorten *)
BackSpaceKey(i) ==
    LET s     == Begin(i)
        ks    == Front(s.keystroke)
        short == [s EXCEPT
                    !.keystroke = ks, !.mcch = <<>>, !.pgstate = "ONEPG",
                    !.spot = FALSE,
                    !.mode = IF On("WILDON") /\ \E k \in DOMAIN ks : IsWild(ks[k])
                               THEN {"INWILD"} ELSE {}]
    IN  /\ s.keystroke # <<>>
        /\ Finish(i, [s |-> IF ks # <<>> /\ On("AUTOCOMPOSE")
                              THEN Match(short) ELSE short,
                      ret |-> {}])

(* XK_Escape with a keystroke to give up *)
EscapeKey(i) ==
    /\ inp[i].keystroke # <<>>
    /\ Finish(i, [s |-> [Reset(Begin(i)) EXCEPT !.spot = FALSE], ret |-> {}])

SpaceRest(s, last) ==
    IF "MCCH" \in s.mode THEN NextPage(s, " ")
    ELSE IF On("SPACERESET") /\ "WRONG" \in last THEN [s |-> Reset(s), ret |-> {}]
    ELSE IF "SPACE" \in last THEN [s |-> s, ret |-> {}]
    ELSE IF s.keystroke # <<>> THEN CommitKeystroke(s)
    ELSE [s |-> s, ret |-> {"IGNORE"}]

UpChar(s) == /\ On("SPACEAUTOUP")
             /\ "INWILD" \in s.mode => "MCCH" \in s.mode
UpTab(s)  == "MCCH" \in s.mode /\ On("TABNEXTPAGE")
Many(s)   == Len(Flat(s.mcch)) > 1 \/ s.pgstate # "ONEPG"

(* XK_space.  With TAB_NEXTPAGE the answer of mcch_choosech() is not       *)
(* looked at.                                                              *)
SpaceKey(i) ==
    LET s == Begin(i)
        taken(c) == IF c.ok \/ ~UpChar(s) THEN [s |-> c.s, ret |-> {"COMMIT"}]
                    ELSE [s |-> Wrong(c.s), ret |-> {}]
    IN  Finish(i, IF Many(s) /\ (UpChar(s) \/ UpTab(s)) THEN taken(Choose(s, -1))
                  ELSE SpaceRest(s, inp[i].mode))

(* XK_Tab, if TAB_NEXTPAGE is on *)
TabKey(i) ==
    /\ On("TABNEXTPAGE")
    /\ Finish(i, IF "MCCH" \in inp[i].mode THEN NextPage(Begin(i), " ")
                 ELSE [s |-> Begin(i), ret |-> {"IGNORE"}])

(* The keypad, and keys with no or several characters *)
IgnoredKey(i) == Finish(i, [s |-> Begin(i), ret |-> {"IGNORE"}])

-----------------------------------------------------------------------------
(* The key joins the keystroke; ret has the flags of a commit before it. *)
TypeKey(s, key, flags) ==
    LET ks == Append(s.keystroke, key)
        n  == Len(ks)
        a  == [s EXCEPT
                 !.keystroke = ks,
                 !.mode = @ \cup (IF On("SPACEIGNOR") /\ n = n_max_keystroke
                                    THEN {"SPACE"} ELSE {})]
    IN  IF \/ On("ENDKEY") /\ n > 1 /\ key \in Endkey
           \/ On("AUTOFULLUP") /\ n = n_max_keystroke
          THEN CommitKeystroke(a)
        ELSE [s |-> IF On("AUTOCOMPOSE") THEN Match(a) ELSE a, ret |-> flags]

(* The tail of gen_inp_keystroke().  A wild card typed with Shift is taken *)
(* without a look at the length.                                           *)
Type(s, key, mod, named, flags) ==
    LET wild == mod = "Shift" /\ On("WILDON") /\ IsWild(key)
    IN  IF mod = "Shift" /\ ~wild THEN [s |-> s, ret |-> flags \cup {"SHIFTESC"}]
        ELSE IF mod = "Ctrl" /\ CtrlPhrase
          THEN [s |-> s, ret |-> flags \cup {"CTRLPHR"}]
        ELSE IF ~wild /\ ~named THEN [s |-> s, ret |-> flags \cup {"IGNORE"}]
        ELSE IF ~wild /\ Len(s.keystroke) >= n_max_keystroke THEN [s |-> s, ret |-> {}]
        ELSE TypeKey(IF wild THEN [s EXCEPT !.mode = @ \cup {"INWILD"}] ELSE s,
                     key, flags)

(* A key of one character: a selection key, a page key, or one to type. *)
CharKey(i, key, mod) ==
    LET s      == Begin(i)
        n      == Len(s.keystroke)
        isSel  == key \in Range(Selkey)
        selidx == (CHOOSE k \in DOMAIN Selkey : Selkey[k] = key) - 1
        named  == key \in Keyname
        ended  == n > 0 /\ s.keystroke[n] \in Endkey
        early  == n > 0 /\ isSel /\ (ended \/ ~named)
        disabled == n = 1 /\ s.keystroke[1] \in DisableSel
        upchar(c) == IF c.ok THEN Type(c.s, key, mod, named, {"COMMIT"})
                     ELSE [s |-> c.s, ret |-> {}]
        done(r) == Len(r.s.keystroke) <= MaxTyped /\ Finish(i, r)
    IN  done(IF early /\ disabled THEN Type(s, key, mod, TRUE, {})
             ELSE IF early THEN Select(s, selidx)
             ELSE IF key \in {"<", ">"} /\ s.spot THEN NextPage(s, key)
             ELSE IF "MCCH" \notin s.mode THEN Type(s, key, mod, named, {})
             ELSE IF isSel THEN Select(s, selidx)
             ELSE IF ~On("AUTOUPCHAR") THEN [s |-> s, ret |-> {}]
             ELSE upchar(Choose(s, -1)))

Init ==
    /\ \E rc \in RcFiles : cfmode = EffectiveMode(AskedFor(rc))
    /\ inp = [i \in IC |-> FreshIC]
    /\ static = [normal |-> <<>>, wild |-> <<>>]
    /\ ret = {}
    /\ cch = NoText
    /\ commits = 0
    /\ filled = [normal |-> {}, wild |-> {}]

(* A key in context i: which comes next, and where, is the users' choice.  *)
Keystroke(i) ==
    \/ BackSpaceKey(i)
    \/ EscapeKey(i)
    \/ SpaceKey(i)
    \/ TabKey(i)
    \/ IgnoredKey(i)
    \/ \E key \in TypedKey \cap Keyboard(i, cfmode),
          mod \in {"none", "Shift", "Ctrl"} : CharKey(i, key, mod)

Next == \E i \in IC : Keyboard(i, cfmode) # {} /\ Keystroke(i)

Spec == Init /\ [][Next]_vars

-----------------------------------------------------------------------------
(* The type invariant. *)
TypeOK ==
    /\ cfmode \subseteq AllModes
    /\ \A i \in IC :
         /\ inp[i].mode \subseteq {"MCCH", "SPACE", "INWILD", "WRONG"}
         /\ inp[i].pgstate \in {"ONEPG", "BEGIN", "MIDDLE", "END"}
         /\ inp[i].grouping \in {"none", "normal", "own", "wild"}
         /\ Len(inp[i].keystroke) \in 0 .. MaxTyped
         /\ Len(inp[i].mcch) \in 0 .. NSelkey
    /\ ret \subseteq {"COMMIT", "IGNORE", "SHIFTESC", "CTRLPHR"}
    /\ commits \in 0 .. 2
    /\ filled \in [{"normal", "wild"} -> SUBSET IC]

(* What the table holds for a keystroke, in the table's order. *)
Answers(i) ==
    Zis(Kept(Places, IF "INWILD" \in inp[i].mode THEN Spelt(inp[i].keystroke)
                                                  ELSE Exact(inp[i].keystroke)))

(* With AUTO_COMPOSE on, however the user typed, shortened, and turned     *)
(* pages, what is shown is a page of the answers to the keystroke on the   *)
(* screen: cut at a multiple of the number of selection keys, complete,    *)
(* with the page mark telling whether there is more before and behind it.  *)
SlicesShown ==
    \A i \in IC :
      LET all == Answers(i)
          n   == NSelkey
      IN  (On("AUTOCOMPOSE") /\ inp[i].keystroke # <<>> /\ all # <<>>) =>
            \E p \in 0 .. Len(all) - 1 :
              /\ p % n = 0
              /\ inp[i].mcch = SubSeq(all, p + 1, Least(p + n, Len(all)))
              /\ inp[i].pgstate = CASE Len(all) <= n -> "ONEPG"
                                    [] Len(all) > n /\ p = 0 -> "BEGIN"
                                    [] p > 0 /\ p + n < Len(all) -> "MIDDLE"
                                    [] OTHER -> "END"

(* The pages of several contexts are cut by lengths that stand in an array *)
(* of the context or in one that all contexts share.  However they take    *)
(* turns in typing, turning pages and giving up, the lengths a context's   *)
(* windows and its next commit read are those of its page, also after      *)
(* others have searched and turned - except in a context whose mcch_grouping *)
(* points into a shared array that another context was the last to change. *)
OwnsGrouping(i) ==
    inp[i].grouping \in DOMAIN filled => i \in filled[inp[i].grouping]

GroupingOfPage ==
    \A i \in IC : OwnsGrouping(i) =>
      LET w == World(i)
      IN  \A k \in DOMAIN w.mcch :
             Len(w.mcch[k]) = IF w.grouping = "none" THEN 1 ELSE Grouping(w, k)

(* With nothing typed, nothing of an earlier composition is left: no       *)
(* candidates, no selection, no wild cards, no page to turn.               *)
IdleIsClean ==
    \A i \in IC :
      inp[i].keystroke = <<>> =>
        /\ inp[i].mcch = <<>>
        /\ inp[i].pgstate = "ONEPG"
        /\ inp[i].mode \cap {"MCCH", "INWILD"} = {}
        /\ ~inp[i].spot

(* What is shown belongs to the keystroke on the screen: a page of its     *)
(* answers, and with nothing typed nothing at all.                         *)
PageIsSlice == SlicesShown /\ IdleIsClean

(* The committed text is an answer to the keystroke it was committed for, or *)
(* the KEYSTROKE_REMAP of it.                                              *)
Answered ==
    \/ \E k \in DOMAIN Kremap : Kremap[k].ks = cch.ks /\ Kremap[k].zi = cch.text
    \/ \E k \in DOMAIN Table : /\ Table[k].zi = cch.text
                               /\ WildMatch(cch.ks, Table[k].ks)

(* The same with phrases among the candidates.                             *)
PhraseAnswers ==
    (On("AUTOCOMPOSE") /\ cch # NoText) => Answered

(* The caller is told to commit exactly when one text has been assembled:  *)
(* neither the text of an earlier key again, nor one text over another.    *)
CommitFlagHonest == commits = IF "COMMIT" \in ret THEN 1 ELSE 0

(* With AUTO_COMPOSE on and no phrases among the candidates, whatever is   *)
(* committed answers the keystroke that the user sees at that moment; and  *)
(* the caller is told to commit exactly when there is such a text.         *)
CommitAnswers ==
    /\ (On("AUTOCOMPOSE") /\ cch # NoText /\ ~cch.tsi) => Answered
    /\ CommitFlagHonest

(* What strcmp_wild() accepts, a search through all places would accept    *)
(* too: a keystroke with wild cards shows nothing that it does not spell.  *)
WildWithinGlob ==
    \A i \in IC : \A k \in DOMAIN Table :
        WildMatch(inp[i].keystroke, Table[k].ks)
            => Glob(inp[i].keystroke, Table[k].ks)
=============================================================================
