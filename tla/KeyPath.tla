------------------------------- MODULE KeyPath -------------------------------
(***************************************************************************)
(* The way of a key that is no function key: the end of                    *)
(* forward_keys_handler() (src/src/xim.c) gives it to the input method,    *)
(* here zh_hex, lets another one tell the keystroke of the character       *)
(* (call_simd()), and process_IMKEY() acts on the flags the method         *)
(* returned; with IM_2BYTES on, a key nobody wanted becomes a full width   *)
(* character (src/src/Cinput/im_comm/ascii_wb.c).  What is left goes back  *)
(* to the client.                                                          *)
(*                                                                         *)
(* The other method is a gen_inp with a table that CinTable has built and  *)
(* loaded before.  Methods are switched (change_IM()) and what recalls     *)
(* keystrokes is (change_simd()); of a key in gen_inp only what it         *)
(* publishes is told here, GenInp has the rest.  Every context has its own *)
(* IMC; for XCIN_SINGLE_IMC see ImContext.  Quick phrases are left out:    *)
(* zh_hex asks for none.                                                   *)
(***************************************************************************)
EXTENDS ZhHex, CinTable

CONSTANTS
    Pressed,      \* the keys the user may press
    TypedLines    \* bound: keys are typed with tables of at most so many lines

VARIABLES
    method,       \* imc->imodp while IM_CINPUT is set, "english" for NULL
    suggest,      \* inpinfo.suggest_skeystroke
    show_cinput,  \* XCIN_SHOW_CINPUT: the current method recalls keystrokes
    sinmd,        \* the method that recalls keystrokes, and what it recalled
    twobytes      \* IM_2BYTES

keyVars == <<hex, method, suggest, show_cinput, sinmd, twobytes>>
vars == <<cinVars, keyVars>>

Method == {"zh_hex", "gen_inp"}

Text(width, chars) == [width |-> width, chars |-> chars]
NoChar == Text("none", <<>>)

-----------------------------------------------------------------------------
(* ascii_wb.c: fullchar[] has a character for each printable keysym.       *)
Printable == 32 .. 126
ToLower(c) == IF c \in 65 .. 90 THEN c + 32 ELSE c
FullChar(c) == IF c \in Printable THEN Text("full", <<c>>) ELSE NoChar
Cased(k) == IF {"Lock", "Shift"} \subseteq k.mods THEN ToUpper(k.str[1])
                                                  ELSE ToLower(k.str[1])

(* fullchar_keystroke() *)
FullcharKeystroke(k) == FullChar(k.sym)

(* fullchar_ascii(), mode 1 *)
FullcharAscii(k) ==
    IF Len(k.str) # 1 THEN FullcharKeystroke(k)
    ELSE IF k.str[1] \notin Printable THEN NoChar ELSE FullChar(Cased(k))

(* halfchar_ascii(), mode 1 *)
HalfcharAscii(k) ==
    IF Len(k.str) # 1 \/ k.str[1] \notin Printable THEN NoChar
    ELSE Text("half", <<Cased(k)>>)

-----------------------------------------------------------------------------
(* call_simd(): what is recalled for the character published, nothing if   *)
(* there is none: what the current method suggests if it is the one chosen *)
(* for recalling, or what the one chosen shows.                            *)
CallSimd(simd, publish, suggested) ==
    [simd EXCEPT !.keystroke =
        IF publish = <<>> THEN <<>>
        ELSE IF simd.of = method /\ suggested # <<>> THEN suggested
        ELSE IF simd.of = "zh_hex" THEN ZhHexShow(publish) ELSE ShowKeystroke(publish)]

\* Faulty: a key that stands for no character is not given back.
EscapeSwallowed(r, k) ==
    LET esc   == IF "SHIFTESC" \notin r.ret THEN NoChar
                 ELSE IF twobytes THEN FullcharAscii(k) ELSE HalfcharAscii(k)
        texts == (IF "COMMIT" \in r.ret /\ r.cch # <<>>
                    THEN <<Text("char", r.cch)>> ELSE <<>>)
                   \o (IF esc # NoChar THEN <<esc>> ELSE <<>>)
    IN  [texts |-> texts, bell |-> "BELL" \in r.ret,
         taken |-> "IGNORE" \notin r.ret \/ esc # NoChar]

(* process_IMKEY(): the texts to commit, whether to ring, and whether the  *)
(* key is taken.                                                           *)
ProcessImkey(r, k) ==
    LET esc   == IF "SHIFTESC" \notin r.ret THEN NoChar
                 ELSE IF twobytes THEN FullcharAscii(k) ELSE HalfcharAscii(k)
        texts == (IF "COMMIT" \in r.ret /\ r.cch # <<>>
                    THEN <<Text("char", r.cch)>> ELSE <<>>)
                   \o (IF esc # NoChar THEN <<esc>> ELSE <<>>)
    IN  [texts |-> texts, bell |-> "BELL" \in r.ret,
         taken |-> r.ret \cap {"IGNORE", "SHIFTESC"} = {} \/ esc # NoChar]

(* The end of forward_keys_handler(). *)
FullWidth(k) ==
    IF twobytes /\ k.mods \cap {"Control", "Mod1"} = {} THEN FullcharKeystroke(k)
    ELSE NoChar

Outcome(h, simd, p, k) ==
    LET wide == IF p.taken THEN NoChar ELSE FullWidth(k)
    IN  [hex   |-> h,
         sinmd |-> simd,
         texts |-> p.texts \o (IF wide # NoChar THEN <<wide>> ELSE <<>>),
         bell  |-> p.bell,
         back  |-> ~p.taken /\ wide = NoChar]

\* A key that no method is asked about.
Untaken == [texts |-> <<>>, bell |-> FALSE, taken |-> FALSE]

Answer(r, k) ==
    Outcome(r.hex, CallSimd(sinmd, r.hex.publish, suggest), ProcessImkey(r, k), k)
Forward(h, k) ==
    IF method = "zh_hex" THEN Answer(ZhHexKeystroke(h, k), k)
    ELSE Outcome(h, sinmd, Untaken, k)

-----------------------------------------------------------------------------
Typing == tab # <<>> /\ Len(file) <= TypedLines

Key(k) ==
    /\ Typing /\ method # "gen_inp"
    /\ \E o \in {Forward(hex, k)} : hex' = o.hex /\ sinmd' = o.sinmd
    /\ UNCHANGED <<cinVars, method, suggest, show_cinput, twobytes>>

(* A key in gen_inp that clears what was published, or one that commits an *)
(* answer to a keystroke (commit_char()), whose first character it         *)
(* publishes, with the keystroke as the suggestion.  Keystrokes with wild  *)
(* cards are left out: what is suggested for them is not always theirs.    *)
Publishes(ch, keys) ==
    /\ hex' = [hex EXCEPT !.publish = ch]
    /\ suggest' = keys
    /\ sinmd' = CallSimd(sinmd, ch, keys)
FirstChar(text) == SubSeq(text, 1, IF MbToWch(text) = 0 THEN 1 ELSE MbToWch(text))
GenInpKey ==
    /\ Typing /\ method = "gen_inp"
    /\ \/ Publishes(<<>>, suggest)
       \/ \E n \in DOMAIN file : \E text \in ToSet(Candidates(file[n].keys)) :
             Publishes(FirstChar(text), file[n].keys)
    /\ UNCHANGED <<cinVars, method, show_cinput, twobytes>>

(* change_IM(), on FKEY_ZHEN, FKEY_CIRIM, FKEY_CIRRIM or FKEY_IMN: xim_end()  *)
(* of the old method drops the keys typed, xim_init() of the new one the      *)
(* character.  What has been recalled stays as it is.                         *)
ChangeIM(m) ==
    /\ Typing /\ m # method
    /\ method' = m
    /\ hex' = IF m = "english" THEN [hex EXCEPT !.keystroke = <<>>] ELSE NothingTyped
    /\ suggest' = <<>>
    /\ sinmd' = IF show_cinput /\ m \in Method THEN [sinmd EXCEPT !.of = m] ELSE sinmd
    /\ UNCHANGED <<cinVars, show_cinput, twobytes>>

(* change_simd(), with two methods *)
ChangeSimd ==
    /\ Typing
    /\ \E of \in Method \ {sinmd.of} :
          sinmd' = CallSimd([sinmd EXCEPT !.of = of], hex.publish, suggest)
    /\ show_cinput' = FALSE
    /\ UNCHANGED <<cinVars, hex, method, suggest, twobytes>>

(* FKEY_2BSB *)
Toggle2Bytes ==
    /\ Typing
    /\ twobytes' = ~twobytes
    /\ UNCHANGED <<cinVars, hex, method, suggest, show_cinput, sinmd>>

Init ==
    /\ CinInit
    /\ ZhHexXimInit
    /\ method = "zh_hex"
    /\ suggest = <<>>
    /\ show_cinput \in BOOLEAN
    /\ sinmd = [of |-> IF show_cinput THEN "zh_hex" ELSE "gen_inp", keystroke |-> <<>>]
    /\ twobytes = FALSE

Next ==
    \/ CinNext /\ UNCHANGED keyVars
    \/ \E k \in Pressed : Key(k)
    \/ GenInpKey
    \/ \E m \in Method \cup {"english"} : ChangeIM(m)
    \/ ChangeSimd
    \/ Toggle2Bytes

Spec == Init /\ [][Next]_vars

-----------------------------------------------------------------------------
(* Every key is accounted for, whatever the method answered: either the    *)
(* client gets it back, and then it has done nothing here, or it has done  *)
(* something the user notices: one text, a bell, or another keystroke.     *)
KeyAccounted ==
    method # "gen_inp" => \A k \in Pressed :
        \E o \in {Forward(hex, k)} :
            /\ o.back => o.hex = hex /\ o.texts = <<>> /\ ~o.bell
            /\ ~o.back /\ BeepWrong => o.hex # hex \/ o.texts # <<>> \/ o.bell
            /\ Len(o.texts) <= 1

\* What is there after the keys have been typed.
TypedFrom(start, keys) ==
    FoldLeft(LAMBDA o, k : Forward(o.hex, k), start, keys)
KeyOf(sym) == [sym |-> sym, str |-> <<sym>>, mods |-> {}]

\* The keystroke the .cin file gives a character, a marked one if it has any.
Recalls(ch, keys) ==
    LET own       == {n \in DOMAIN file : file[n].text = ch}
        marked    == {n \in own : file[n].mark}
        oneOf(ns) == \E n \in ns : TypedAs(file[n].keys, keys)
    IN  /\ own = {} => keys = <<>>
        /\ own # {} => oneOf(own)
        /\ marked # {} => oneOf(marked)

Shows(of, ch, keys) ==
    IF of = "zh_hex" THEN keys = ZhHexShow(ch) ELSE Tidy => Recalls(ch, keys)

(* Every character of the encoding can be typed by its code, from wherever *)
(* the user was: after Escape the keys that zh_hex shows for it commit     *)
(* this character and no other, each of them is taken, and then the window *)
(* shows the keystroke of it: these keys, or what the .cin file says.      *)
TypedIsRecalled ==
    LET keys(ch)  == <<KeyOf(XK_Escape)>>
                       \o [n \in DOMAIN ZhHexShow(ch) |-> KeyOf(ZhHexShow(ch)[n])]
        start     == [hex |-> hex]
        right(ch, o) ==
            /\ o.texts = <<Text("char", ch)>> /\ ~o.back
            /\ o.hex.publish = ch /\ o.hex.keystroke = <<>>
            /\ Shows(sinmd.of, ch, o.sinmd.keystroke)
        typed(ch) == \E o \in {TypedFrom(start, keys(ch))} : right(ch, o)
    IN  Loaded /\ method = "zh_hex" => \A idx \in 0 .. TotalChar - 1 : typed(CcodeToChar(idx))

(* The windows draw a character that is published together with what has   *)
(* been recalled: it belongs to this character and comes from the method   *)
(* chosen last, or it is what was typed for the character, whatever has    *)
(* been switched since.                                                    *)
TypedFor(ch, keys) ==
    \E n \in DOMAIN file : FirstChar(file[n].text) = ch /\ TypedAs(file[n].keys, keys)
DisplayIsCurrent ==
    hex.publish # <<>> =>
        \/ Shows(sinmd.of, hex.publish, sinmd.keystroke)
        \/ sinmd.of = "gen_inp" /\ method # "zh_hex" /\ TypedFor(hex.publish, sinmd.keystroke)

(* Whatever can be typed is typed and recalled, and nothing stale is on    *)
(* display.                                                                *)
RecallFollows == TypedIsRecalled /\ DisplayIsCurrent
=============================================================================
