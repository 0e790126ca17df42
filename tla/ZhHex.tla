-------------------------------- MODULE ZhHex --------------------------------
(***************************************************************************)
(* Input by character code, src/src/Cinput/zh_hex/zh_hex.c: the user types *)
(* the hexadecimal digits of a character's bytes.  A key is                *)
(* [sym, str, mods]: keysym, what XLookupString() yields for it, and the   *)
(* modifiers held.  Keysyms of printable keys are their ASCII codes.       *)
(***************************************************************************)
EXTENDS CharCode

CONSTANTS
    KEY_CODE_LEN,   \* keys a keystroke may have
    BeepWrong       \* BEEP_WRONG of the rcfile

VARIABLE hex        \* what is typed and the last character, inpinfo->cch_publish

XK_BackSpace == 65288
XK_Escape    == 65307
XK_Delete    == 65535

Digits  == 48 .. 57
AtoF    == 65 .. 70
ToUpper(c) == IF c \in 97 .. 122 THEN c - 32 ELSE c
IsHexKey(k) == ToUpper(k.sym) \in Digits \cup AtoF

(* zh_hex_xim_init() *)
NothingTyped == [keystroke |-> <<>>, publish |-> <<>>]
ZhHexXimInit == hex = NothingTyped

(* zh_hex_compose_char(): two keys to a byte, a lone last one is its upper *)
(* half.                                                                   *)
Nibble(key) == IF key \in Digits THEN key - 48 ELSE key - 55
ComposeChar(keys) ==
    [b \in 1 .. (Len(keys) + 1) \div 2 |->
        16 * Nibble(keys[2 * b - 1])
          + (IF 2 * b <= Len(keys) THEN Nibble(keys[2 * b]) ELSE 0)]

\* Faulty: of a lone last key, too, the whole byte is compared.
WholeBytes(bytes, incomplete) ==
    {s \in DOMAIN charcode :
        /\ Len(bytes) <= Len(charcode[s])
        /\ \A b \in DOMAIN bytes : InPlane(bytes[b], charcode[s][b])}

(* IsValidByteSeq(): the schemas some character of which begins with these *)
(* bytes; of an incomplete last byte only the upper half is compared.      *)
ValidByteSeq(bytes, incomplete) ==
    LET upper(byte, plane) ==
            \E r \in ToSet(plane.range) : byte \div 16 \in r[1] \div 16 .. r[2] \div 16
    IN  {s \in DOMAIN charcode :
            /\ Len(bytes) <= Len(charcode[s])
            /\ \A b \in DOMAIN bytes :
                  IF incomplete /\ b = Len(bytes) THEN upper(bytes[b], charcode[s][b])
                                                  ELSE InPlane(bytes[b], charcode[s][b])}

(* What zh_hex_keystroke() did: the new state, the flags it returns, and   *)
(* the text to commit.                                                     *)
Done(h, flags, cch) == [hex |-> h, ret |-> flags, cch |-> cch]
Wrong(h)            == Done(h, IF BeepWrong THEN {"BELL"} ELSE {}, <<>>)

(* A digit is taken if some character still begins so; the last digit of a *)
(* character commits it.                                                   *)
Digit16(h, keys, schemas) ==
    LET none  == [h EXCEPT !.publish = <<>>]
        bytes == ComposeChar(keys)
        last  == 2 * Len(charcode[CHOOSE s \in schemas : \A t \in schemas : s <= t])
    IN  IF schemas = {} THEN Wrong(none)
        ELSE IF Len(keys) < last THEN Done([none EXCEPT !.keystroke = keys], {}, <<>>)
        ELSE IF MbToWch(bytes) # 0
          THEN Done([keystroke |-> <<>>, publish |-> bytes], {"COMMIT"}, bytes)
        ELSE Wrong([none EXCEPT !.keystroke = keys])

HexKey(h, k) ==
    LET keys == Append(h.keystroke, ToUpper(k.str[1]))
    IN  IF "Shift" \in k.mods THEN Done(h, {"SHIFTESC"}, <<>>)
        ELSE IF k.mods \cap {"Control", "Mod1"} # {} THEN Done(h, {"IGNORE"}, <<>>)
        ELSE IF Len(h.keystroke) >= KEY_CODE_LEN THEN Wrong(h)
        ELSE Digit16(h, keys, ValidByteSeq(ComposeChar(keys), Len(keys) % 2 = 1))

(* zh_hex_keystroke() *)
ZhHexKeystroke(h, k) ==
    LET shorter == [keystroke |-> Front(h.keystroke), publish |-> <<>>]
    IN  IF k.sym \in {XK_BackSpace, XK_Delete} /\ h.keystroke # <<>>
          THEN Done(shorter, {}, <<>>)
        ELSE IF k.sym = XK_Escape /\ h.keystroke # <<>> THEN Done(NothingTyped, {}, <<>>)
        ELSE IF IsHexKey(k) THEN HexKey(h, k)
        ELSE Done(h, {"IGNORE"}, <<>>)

(* zh_hex_show_keystroke(): the digits of a character. *)
HexDigit(n) == IF n < 10 THEN n + 48 ELSE n + 55
ZhHexShow(ch) ==
    IF MbToWch(ch) = 0 THEN <<>>
    ELSE [i \in 1 .. 2 * Len(ch) |->
            HexDigit(IF i % 2 = 1 THEN ch[(i + 1) \div 2] \div 16
                                  ELSE ch[(i + 1) \div 2] % 16)]
=============================================================================
