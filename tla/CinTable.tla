------------------------------- MODULE CinTable -------------------------------
(***************************************************************************)
(* From a .cin file to a candidate: cin_chardef() of cin2tab               *)
(* (src/src/util/cin2tab/gencin.c) reads the lines between "%chardef       *)
(* begin" and "%chardef end", sorts them and writes the table; gen_inp     *)
(* (src/src/Cinput/gen_inp/gen_inp.c) loads it, looks keystrokes up in it  *)
(* and recalls the keystroke of a character from it.                       *)
(*                                                                         *)
(* A line is [keys, text, mark]: the keys, the bytes of the characters and *)
(* whether a "*" follows.  The table keeps key codes, N_KEY_IN_CODE to a   *)
(* word; a list of words is modelled by its key codes, 0 where there is no *)
(* key.  Words compare like the codes in them, as a code has 6 bits.       *)
(***************************************************************************)
EXTENDS CharCode, FiniteSets

CONSTANTS
    Encodings,       \* the rules of encodings that sys.cin may hold
    Lines,           \* the lines a .cin file may have
    KeyCode,         \* keymap[]: the code of each key, upper and lower case alike
    CodeKey,         \* ichmap[]: the key of each code
    N_KEY_IN_CODE,   \* keys in a word of key codes
    KeyWords,        \* the words cin_chardef() and match_keystroke_wild() let
                     \* keys2codes() write
    MAX_ICODE_MODE,  \* the words an entry has
    MAX_TSI_LEN,     \* the longest phrase
    FIRST_TSI_NUM,   \* phrases are numbered from here, characters below
    Graph,           \* the bytes isgraph() accepts
    Leftover,        \* what memory may hold that realloc() has added
    MaxLines         \* bound: the lines of a file

ASSUME TableConstants ==
    /\ {N_KEY_IN_CODE, KeyWords, MAX_ICODE_MODE, MAX_TSI_LEN, MaxLines}
         \subseteq Nat \ {0}
    /\ KeyWords <= MAX_ICODE_MODE
    /\ \A rules \in Encodings : \A n \in DOMAIN rules : rules[n].plane \in 0 .. WCH_SIZE
    /\ 0 \in Leftover

NoText == -128       \* INVALID_ICODE_IDX
NotExist == -1       \* ICODE_IDX_NOTEXIST, which no table of 65535 lines reaches

VARIABLES
    file,      \* history: the lines accepted so far
    cchar,     \* an entry per accepted line
    tsi_num,   \* the next number parse_phrase() gives a phrase
    th,        \* the header: n_max_keystroke, n_tsi
    tab        \* the table, once written; <<>> before

cinVars == <<charcode, total_char, file, cchar, tsi_num, th, tab>>

Codes == MAX_ICODE_MODE * N_KEY_IN_CODE
Keystrokes(n) == UNION {[1 .. k -> DOMAIN KeyCode] : k \in 1 .. n}

-----------------------------------------------------------------------------
(* keys2codes(): at most `words` words of klist are written, and a word    *)
(* behind the last key only if the one before it is full.                  *)
Keys2Codes(klist, words, keys) ==
    LET full == Len(keys) \div N_KEY_IN_CODE
        written(p) == (p - 1) \div N_KEY_IN_CODE <= full /\ p <= words * N_KEY_IN_CODE
    IN  [p \in 1 .. Codes |->
            IF ~written(p) THEN klist[p]
            ELSE IF p <= Len(keys) THEN KeyCode[keys[p]] ELSE 0]

AllOf(c) == [p \in 1 .. Codes |-> c]

(* codes2keys(): the keys up to the first code that is none. *)
Codes2Keys(codes, words) ==
    LET used == {p \in 1 .. words * N_KEY_IN_CODE : \A q \in 1 .. p : codes[q] # 0}
    IN  [p \in 1 .. Cardinality(used) |-> CodeKey[codes[p]]]

(* icode_cmp(), cmp_icvalue() *)
Less(a, b, words) ==
    \E p \in 1 .. words * N_KEY_IN_CODE :
        a[p] < b[p] /\ \A q \in 1 .. p - 1 : a[q] = b[q]
Same(a, b, words) == \A p \in 1 .. words * N_KEY_IN_CODE : a[p] = b[p]

(* parse_phrase(): the numbers of the text's characters, -byte for ASCII,  *)
(* at most MAX_TSI_LEN of them; <<>> if a byte is neither.  rest tells     *)
(* that text is left over.  Hexadecimal text is left out.                  *)
RECURSIVE Parse(_, _)
Parse(text, tsi) ==
    LET len == MbToWch(text)
        ic  == IF len > 0 THEN CcodeToIdx(SubSeq(text, 1, len)) ELSE -1
    IN  IF text = <<>> \/ Len(tsi) = MAX_TSI_LEN
          THEN [tsi |-> tsi, rest |-> text # <<>>]
        ELSE IF ic # -1
          THEN Parse(SubSeq(text, len + 1, Len(text)), Append(tsi, ic))
        ELSE IF text[1] \in Graph THEN Parse(Tail(text), Append(tsi, -text[1]))
        ELSE [tsi |-> <<>>, rest |-> TRUE]

\* What parse_phrase() may return without a return statement (gencin.c:227).
NoReturn == {NoText, 0}

(* The number of the text: that of its only character, or the phrase's. *)
Number(p) ==
    IF Len(p.tsi) = 1 THEN {p.tsi[1]}
    ELSE IF Len(p.tsi) = MAX_TSI_LEN /\ p.rest THEN NoReturn ELSE {tsi_num}

(* One line of %chardef.  A text that is none is ignored.  The entries     *)
(* beyond total_char lie in memory that realloc() has added.               *)
ChardefLine(line) ==
    LET p == Parse(line.text, <<>>)
    IN  /\ tab = <<>> /\ Len(file) < MaxLines
        /\ p.tsi # <<>>
        /\ \E ic \in Number(p), left \in Leftover :
              /\ Len(cchar) < TotalChar => left = 0
              /\ cchar' = Append(cchar,
                            [idx  |-> ic,
                             key  |-> Keys2Codes(AllOf(left), KeyWords, line.keys),
                             mark |-> line.mark, tsi |-> p.tsi])
              /\ tsi_num' = IF Len(p.tsi) > 1 /\ ic = tsi_num
                              THEN tsi_num + 1 ELSE tsi_num
        /\ file' = Append(file, line)
        /\ th' = [n_max_keystroke |-> IF Len(line.keys) > th.n_max_keystroke
                                        THEN Len(line.keys) ELSE th.n_max_keystroke,
                  n_tsi |-> th.n_tsi + (IF Len(p.tsi) > 1 THEN 1 ELSE 0)]
        /\ UNCHANGED <<charcode, total_char, tab>>

-----------------------------------------------------------------------------
\* Faulty: of two equal entries the later comes first.
RECURSIVE MergeLaterFirst(_, _)
MergeLaterFirst(s, t) ==
    IF s = <<>> \/ t = <<>> THEN s \o t
    ELSE IF ~Less(s[1].key, t[1].key, MAX_ICODE_MODE)
      THEN <<t[1]>> \o MergeLaterFirst(s, Tail(t))
      ELSE <<s[1]>> \o MergeLaterFirst(Tail(s), t)

(* merge() of stable_sort.c: of two equal entries the one of s first. *)
RECURSIVE Merge(_, _)
Merge(s, t) ==
    IF s = <<>> \/ t = <<>> THEN s \o t
    ELSE IF Less(t[1].key, s[1].key, MAX_ICODE_MODE)
      THEN <<t[1]>> \o Merge(s, Tail(t))
      ELSE <<s[1]>> \o Merge(Tail(s), t)

(* separate(): halves are sorted and merged; two entries are swapped. *)
RECURSIVE StableSort(_)
StableSort(s) ==
    LET half == Len(s) \div 2
    IN  IF Len(s) <= 1 THEN s
        ELSE Merge(StableSort(SubSeq(s, 1, half)),
                   StableSort(SubSeq(s, half + 1, Len(s))))

Mode == (th.n_max_keystroke + N_KEY_IN_CODE - 1) \div N_KEY_IN_CODE

(* ichar[]: the entry that tells the keystroke of a character, the last    *)
(* marked one or else the first.                                           *)
Recalled(sorted, c) ==
    LET own    == {k \in DOMAIN sorted : sorted[k].idx = c}
        marked == {k \in own : sorted[k].mark}
    IN  IF own = {} THEN NotExist
        ELSE IF marked # {} THEN CHOOSE k \in marked : \A j \in marked : j <= k
        ELSE CHOOSE k \in own : \A j \in own : k <= j

(* The phrases, in the order of the file; tsi_idx[] and tsi_list[] hold    *)
(* them one behind the other.                                              *)
Phrases == SelectSeq(cchar, LAMBDA e : Len(e.tsi) > 1)

(* What gencin() writes and loadtab() reads back. *)
TableOf(sorted) ==
    [icode_mode |-> Mode,
     icode_idx  |-> [k \in DOMAIN sorted |-> sorted[k].idx],
     icode      |-> [k \in DOMAIN sorted |-> sorted[k].key],
     ichar      |-> [c \in 0 .. TotalChar - 1 |-> Recalled(sorted, c)],
     tsi        |-> [k \in DOMAIN Phrases |-> Phrases[k].tsi]]

(* "%chardef end" *)
ChardefEnd ==
    /\ tab = <<>> /\ cchar # <<>>
    /\ tab' = TableOf(StableSort(cchar))
    /\ UNCHANGED <<charcode, total_char, file, cchar, tsi_num, th>>

-----------------------------------------------------------------------------
\* Faulty: the first entry found, not the first of those that equal it.
BsearchAnyOf(codes, wild) ==
    LET cmp(k) == IF Same(tab.icode[k + 1], codes, tab.icode_mode) THEN "equal"
                  ELSE IF Less(codes, tab.icode[k + 1], tab.icode_mode)
                         THEN "greater" ELSE "less"
        size == Len(tab.icode)
        probe[head \in 0 .. size, end \in 0 .. size] ==
            LET middle == (head + end) \div 2
            IN  IF head = end THEN IF wild THEN middle ELSE -1
                ELSE IF cmp(middle) = "equal" THEN middle
                ELSE IF cmp(middle) = "greater" THEN probe[head, middle]
                ELSE probe[middle + 1, end]
    IN  probe[0, size]

(* bsearch_char(): the first entry with these codes; else -1 or, for a     *)
(* wild card search, where such an entry would be.  Positions from 0.      *)
Bsearch(codes, wild) ==
    LET cmp(k) == IF Same(tab.icode[k + 1], codes, tab.icode_mode) THEN "equal"
                  ELSE IF Less(codes, tab.icode[k + 1], tab.icode_mode)
                         THEN "greater" ELSE "less"
        size == Len(tab.icode)
        first(m) == CHOOSE k \in 0 .. m :
                        /\ \A j \in k .. m : cmp(j) = "equal"
                        /\ k = 0 \/ cmp(k - 1) # "equal"
        probe[head \in 0 .. size, end \in 0 .. size] ==
            LET middle == (head + end) \div 2
            IN  IF head = end THEN IF wild THEN middle ELSE -1
                ELSE IF cmp(middle) = "equal" THEN first(middle)
                ELSE IF cmp(middle) = "greater" THEN probe[head, middle]
                ELSE probe[middle + 1, end]
    IN  probe[0, size]

Bytes(c) == IF c < 0 /\ c > NoText THEN <<-c>> ELSE CcodeToChar(c)

(* ccode_to_char_or_tsi(): the text of an entry, <<>> on an error.  A lone *)
(* ASCII character is an error, one in a phrase is not.                    *)
TextOf(ic) ==
    IF ic >= FIRST_TSI_NUM
      THEN FlattenSeq([k \in DOMAIN tab.tsi[ic - FIRST_TSI_NUM + 1] |->
                          Bytes(tab.tsi[ic - FIRST_TSI_NUM + 1][k])])
    ELSE IF ic >= 0 THEN CcodeToChar(ic) ELSE <<>>

(* match_keystroke_normal(): the texts of all entries from the first one   *)
(* found on with the same codes, or none if one of them is an error.       *)
Candidates(keys) ==
    LET codes == Keys2Codes(AllOf(0), MAX_ICODE_MODE, keys)
        idx   == Bsearch(codes, FALSE)
        last  == CHOOSE k \in idx + 1 .. Len(tab.icode) :
                    /\ \A j \in idx + 1 .. k : Same(tab.icode[j], codes, tab.icode_mode)
                    /\ k = Len(tab.icode)
                         \/ ~Same(tab.icode[k + 1], codes, tab.icode_mode)
        texts == [k \in 1 .. last - idx |-> TextOf(tab.icode_idx[idx + k])]
    IN  IF idx = -1 \/ Contains(texts, <<>>) THEN <<>> ELSE texts

(* gen_inp_show_keystroke(): the keys recalled for a character. *)
ShowKeystroke(ch) ==
    LET i == CcodeToIdx(ch)
    IN  IF i = -1 \/ tab.ichar[i] = NotExist THEN <<>>
        ELSE Codes2Keys(tab.icode[tab.ichar[i]], tab.icode_mode)

-----------------------------------------------------------------------------
CinInit ==
    /\ \E rules \in Encodings : LoadSyscin(rules)
    /\ file = <<>> /\ cchar = <<>> /\ tab = <<>>
    /\ tsi_num = FIRST_TSI_NUM
    /\ th = [n_max_keystroke |-> 0, n_tsi |-> 0]

CinNext == (\E line \in Lines : ChardefLine(line)) \/ ChardefEnd

-----------------------------------------------------------------------------
Loaded == tab # <<>>
IsTooLong(line) == Parse(line.text, <<>>).rest
IsLoneAscii(line) == LET p == Parse(line.text, <<>>) IN Len(p.tsi) = 1 /\ p.tsi[1] < 0

(* The files whose lines all fit: no phrase is too long, no keystroke      *)
(* exceeds the words that cin_chardef() fills, and no entry lies in memory *)
(* that was not cleared.  README.md tells what happens to the others.      *)
Tidy ==
    /\ \A k \in DOMAIN file : ~IsTooLong(file[k])
    /\ \A k \in DOMAIN file : Len(file[k].keys) <= KeyWords * N_KEY_IN_CODE
    /\ \A k \in DOMAIN cchar : \A p \in 1 .. Codes :
           p > Len(file[k].keys) => cchar[k].key[p] = 0

TypedAs(a, b) == Len(a) = Len(b) /\ \A k \in DOMAIN a : KeyCode[a[k]] = KeyCode[b[k]]
LinesOf(keys) == SelectSeq(file, LAMBDA line : TypedAs(line.keys, keys))

(* What the .cin file says is what the user is offered: for every          *)
(* keystroke the candidates are the texts of its lines, all of them, in    *)
(* the order of the file.  It takes parsing, packing, sorting, the phrase  *)
(* index and the search together.                                          *)
KeystrokeFinds ==
    Loaded /\ Tidy =>
        \A keys \in Keystrokes(th.n_max_keystroke) :
            (\A k \in DOMAIN LinesOf(keys) : ~IsLoneAscii(LinesOf(keys)[k])) =>
                Candidates(keys) = [k \in DOMAIN LinesOf(keys) |-> LinesOf(keys)[k].text]

(* A wild card search starts at the first entry that is not below the keys *)
(* before the wild card, also when none has just these keys.               *)
WildStart ==
    Loaded =>
        \A keys \in Keystrokes(th.n_max_keystroke) :
            LET codes == Keys2Codes(AllOf(0), KeyWords, keys)
            IN  Bsearch(codes, TRUE) =
                  Cardinality({k \in DOMAIN tab.icode :
                                  Less(tab.icode[k], codes, tab.icode_mode)})
=============================================================================
