------------------------------- MODULE CharCode -------------------------------
(***************************************************************************)
(* The characters of an encoding, src/src/Cinput/im_comm/charcode.c: an    *)
(* encoding is a sequence of schemas, a schema a sequence of planes (one   *)
(* per byte), a plane a sequence of ranges <<begin, end>> of that byte, as *)
(* sys.tab holds them.  The characters are numbered from 0, schema after   *)
(* schema; within a schema the first byte counts least.                    *)
(***************************************************************************)
EXTENDS Integers, SequencesExt

CONSTANTS
    WCH_SIZE,      \* bytes in a wch_t
    N_ENC_SCHEMA   \* schemas a sys.tab has room for

VARIABLES
    charcode,     \* per schema and byte: its ranges, ac_num[], total_num, base
    total_char    \* per schema: its characters

(* read_encoding() of cin2tab (src/src/util/cin2tab/syscin.c): each line   *)
(* of "%charcode" adds a range to a plane of the schema being read;        *)
(* "%schema" goes on to the next one.  A file with too many of either is   *)
(* left out.                                                               *)
NextSchema == [plane |-> 0, range |-> <<>>]
NoRules == [s \in 1 .. N_ENC_SCHEMA |-> [i \in 1 .. WCH_SIZE |-> <<>>]]
ReadRule(read, rule) ==
    IF rule = NextSchema THEN [read EXCEPT !.schema = @ + 1]
    ELSE [read EXCEPT !.ccp[read.schema][rule.plane] = Append(@, rule.range)]
ReadEncoding(rules) ==
    FoldLeft(ReadRule, [schema |-> 1, ccp |-> NoRules], rules).ccp

(* What ccode_init() looks at: the schemas up to one without a first       *)
(* plane, the planes of each up to one without ranges.                     *)
UpToEmpty(seq, filled) ==
    SubSeq(seq, 1, Max({k \in 0 .. Len(seq) : 1 .. k \subseteq filled}))
Planes(schema) == UpToEmpty(schema, {i \in DOMAIN schema : schema[i] # <<>>})
Used(ccp) ==
    LET some == UpToEmpty(ccp, {s \in DOMAIN ccp : ccp[s][1] # <<>>})
    IN  [s \in DOMAIN some |-> Planes(some[s])]

Size(range) == range[2] - range[1] + 1
Total(ranges) == FoldLeft(LAMBDA n, r : n + Size(r), 0, ranges)
CodeBase(schema, i) ==
    FoldLeft(LAMBDA n, plane : n * Total(plane), 1, SubSeq(schema, 1, i - 1))

(* ccode_init(): the tables for the ranges of sys.tab. *)
CcodeInit(ccp) ==
    /\ charcode =
         [s \in DOMAIN ccp |->
             [i \in DOMAIN ccp[s] |->
                 [range     |-> ccp[s][i],
                  ac_num    |-> [j \in DOMAIN ccp[s][i] |->
                                    Total(SubSeq(ccp[s][i], 1, j - 1))],
                  total_num |-> Total(ccp[s][i]),
                  base      |-> CodeBase(ccp[s], i)]]]
    /\ total_char = [s \in DOMAIN ccp |-> CodeBase(ccp[s], Len(ccp[s]) + 1)]

\* The characters of the schemas before this one; ccode_info().
Before(s) == FoldLeft(+, 0, SubSeq(total_char, 1, s - 1))
TotalChar == Before(Len(total_char) + 1)

InRange(byte, range) == byte \in range[1] .. range[2]
InPlane(byte, plane) == \E r \in ToSet(plane.range) : InRange(byte, r)

(* mbtowch_enc(): the schemas the text begins with a character of. *)
SchemasOf(text) ==
    {s \in DOMAIN charcode :
        /\ Len(charcode[s]) <= Len(text)
        /\ \A i \in DOMAIN charcode[s] : InPlane(text[i], charcode[s][i])}

\* The first schema that matches; match_encoding().
SchemaOf(text) == CHOOSE s \in SchemasOf(text) : \A t \in SchemasOf(text) : s <= t

(* mbtowch(): the length of the character the text begins with, 0 if none. *)
MbToWch(text) ==
    IF SchemasOf(text) = {} THEN 0 ELSE Len(charcode[SchemaOf(text)])

RangeAt(byte, plane) == CHOOSE j \in DOMAIN plane.range : InRange(byte, plane.range[j])
DigitAt(byte, plane, j) == (byte - plane.range[j][1] + plane.ac_num[j]) * plane.base
Digit(byte, plane) == DigitAt(byte, plane, RangeAt(byte, plane))

\* The number in its schema, if it is one.
Numbered(s, sum) == IF sum > total_char[s] THEN -1 ELSE sum + Before(s)

IdxIn(s, ch) ==
    Numbered(s, FoldLeftDomain(LAMBDA n, i : n + Digit(ch[i], charcode[s][i]), 0, ch))

(* ccode_to_idx().  The bytes behind the planes of the schema match none.  *)
CcodeToIdx(ch) ==
    IF SchemasOf(ch) = {} \/ Len(ch) > Len(charcode[SchemaOf(ch)])
      THEN -1 ELSE IdxIn(SchemaOf(ch), ch)

(* ccode_to_char(): <<>> if there is no such character.  The range of a    *)
(* byte is the last one whose ac_num does not exceed the digit.            *)
ByteIn(plane, digit, j) == digit - plane.ac_num[j] + plane.range[j][1]
ByteOf(plane, digit) ==
    ByteIn(plane, digit,
           CHOOSE j \in DOMAIN plane.range :
               /\ digit >= plane.ac_num[j]
               /\ j = Len(plane.range) \/ digit < plane.ac_num[j + 1])
CharOf(schema, idx) ==
    [i \in DOMAIN schema |->
        ByteOf(schema[i], (idx \div schema[i].base) % schema[i].total_num)]
SchemasWith(idx) ==
    {s \in DOMAIN charcode : idx >= Before(s) /\ idx < Before(s) + total_char[s]}
CcodeToChar(idx) ==
    LET in == SchemasWith(idx)
    IN  IF in = {} THEN <<>>
        ELSE LET s == CHOOSE t \in in : TRUE IN CharOf(charcode[s], idx - Before(s))

(* load_syscin(): what cin2tab has written is read back. *)
LoadSyscin(rules) == CcodeInit(Used(ReadEncoding(rules)))
=============================================================================
