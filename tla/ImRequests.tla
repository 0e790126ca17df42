----------------------------- MODULE ImRequests -----------------------------
(***************************************************************************)
(* Requests and answers of the XIM protocol library: how the handlers of   *)
(* lib/IMdkit (i18nPtHdr.c, i18nIc.c, i18nUtil.c, i18nClbk.c, i18nMethod.c)*)
(* take a message apart with the frame manager and put an answer together, *)
(* and what xcin's side of them (ic_set_values and ic_get_values of        *)
(* xim_IC.c) keeps and returns.  One client with one IC; XimProtocol has   *)
(* many.                                                                   *)
(*                                                                         *)
(* Left out: byte order, allocation that fails, and the debugging output.  *)
(* A long has 4 bytes, as on the machines the program was written for.     *)
(* PreeditState, which switches input methods, is ImContext's.             *)
(***************************************************************************)
EXTENDS FrameMgr, SequencesExt

CONSTANTS
    OnKeys,       \* the trigger keys: <<keysym, modifier, modifier mask>>
    StyleNames,   \* the words of INPUT_STYLE in the rcfile
    fg_color, bg_color,
    Uninitialised, \* what a length may be that nobody has set
    Requests,     \* bound: what the client sends
    Notices       \* bound: what xcin sends of its own accord

(* FoldLeft of SequencesExt goes over the subsets of the sequence's domain;*)
(* the sequences here are too long for that.  Each step binds the result   *)
(* of the one before, so that TLC has its value before it goes on.         *)
FoldUp(op(_, _), base, seq) ==
  LET upTo[k \in 0 .. Len(seq)] ==
        IF k = 0 THEN base ELSE CHOOSE r \in {op(b, seq[k]) : b \in {upTo[k - 1]}} : TRUE
  IN  upTo[Len(seq)]

---------------------------------------------------------------------------
(* Attributes.                                                             *)
XimType == [SeparatorOfNestedList |-> 0, CARD32 |-> 3, Window |-> 5, XIMStyles |-> 10,
            XRectangle |-> 11, XPoint |-> 12, XFontSet |-> 13, XIMValuesList |-> 18,
            NEST |-> 32767]

Attr(name, length, type) == [name |-> name, length |-> length, type |-> type]

Default_IMattr ==
  << Attr("queryInputStyle", 15, "XIMStyles"),
     Attr("queryIMValuesList", 17, "XIMValuesList") >>
Default_ICattr ==
  << Attr("inputStyle", 10, "CARD32"), Attr("clientWindow", 12, "Window"),
     Attr("focusWindow", 11, "Window"), Attr("filterEvents", 12, "CARD32"),
     Attr("preeditAttributes", 17, "NEST"), Attr("statusAttributes", 16, "NEST"),
     Attr("fontSet", 7, "XFontSet"), Attr("area", 4, "XRectangle"),
     Attr("areaNeeded", 10, "XRectangle"), Attr("colorMap", 8, "CARD32"),
     Attr("stdColorMap", 11, "CARD32"), Attr("foreground", 10, "CARD32"),
     Attr("background", 10, "CARD32"), Attr("backgroundPixmap", 16, "CARD32"),
     Attr("spotLocation", 12, "XPoint"), Attr("lineSpace", 9, "CARD32"),
     Attr("preeditState", 12, "CARD32"),
     Attr("separatorofNestedList", 21, "SeparatorOfNestedList") >>
Default_Extension ==
  << [name |-> "XIM_EXT_MOVE", length |-> 12, minor |-> 51],
     [name |-> "XIM_EXT_SET_EVENT_MASK", length |-> 22, minor |-> 48],
     [name |-> "XIM_EXT_FORWARD_KEYEVENT", length |-> 24, minor |-> 50] >>
XIM_EXTENSION == 128
zhEncodings == << "COMPOUND_TEXT" >>

(* The styles xcin offers: a word of the rcfile it does not know is one    *)
(* without a style.                                                        *)
im_styles == [Root |-> 1032, OverTheSpot |-> 1028, OnTheSpot |-> 514]
toggle_im_styles(word) == IF word \in DOMAIN im_styles THEN im_styles[word] ELSE 0
setup_input_styles(words) ==
  IF words = <<>> THEN <<toggle_im_styles("Root")>>
  ELSE [k \in DOMAIN words |-> toggle_im_styles(words[k])]
Styles == setup_input_styles(StyleNames)

(* The ids are quarks: each name has one of its own.                       *)
CreateAttrList(list, quark) ==
  [k \in DOMAIN list |->
     [id |-> quark + k, name |-> list[k].name, length |-> list[k].length,
      type |-> list[k].type]]
xim_attr == CreateAttrList(Default_IMattr, 0)
xic_attr == CreateAttrList(Default_ICattr, Len(Default_IMattr))

IdOf(name) == LET k == CHOOSE k \in DOMAIN xic_attr : xic_attr[k].name = name
              IN  xic_attr[k].id
Known(id) == \E k \in DOMAIN xic_attr : xic_attr[k].id = id
AttrOf(id) == xic_attr[CHOOSE k \in DOMAIN xic_attr : xic_attr[k].id = id]
NameOf(id) == IF Known(id) THEN AttrOf(id).name ELSE ""
TypeOfId(id) == IF Known(id) THEN AttrOf(id).type ELSE "SeparatorOfNestedList"
IsNestedList(id) == TypeOfId(id) = "NEST"
IsSeparator(id) == NameOf(id) = "separatorofNestedList"

---------------------------------------------------------------------------
(* What a client says.  An attribute has a value of numbers, a font name   *)
(* or a list of attributes, as its type wants.                             *)
Str(text, length) == [text |-> text, length |-> length]
NoStr == Str("", 0)
Value(id, nums, text, attrs) == [id |-> id, nums |-> nums, text |-> text, attrs |-> attrs]
Nums(name, nums) == Value(IdOf(name), nums, NoStr, <<>>)
Font(text) == Value(IdOf("fontSet"), <<>>, text, <<>>)
Nest(name, attrs) == Value(IdOf(name), <<>>, NoStr, attrs)

Request(op, names, infos, ids, attrs) ==
  [op |-> op, names |-> names, infos |-> infos, ids |-> ids, attrs |-> attrs]
NoRequest == Request("", <<>>, <<>>, <<>>, <<>>)

connect_id == 1
icid == 2

(* The bytes of a message by the protocol: pieces one behind the other,    *)
(* padded to a multiple of four where it says so.                          *)
N(size, num) == [bytes |-> Number(size, num), size |-> size]
Chars(str) == [bytes |-> Text(str.length, str.text), size |-> str.length]
Unused(size) == [bytes |-> <<>>, size |-> size]
Behind(p, q) == [bytes |-> p.bytes @@ Shifted(q.bytes, p.size), size |-> p.size + q.size]
Pieces(ps) == FoldUp(Behind, Unused(0), ps)
Padded(p) == [p EXCEPT !.size = 4 * ((@ + 3) \div 4)]
Each(seq, Layout(_)) == Pieces([k \in DOMAIN seq |-> Layout(seq[k])])

LayoutStr(str) == Behind(N(1, str.length), Chars(str))
LayoutInfo(str) == Padded(Behind(N(2, str.length), Chars(str)))
LayoutId(id) == N(2, id)
LayoutLong(num) == N(4, num)
LayoutAttr(id, value) == Padded(Pieces(<<N(2, id), N(2, value.size), value>>))

LayoutLeaf(v) ==
  CASE TypeOfId(v.id) = "XFontSet" -> LayoutInfo(v.text)
    [] TypeOfId(v.id) \in {"XRectangle", "XPoint"} -> Each(v.nums, LayoutId)
    [] OTHER -> Each(v.nums, LayoutLong)
LayoutNested(v) == LayoutAttr(v.id, LayoutLeaf(v))
LayoutValue(v) == IF IsNestedList(v.id) THEN Each(v.attrs, LayoutNested) ELSE LayoutLeaf(v)
LayoutSet(v) == LayoutAttr(v.id, LayoutValue(v))

Layout(m) ==
  LET names == Each(m.names, LayoutStr)
      infos == Each(m.infos, LayoutInfo)
      ids == Each(m.ids, LayoutId)
      attrs == Each(m.attrs, LayoutSet)
      im == N(2, connect_id)
      ic == N(2, icid)
  IN  CASE m.op = "OPEN" -> Padded(names)
        [] m.op = "QUERY_EXTENSION" -> Pieces(<<im, N(2, names.size), Padded(names)>>)
        [] m.op = "GET_IM_VALUES" -> Pieces(<<im, N(2, ids.size), Padded(ids)>>)
        [] m.op = "ENCODING_NEGOTIATION" ->
             Pieces(<<im, N(2, names.size), Padded(names), N(2, infos.size), Unused(2), infos>>)
        [] m.op = "CREATE_IC" -> Pieces(<<im, N(2, attrs.size), attrs>>)
        [] m.op = "SET_IC_VALUES" -> Pieces(<<im, ic, N(2, attrs.size), Unused(2), attrs>>)
        [] m.op = "GET_IC_VALUES" ->
             Pieces(<<im, ic, Padded(Behind(N(2, ids.size), ids))>>)
        [] m.op = "RESET_IC" -> Behind(im, ic)
        [] m.op = "EXT_MOVE" -> Pieces(<<im, ic, ids>>)
        [] m.op = "EXT_FORWARD_KEYEVENT" ->
             Pieces(<<im, ic, N(2, m.ids[1]), N(2, m.ids[2]), N(1, m.ids[3]), N(1, m.ids[4]),
                      N(2, m.ids[5]), N(4, m.ids[6]), N(4, m.ids[7])>>)

---------------------------------------------------------------------------
VARIABLES
    phase,       \* what the library is doing: "idle", or with a request "read",
                 \* "group", "serve", or with its answers "write", "send"
    request,     \* the message it is about
    fm,          \* the frame manager over it
    lists,       \* the lists read from it, the last one still being read
    groups,      \* _Xi18nGetIC: i, ic_attr, pre_attr, sts_attr
    jobs,        \* the messages still to be built
    out,         \* the message just built: its bytes, their end, the size sent
    created,     \* the client has its IC
    ic_rec,      \* what xcin keeps of the IC's values
    view         \* what the client set last

vars == <<phase, request, fm, lists, groups, jobs, out, created, ic_rec, view>>

Message == [bytes |-> <<>>, used |-> 0, total |-> 0]
NoGroups == [i |-> 0, ic |-> <<>>, pre |-> <<>>, sts |-> <<>>]
Plain(nums) == [nums |-> nums, text |-> ""]

(* new_IC clears the record.                                               *)
NewRec ==
  [inputStyle |-> Plain(<<0>>), clientWindow |-> Plain(<<0>>), focusWindow |-> Plain(<<0>>),
   area |-> Plain(<<0, 0, 0, 0>>), spotLocation |-> Plain(<<0, 0>>), fontSet |-> Plain(<<>>),
   foreground |-> Plain(<<0>>), background |-> Plain(<<0>>), lineSpace |-> Plain(<<0>>)]

Init ==
    /\ phase = "idle"
    /\ request = NoRequest
    /\ fm = FrameMgrInit(open_fr, <<>>)
    /\ lists = <<>>
    /\ groups = NoGroups
    /\ jobs = <<>>
    /\ out = Message
    /\ created = FALSE
    /\ ic_rec = NewRec
    /\ view = NewRec

---------------------------------------------------------------------------
(* Taking a message apart.                                                 *)
Table ==
  [OPEN |-> open_fr, QUERY_EXTENSION |-> query_extension_fr,
   GET_IM_VALUES |-> get_im_values_fr, ENCODING_NEGOTIATION |-> encoding_negotiation_fr,
   CREATE_IC |-> create_ic_fr, SET_IC_VALUES |-> set_ic_values_fr,
   GET_IC_VALUES |-> get_ic_values_fr, RESET_IC |-> reset_ic_fr,
   EXT_FORWARD_KEYEVENT |-> ext_forward_keyevent_fr, EXT_MOVE |-> ext_move_fr]
(* The numbers in front of the list: the ids, and its length in bytes.     *)
Header ==
  [OPEN |-> 0, QUERY_EXTENSION |-> 2, GET_IM_VALUES |-> 2, ENCODING_NEGOTIATION |-> 2,
   CREATE_IC |-> 2, SET_IC_VALUES |-> 3, GET_IC_VALUES |-> 3, RESET_IC |-> 2,
   EXT_FORWARD_KEYEVENT |-> 2, EXT_MOVE |-> 2]

RECURSIVE GetNumbers(_, _, _), GetMore(_, _, _)
GetNumbers(f, n, nums) ==
  IF n = 0 THEN [fm |-> f, nums |-> nums] ELSE GetMore(_FrameMgrGetToken(f), n, nums)
GetMore(token, n, nums) == GetNumbers(token.fm, n - 1, Append(nums, token.value.num))

(* A length, and so many bytes.                                            *)
Taken(id, length, token) ==
  [fm |-> token.fm, item |-> [id |-> id, length |-> length, bytes |-> token.value.bytes]]
TakeBytes(id, token) ==
  Taken(id, token.value.num, _FrameMgrGetToken(FrameMgrSetSize(token.fm, token.value.num)))
TakeStr(f, id) == TakeBytes(id, _FrameMgrGetToken(f))
TakeAttr(token) == TakeStr(token.fm, token.value.num)
TakeId(token) == Taken(token.value.num, 0, Token(token.fm, 0, <<>>))

Take(op, f) ==
  CASE op \in {"CREATE_IC", "SET_IC_VALUES"} -> TakeAttr(_FrameMgrGetToken(f))
    [] op \in {"GET_IM_VALUES", "GET_IC_VALUES", "EXT_FORWARD_KEYEVENT", "EXT_MOVE"} -> TakeId(_FrameMgrGetToken(f))
    [] OTHER -> TakeStr(f, 0)

(* What is asked about the input method itself is the same for every IC:   *)
(* a bound leaves it to the time before there is one.                      *)
BeforeIC == {"OPEN", "QUERY_EXTENSION", "GET_IM_VALUES", "ENCODING_NEGOTIATION", "CREATE_IC"}

(* Some messages have so many items and no list.                           *)
Items == [OPEN |-> 1, EXT_FORWARD_KEYEVENT |-> 7, EXT_MOVE |-> 2]
ListEnd(op, f, read) ==
  IF op \in DOMAIN Items THEN [fm |-> f, end |-> Len(read) = Items[op]]
                         ELSE FrameMgrIsIterLoopEnd(f)

Receive(m) ==
    /\ phase = "idle"
    /\ created <=> m.op \notin BeforeIC
    /\ request' = m
    /\ fm' = GetNumbers(FrameMgrInit(Table[m.op], Layout(m).bytes), Header[m.op], <<>>).fm
    /\ lists' = << <<>> >>
    /\ phase' = IF m.op = "RESET_IC" THEN "serve" ELSE "read"
    /\ UNCHANGED <<groups, jobs, out, created, ic_rec, view>>

(* An item of the list, or what is behind its end: only ENCODING_NEGOTIATION*)
(* has a second list, and looks whether it is empty.                       *)
ReadItem(loop, took) ==
    /\ ~loop.end
    /\ fm' = took.fm
    /\ lists' = [lists EXCEPT ![Len(lists)] = Append(@, took.item)]
    /\ UNCHANGED <<phase, request, groups, jobs, out, created, ic_rec, view>>

EndOfList(loop, length) ==
    /\ loop.end
    /\ IF request.op = "ENCODING_NEGOTIATION" /\ Len(lists) = 1
       THEN /\ fm' = length.fm
            /\ lists' = Append(lists, <<>>)
            /\ phase' = IF length.value.num > 0 THEN "read" ELSE "serve"
       ELSE /\ fm' = loop.fm
            /\ phase' = IF request.op = "GET_IC_VALUES" THEN "group" ELSE "serve"
            /\ UNCHANGED lists
    /\ UNCHANGED <<request, groups, jobs, out, created, ic_rec, view>>

Read ==
    /\ phase = "read"
    /\ \E loop \in {ListEnd(request.op, fm, Last(lists))} :
         \/ ReadItem(loop, Take(request.op, loop.fm))
         \/ EndOfList(loop, _FrameMgrGetToken(loop.fm))

---------------------------------------------------------------------------
(* GET_IC_VALUES: which of the ids are the IC's own attributes, and which  *)
(* belong to a nested list, up to its separator.                           *)
IdAt(ids, i) == IF i < Len(ids) THEN ids[i + 1].id ELSE 0

(* The attributes asked for at place i.  An id nobody knows in a nested    *)
(* list is never got past.                                                 *)
GetICValue(ids, i, list_num) ==
  LET stops == {n \in 1 .. list_num : n = list_num \/ IsSeparator(IdAt(ids, i + n))}
      stop == CHOOSE n \in stops : \A k \in stops : n <= k
      id == IdAt(ids, i)
  IN  IF IsNestedList(id)
      THEN [ends |-> \A n \in 1 .. stop - 1 : Known(IdAt(ids, i + n)),
            ret |-> [n \in 1 .. stop - 1 |-> IdAt(ids, i + n)]]
      ELSE [ends |-> TRUE, ret |-> IF Known(id) THEN <<id>> ELSE <<>>]

GroupIds ==
    /\ phase = "group"
    /\ LET ids == Last(lists)
           id == IdAt(ids, groups.i)
           read == GetICValue(ids, groups.i, Len(ids))
       IN  /\ groups.i < Len(ids)
           /\ read.ends
           /\ groups' =
                CASE NameOf(id) = "preeditAttributes" ->
                       [groups EXCEPT !.i = @ + Len(read.ret) + 1, !.pre = @ \o read.ret]
                  [] NameOf(id) = "statusAttributes" ->
                       [groups EXCEPT !.i = @ + Len(read.ret) + 1, !.sts = @ \o read.ret]
                  [] OTHER ->
                       [groups EXCEPT !.i = @ + Len(read.ret), !.ic = @ \o read.ret]
    /\ UNCHANGED <<phase, request, fm, lists, jobs, out, created, ic_rec, view>>

EndOfGroups ==
    /\ phase = "group"
    /\ groups.i >= Len(Last(lists))
    /\ phase' = "serve"
    /\ UNCHANGED <<request, fm, lists, groups, jobs, out, created, ic_rec, view>>

---------------------------------------------------------------------------
(* Building a message: the counts and sizes its table wants to know, in    *)
(* their order, and then its tokens.  A size may be asked back in between. *)
Job(op, t, shape, tokens) == [op |-> op, t |-> t, shape |-> shape, tokens |-> tokens]
Count(n) == [count |-> TRUE, n |-> n]
Sized(n) == [count |-> FALSE, n |-> n]
Put(num) == [do |-> "put", token |-> Num(num)]
PutBytes(bytes) == [do |-> "put", token |-> Bytes(bytes)]
AskSize == [do |-> "ask", token |-> Num(0)]
PutSize == [do |-> "put size", token |-> Num(0)]

Shape(f, s) == IF s.count THEN FrameMgrSetIterCount(f, s.n) ELSE FrameMgrSetSize(f, s.n)
PutToken(w, t) ==
  IF t.do = "ask" THEN [w EXCEPT !.size = FrameMgrGetSize(w.fm)]
  ELSE [w EXCEPT !.fm = _FrameMgrPutToken(@, IF t.do = "put size" THEN Num(w.size) ELSE t.token)]

Packed(shaped, written) ==
  [bytes |-> written.fm.area, used |-> written.fm.idx, total |-> FrameMgrGetTotalSize(shaped)]
Filled(shaped, tokens) ==
  Packed(shaped, FoldUp(PutToken, [fm |-> FrameMgrSetBuffer(shaped), size |-> 0], tokens))
Built(job) == Filled(FoldUp(Shape, FrameMgrInit(job.t, <<>>), job.shape), job.tokens)

PutEach(nums) == [k \in DOMAIN nums |-> Put(nums[k])]
SizedEach(list) == [k \in DOMAIN list |-> Sized(list[k].length)]
Record(t, nums) == Built(Job("", t, <<>>, PutEach(nums))).bytes

(* OPEN.                                                                   *)
_Xi18nSendTriggerKey ==
  Job("REGISTER_TRIGGERKEYS", register_triggerkeys_fr, <<Count(Len(OnKeys)), Count(0)>>,
      <<Put(0)>> \o FlattenSeq([k \in DOMAIN OnKeys |-> PutEach(OnKeys[k])]))

PutAttrs(list) ==
  FlattenSeq([k \in DOMAIN list |->
    << AskSize, Put(list[k].id), Put(XimType[list[k].type]), PutSize,
       PutBytes(Text(list[k].length, list[k].name)) >>])
OpenReply ==
  Job("OPEN_REPLY", open_reply_fr,
      <<Count(Len(xim_attr))>> \o SizedEach(xim_attr)
        \o <<Count(Len(xic_attr))>> \o SizedEach(xic_attr),
      <<Put(connect_id)>> \o PutAttrs(xim_attr) \o PutAttrs(xic_attr))

(* QUERY_EXTENSION: those of the named ones there are, in their own order. *)
NameIn(item) == IF item.length = 0 THEN "" ELSE item.bytes[0].text
MakeExtensionList(asked) ==
  IF asked = <<>> THEN Default_Extension
  ELSE SelectSeq(Default_Extension, LAMBDA e : \E k \in DOMAIN asked : NameIn(asked[k]) = e.name)

QueryExtensionReply(asked) ==
  LET exts == MakeExtensionList(asked)
  IN  Job("QUERY_EXTENSION_REPLY", query_extension_reply_fr,
          <<Count(Len(exts))>> \o SizedEach(exts),
          <<Put(connect_id)>> \o FlattenSeq([k \in DOMAIN exts |->
            << AskSize, Put(XIM_EXTENSION), Put(exts[k].minor), PutSize,
               PutBytes(Text(exts[k].length, exts[k].name)) >>]))

(* GET_IM_VALUES: the styles are a message of their own within the answer. *)
(* Any other attribute has no value, but the length of the one before it:  *)
(* value_length is not set, at first it is whatever was on the stack.      *)
GetIMValueFromName(name, value_length) ==
  IF name = "queryInputStyle"
  THEN [length |-> 4 + 4 * Len(Styles),
        bytes |-> Built(Job("", input_styles_fr, <<Count(Len(Styles))>>,
                            <<Put(Len(Styles))>> \o PutEach(Styles))).bytes]
  ELSE [length |-> value_length, bytes |-> <<>>]

WithIMAttribute(made, i) ==
  LET value == GetIMValueFromName(xim_attr[i.id].name, made.value_length)
  IN  [list |-> Append(made.list, [id |-> i.id] @@ value), value_length |-> value.length]
MakeIMAttributeList(ids, value_length) ==
  FoldUp(WithIMAttribute, [list |-> <<>>, value_length |-> value_length],
         SelectSeq(ids, LAMBDA i : \E k \in DOMAIN xim_attr : xim_attr[k].id = i.id)).list

PutValues(list) ==
  FlattenSeq([k \in DOMAIN list |->
    <<Put(list[k].id), Put(list[k].length), PutBytes(list[k].bytes)>>])
GetIMValuesReply(ids, value_length) ==
  LET list == MakeIMAttributeList(ids, value_length)
  IN  Job("GET_IM_VALUES_REPLY", get_im_values_reply_fr,
          <<Count(Len(list))>> \o SizedEach(list), <<Put(connect_id)>> \o PutValues(list))

(* ENCODING_NEGOTIATION: the first offer that is xcin's encoding, or the   *)
(* first of all where none is.                                             *)
ChooseEncoding(offered) ==
  LET shared == {k \in DOMAIN offered : \E e \in DOMAIN zhEncodings :
                                          zhEncodings[e] = NameIn(offered[k])}
  IN  IF shared = {} THEN 0 ELSE (CHOOSE k \in shared : \A j \in shared : k <= j) - 1
EncodingNegotiationReply(offered) ==
  Job("ENCODING_NEGOTIATION_REPLY", encoding_negotiation_reply_fr, <<>>,
      <<Put(connect_id), Put(0), Put(ChooseEncoding(offered))>>)

---------------------------------------------------------------------------
(* CREATE_IC and SET_IC_VALUES.                                            *)
IMPAD(length) == (4 - (length % 4)) % 4
Rest(bytes, at) == [o \in {k - at : k \in {k \in DOMAIN bytes : k >= at}} |-> bytes[at + o]]
Numbers(t, bytes) == GetNumbers(FrameMgrInit(t, bytes), Len(t) - 1, <<>>).nums

(* The table of an attribute's value, by its type and length.              *)
HasFrame(type, length) ==
  \/ type \in {"CARD32", "Window"} /\ length \in {2, 4}
  \/ type \in {"XRectangle", "XPoint"}
ValueFrame(type, length) ==
  CASE type = "XRectangle" -> xrectangle_fr
    [] type = "XPoint" -> xpoint_fr
    [] OTHER -> IF length = 4 THEN long_fr ELSE short_fr

(* One attribute: its value, and the bytes it takes in value_buf.  One of  *)
(* a nested list that nobody knows takes a place all the same, with        *)
(* nothing in it, but is not counted.                                      *)
Leaf(id, nums, text, used) == <<[id |-> id, nums |-> nums, text |-> text, used |-> used]>>
FontLeaf(id, font) == Leaf(id, <<>>, NameIn(font), font.length + 1)
Gap == [id |-> 0, nums |-> <<>>, text |-> "", used |-> 0]
InPlace(read) == IF read = <<>> THEN <<Gap>> ELSE read

RECURSIVE ReadICValue(_, _, _), ReadNested(_, _, _), ReadAttribute(_, _, _, _)
ReadICValue(id, length, bytes) ==
  CASE TypeOfId(id) = "NEST" -> ReadNested(bytes, 0, length)
    [] TypeOfId(id) = "XFontSet" -> FontLeaf(id, TakeStr(FrameMgrInit(fontset_fr, bytes), id).item)
    [] HasFrame(TypeOfId(id), length) ->
         Leaf(id, Numbers(ValueFrame(TypeOfId(id), length), bytes), "", length)
    [] OTHER -> <<>>

ReadNested(bytes, total_length, value_length) ==
  IF total_length >= value_length THEN <<>>
  ELSE ReadAttribute(bytes, total_length, value_length,
                     Numbers(attr_head_fr, Rest(bytes, total_length)))
ReadAttribute(bytes, total_length, value_length, head) ==
  InPlace(ReadICValue(head[1], head[2], Rest(bytes, total_length + 4)))
    \o ReadNested(bytes, total_length + 4 + head[2] + IMPAD(head[2]), value_length)

(* What is read goes behind as many places as have been counted; a gap     *)
(* leaves what is there.  Only so many places are looked at in the end.    *)
PlaceAt(places, k) == IF k \in DOMAIN places THEN places[k] ELSE Gap
PlacedAt(places, number, read) ==
  [k \in 1 .. number + Len(read) |->
     IF k > number /\ read[k - number] # Gap THEN read[k - number] ELSE PlaceAt(places, k)]
    @@ places
WithAttribute(done, a) ==
  LET read == ReadICValue(a.id, a.length, a.bytes)
  IN  [places |-> PlacedAt(done.places, done.number, read),
       number |-> done.number + Len(SelectSeq(read, LAMBDA r : r # Gap))]
ReadEach(list) ==
  LET done == FoldUp(WithAttribute, [places |-> <<>>, number |-> 0], list)
  IN  SelectSeq(SubSeq(done.places, 1, done.number), LAMBDA r : r # Gap)
ic_attr(list) == SelectSeq(list, LAMBDA a : ~IsNestedList(a.id))
preedit_attr(list) == SelectSeq(list, LAMBDA a : NameOf(a.id) = "preeditAttributes")

(* xcin keeps what it knows of; an input style it was not started with     *)
(* becomes Root.  Status attributes are not looked at.                     *)
SetICAttr(rec, a) ==
  LET name == NameOf(a.id)
  IN  CASE name = "inputStyle" /\ ~Contains(Styles, a.nums[1]) ->
             [rec EXCEPT !.inputStyle = Plain(<<im_styles.Root>>)]
        [] name \in {"inputStyle", "clientWindow", "focusWindow"} /\
             (name = "inputStyle" => Contains(Styles, a.nums[1])) ->
             [rec EXCEPT ![name] = Plain(a.nums)]
        [] OTHER -> rec
SetPreeditAttr(rec, a) ==
  IF NameOf(a.id) \in {"area", "spotLocation", "fontSet", "foreground", "background", "lineSpace"}
  THEN [rec EXCEPT ![NameOf(a.id)] = [nums |-> a.nums, text |-> a.text]]
  ELSE rec
ic_set_values(rec, list) ==
  FoldUp(SetPreeditAttr, FoldUp(SetICAttr, rec, ReadEach(ic_attr(list))),
         ReadEach(preedit_attr(list)))

ChangeICReply ==
  IF request.op = "CREATE_IC"
  THEN Job("CREATE_IC_REPLY", create_ic_reply_fr, <<>>, <<Put(connect_id), Put(icid)>>)
  ELSE Job("SET_IC_VALUES_REPLY", set_ic_values_reply_fr, <<>>, <<Put(connect_id), Put(icid)>>)

(* What the room for the values has, and what they take of it.             *)
TotalValueLength(list) == FoldUp(LAMBDA sum, a : sum + a.length + 1, 0, list)
ValueBytes(list) == FoldUp(LAMBDA sum, a : sum + a.used, 0, ReadEach(list))

---------------------------------------------------------------------------
(* GET_IC_VALUES.  What xcin does not know of stays empty, the status      *)
(* attributes among it.                                                    *)
KeyPressMask == 1
ICValue(name) ==
  CASE name = "filterEvents" -> [length |-> 4, nums |-> <<KeyPressMask>>]
    [] name = "inputStyle" -> [length |-> 4, nums |-> ic_rec.inputStyle.nums]
    [] name = "separatorofNestedList" -> [length |-> 2, nums |-> <<0>>]
    [] OTHER -> [length |-> 0, nums |-> <<>>]
PreeditValue(name) ==
  CASE name = "area" -> [length |-> 8, nums |-> ic_rec.area.nums]
    [] name = "spotLocation" -> [length |-> 4, nums |-> ic_rec.spotLocation.nums]
    [] name = "foreground" -> [length |-> 4, nums |-> <<fg_color>>]
    [] name = "background" -> [length |-> 4, nums |-> <<bg_color>>]
    [] name = "lineSpace" -> [length |-> 4, nums |-> ic_rec.lineSpace.nums]
    [] OTHER -> [length |-> 0, nums |-> <<>>]
NoICValue(name) == [length |-> 0, nums |-> <<>>]

ic_get_values ==
  [ic  |-> [k \in DOMAIN groups.ic |->
               [id |-> groups.ic[k]] @@ ICValue(NameOf(groups.ic[k]))],
   pre |-> [k \in DOMAIN groups.pre |->
               [id |-> groups.pre[k]] @@ PreeditValue(NameOf(groups.pre[k]))],
   sts |-> [k \in DOMAIN groups.sts |->
               [id |-> groups.sts[k]] @@ NoICValue(NameOf(groups.sts[k]))]]

(* One attribute of a nested list: its head, and its value by its type. An *)
(* area or a spot that was left empty is not asked for here.               *)
GetAttribute(a) ==
  Record(attr_head_fr, <<a.id, a.length>>)
    @@ (IF a.length > 0 /\ HasFrame(TypeOfId(a.id), a.length)
        THEN Shifted(Record(ValueFrame(TypeOfId(a.id), a.length), a.nums), 4) ELSE <<>>)

NestWith(nest, a) ==
  [nest EXCEPT !.bytes = @ @@ Shifted(GetAttribute(a), nest.length),
               !.length = @ + 4 + a.length + IMPAD(a.length)]

CreateNestedList(id, list) == FoldUp(NestWith, [id |-> id, length |-> 0, bytes |-> <<>>], list)
NestsOf(pairs) == [k \in DOMAIN pairs |-> CreateNestedList(pairs[k].id, pairs[k].list)]
Pair(name, list) ==
  IF list = <<>> THEN <<>> ELSE << [id |-> IdOf(name), list |-> list] >>

GetICAnswer(list) ==
  Job("GET_IC_VALUES_REPLY", get_ic_values_reply_fr, <<Count(Len(list))>> \o SizedEach(list),
      <<Put(connect_id), Put(icid)>> \o PutValues(list))
GetICReply ==
  LET got == ic_get_values
      own == got.ic
      raw == [k \in DOMAIN own |->
                [id |-> own[k].id, length |-> own[k].length,
                 bytes |-> IF own[k].length = 0 THEN <<>>
                           ELSE Number(own[k].length, own[k].nums[1])]]
  IN  GetICAnswer(raw \o NestsOf(
        Pair("preeditAttributes", got.pre) \o Pair("statusAttributes", got.sts)))

(* RESET_IC: xcin has no text to give back.                                *)
ResetICReply ==
  Job("RESET_IC_REPLY", reset_ic_reply_fr, <<Sized(0)>>,
      <<Put(connect_id), Put(icid), Put(0), PutBytes(<<>>)>>)

(* A key forwarded by the extension must be a press; xcin knows neither    *)
(* this message nor EXT_MOVE and says nothing to them.                     *)
KeyPress == 2
ExtForwardKeyEvent(nums) ==
  IF nums[3].id = KeyPress THEN <<>> ELSE <<Job("ERROR", <<EOL>>, <<>>, <<>>)>>

---------------------------------------------------------------------------
(* What xcin sends of its own accord: text to commit, the pre-edit string  *)
(* and the status line of gui_onspot.c, and the event mask.                *)
XimLookupChars == 2
XimSYNCHRONUS == 1
XIMReverse == 1
XIMTextType == 0

IdsOnly(op, t) == Job(op, t, <<>>, <<Put(connect_id), Put(icid)>>)
_Xi18nPreeditDoneCallback == IdsOnly("PREEDIT_DONE", preedit_done_fr)
_Xi18nStatusDoneCallback == IdsOnly("STATUS_DONE", status_done_fr)
xi18n_syncXlib == IdsOnly("SYNC", sync_fr)

xi18n_commit(str) ==
  Job("COMMIT", commit_chars_fr, <<Sized(str.length)>>,
      << AskSize, Put(connect_id), Put(icid), Put(XimLookupChars + XimSYNCHRONUS), PutSize,
         PutBytes(Text(str.length, str.text)) >>)

(* Each byte of the pre-edit string has its feedback, the status line none.*)
PreeditStatus(length) == IF length = 0 THEN 1 ELSE 0
StatusStatus(length) == IF length = 0 THEN 1 ELSE 2
Feedback(length) == [k \in 1 .. length |-> XIMReverse]

_Xi18nPreeditDrawCallback(str, chg_length) ==
  Job("PREEDIT_DRAW", preedit_draw_fr, <<Sized(str.length), Count(str.length)>>,
      << Put(connect_id), Put(icid), Put(0), Put(0), Put(chg_length),
         Put(PreeditStatus(str.length)), Put(str.length), PutBytes(Text(str.length, str.text)) >>
        \o PutEach(Feedback(str.length)))
_Xi18nStatusDrawCallback(str) ==
  Job("STATUS_DRAW", status_draw_text_fr, <<Sized(str.length), Count(0)>>,
      << Put(connect_id), Put(icid), Put(XIMTextType), Put(StatusStatus(str.length)),
         Put(str.length), PutBytes(Text(str.length, str.text)) >>)
_Xi18nSetEventMask(forward_mask, sync_mask) ==
  Job("SET_EVENT_MASK", set_event_mask_fr, <<>>,
      <<Put(connect_id), Put(icid), Put(forward_mask), Put(sync_mask)>>)

xi18n_preeditStart == _Xi18nSetEventMask(KeyPressMask, -1 - KeyPressMask)
xi18n_preeditEnd == _Xi18nSetEventMask(0, 0)

(* What the library sends for xcin's call.  Taking leave of an on-the-spot *)
(* client empties what it shows first.                                     *)
xim_disconnect(chg_length) ==
  << _Xi18nPreeditDrawCallback(NoStr, chg_length), _Xi18nPreeditDoneCallback,
     _Xi18nStatusDrawCallback(NoStr), _Xi18nStatusDoneCallback, xi18n_preeditEnd >>
Sent(m) ==
  CASE m.op = "COMMIT" -> <<xi18n_commit(m.names[1])>>
    [] m.op = "PREEDIT_DRAW" -> <<_Xi18nPreeditDrawCallback(m.names[1], m.ids[1])>>
    [] m.op = "STATUS_DRAW" -> <<_Xi18nStatusDrawCallback(m.names[1])>>
    [] m.op = "CONNECT" -> <<xi18n_preeditStart>>
    [] m.op = "DISCONNECT" -> xim_disconnect(m.ids[1])
    [] m.op = "SYNC" -> <<xi18n_syncXlib>>

Notify(m) ==
    /\ phase = "idle"
    /\ created
    /\ request' = m
    /\ jobs' = Sent(m)
    /\ phase' = "write"
    /\ UNCHANGED <<fm, lists, groups, out, created, ic_rec, view>>

---------------------------------------------------------------------------
(* The answer to a request that has been read.                             *)
Answers(value_length) ==
  CASE request.op = "OPEN" -> <<_Xi18nSendTriggerKey, OpenReply>>
    [] request.op = "QUERY_EXTENSION" -> <<QueryExtensionReply(lists[1])>>
    [] request.op = "GET_IM_VALUES" -> <<GetIMValuesReply(lists[1], value_length)>>
    [] request.op = "ENCODING_NEGOTIATION" -> <<EncodingNegotiationReply(lists[1])>>
    [] request.op \in {"CREATE_IC", "SET_IC_VALUES"} -> <<ChangeICReply>>
    [] request.op = "GET_IC_VALUES" -> <<GetICReply>>
    [] request.op = "RESET_IC" -> <<ResetICReply>>
    [] request.op = "EXT_FORWARD_KEYEVENT" -> ExtForwardKeyEvent(lists[1])
    [] request.op = "EXT_MOVE" -> <<>>

(* What a client that set these attributes may expect to be kept.          *)
Kept(v) == [nums |-> v.nums, text |-> v.text.text]
Expect(rec, v) ==
  LET name == NameOf(v.id)
  IN  CASE name = "inputStyle" ->
             [rec EXCEPT !.inputStyle = Plain(IF Contains(Styles, v.nums[1]) THEN v.nums
                                              ELSE <<im_styles.Root>>)]
        [] name = "preeditAttributes" ->
             FoldUp(LAMBDA r, a : [r EXCEPT ![NameOf(a.id)] = Kept(a)], rec, v.attrs)
        [] name = "statusAttributes" -> rec
        [] OTHER -> [rec EXCEPT ![name] = Kept(v)]

(* Everything about the request is freed.                                  *)
Over ==
    /\ phase' = "idle"
    /\ request' = NoRequest
    /\ fm' = FrameMgrInit(open_fr, <<>>)
    /\ lists' = <<>>
    /\ groups' = NoGroups

(* ENCODING_NEGOTIATION clears the names it has read once more before it   *)
(* reads a second list: the first name looked at then is a NULL pointer,   *)
(* the process dies, and the next one starts from nothing.                 *)
NamesCleared == request.op = "ENCODING_NEGOTIATION" /\ Len(lists) = 2 /\ lists[2] # <<>>
Die ==
    /\ phase = "serve"
    /\ NamesCleared
    /\ Over
    /\ UNCHANGED <<jobs, out, created, ic_rec, view>>

Serve ==
    /\ phase = "serve"
    /\ ~NamesCleared
    /\ \E value_length \in Uninitialised : jobs' = Answers(value_length)
    /\ created' = (created \/ request.op = "CREATE_IC")
    /\ IF request.op \in {"CREATE_IC", "SET_IC_VALUES"}
       THEN /\ ic_rec' = ic_set_values(ic_rec, lists[1])
            /\ view' = FoldUp(Expect, view, request.attrs)
       ELSE UNCHANGED <<ic_rec, view>>
    /\ IF jobs' = <<>> THEN Over
       ELSE phase' = "write" /\ UNCHANGED <<request, fm, lists, groups>>
    /\ UNCHANGED out

Write ==
    /\ phase = "write"
    /\ out' = Built(Head(jobs))
    /\ phase' = "send"
    /\ UNCHANGED <<request, fm, lists, groups, jobs, created, ic_rec, view>>

Send ==
    /\ phase = "send"
    /\ jobs' = Tail(jobs)
    /\ out' = Message
    /\ IF Len(jobs) > 1
       THEN /\ phase' = "write"
            /\ UNCHANGED <<request, fm, lists, groups>>
       ELSE Over
    /\ UNCHANGED <<created, ic_rec, view>>

Handler == Read \/ GroupIds \/ EndOfGroups \/ Die \/ Serve \/ Write \/ Send
Next == (\E m \in Requests : Receive(m)) \/ (\E m \in Notices : Notify(m)) \/ Handler

Spec == Init /\ [][Next]_vars

---------------------------------------------------------------------------
(* The answers by the protocol.                                            *)
LayoutAsked(a) == Pieces(<<N(2, a.id), N(2, XimType[a.type]), LayoutInfo(Str(a.name, a.length))>>)
LayoutExt(e) ==
  Pieces(<<N(2, XIM_EXTENSION), N(2, e.minor), LayoutInfo(Str(e.name, e.length))>>)
LayoutKey(k) == Each(k, LayoutLong)
Listed(p) == Behind(N(2, p.size), p)
Ids == Behind(N(2, connect_id), N(2, icid))
Lined(str) == Padded(Behind(N(2, str.length), Chars(str)))

(* The ids a nested list of the name encloses, and those outside of any.   *)
Encloses(ids, j, k) ==
  j < k /\ IsNestedList(ids[j]) /\ \A l \in j + 1 .. k : ~IsSeparator(ids[l])
Places(ids, Test(_)) == SelectSeq([k \in DOMAIN ids |-> k], Test)
Inside(ids, name) ==
  Places(ids, LAMBDA k : \E j \in DOMAIN ids : NameOf(ids[j]) = name /\ Encloses(ids, j, k))
Outside(ids) ==
  Places(ids, LAMBDA k : ~IsNestedList(ids[k]) /\ \A j \in DOMAIN ids : ~Encloses(ids, j, k))

(* The value of an attribute that is asked for.                            *)
AnswerOf(id) ==
  LET name == NameOf(id)
  IN  CASE name = "inputStyle" -> Each(view.inputStyle.nums, LayoutLong)
        [] name = "filterEvents" -> N(4, KeyPressMask)
        [] name = "separatorofNestedList" -> N(2, 0)
        [] name = "foreground" -> N(4, fg_color)
        [] name \in {"area", "spotLocation"} -> Each(view[name].nums, LayoutId)
        [] name = "lineSpace" -> Each(view.lineSpace.nums, LayoutLong)
        [] OTHER -> Unused(0)
LayoutAnswer(id) == LayoutAttr(id, AnswerOf(id))
LayoutEmpty(id) == LayoutAttr(id, Unused(0))
At(ids, places) == [k \in DOMAIN places |-> ids[places[k]]]
Nested(ids, name, Layer(_)) ==
  IF Inside(ids, name) = <<>> THEN Unused(0)
  ELSE LayoutAttr(IdOf(name), Each(At(ids, Inside(ids, name)), Layer))

(* The styles are what a client can ask for; in place of any other value   *)
(* there are so many zeros.                                                *)
LayoutStyles == Pieces(<<N(2, Len(Styles)), Unused(2), Each(Styles, LayoutLong)>>)
LayoutIM(ids, k, value_length) ==
  CASE ids[k] = xim_attr[1].id -> LayoutAttr(ids[k], LayoutStyles)
    [] ids[k] = xim_attr[2].id ->
         LayoutAttr(ids[k], Unused(IF \E j \in 1 .. k - 1 : ids[j] = xim_attr[1].id
                                   THEN LayoutStyles.size ELSE value_length))
    [] OTHER -> Unused(0)
Offered(m) == {k \in DOMAIN m.names : m.names[k].text = "COMPOUND_TEXT"}

Expected(op, m, value_length) ==
  LET str == IF m.names = <<>> THEN NoStr ELSE m.names[1]
      keys == Each(OnKeys, LayoutKey)
      ims == Each(xim_attr, LayoutAsked)
      ics == Each(xic_attr, LayoutAsked)
      exts == Each(SelectSeq(Default_Extension,
                             LAMBDA e : \E k \in DOMAIN m.names : m.names[k].text = e.name),
                   LayoutExt)
      styles == Pieces([k \in DOMAIN m.ids |-> LayoutIM(m.ids, k, value_length)])
      values == Pieces(<<Each(At(m.ids, Outside(m.ids)), LayoutAnswer),
                         Nested(m.ids, "preeditAttributes", LayoutAnswer),
                         Nested(m.ids, "statusAttributes", LayoutEmpty)>>)
      im == N(2, connect_id)
      chg_length == IF m.op \in {"PREEDIT_DRAW", "DISCONNECT"} THEN m.ids[1] ELSE 0
  IN  CASE op = "REGISTER_TRIGGERKEYS" ->
             Pieces(<<N(2, 0), Unused(2), N(4, keys.size), keys, N(4, 0)>>)
        [] op = "OPEN_REPLY" ->
             Pieces(<<im, Listed(ims), N(2, ics.size), Unused(2), ics>>)
        [] op = "QUERY_EXTENSION_REPLY" -> Behind(im, Listed(exts))
        [] op = "GET_IM_VALUES_REPLY" -> Behind(im, Listed(styles))
        [] op = "ENCODING_NEGOTIATION_REPLY" ->
             Pieces(<<im, N(2, 0), N(2, IF Offered(m) = {} THEN 0
                                        ELSE (CHOOSE k \in Offered(m) :
                                                \A j \in Offered(m) : k <= j) - 1), Unused(2)>>)
        [] op = "GET_IC_VALUES_REPLY" ->
             Pieces(<<Ids, N(2, values.size), Unused(2), values>>)
        [] op = "RESET_IC_REPLY" -> Pieces(<<Ids, N(2, 0), Unused(2)>>)
        [] op = "COMMIT" -> Padded(Pieces(<<Ids, N(2, 3), N(2, str.length), Chars(str)>>))
        [] op = "PREEDIT_DRAW" ->
             Pieces(<<Ids, N(4, 0), N(4, 0), N(4, chg_length), N(4, IF str.length = 0 THEN 1 ELSE 0),
                      Lined(str), N(2, 4 * str.length), Unused(2),
                      Each(Feedback(str.length), LayoutLong)>>)
        [] op = "STATUS_DRAW" ->
             Pieces(<<Ids, N(4, 0), N(4, IF str.length = 0 THEN 1 ELSE 2), Lined(str), Unused(4)>>)
        [] op = "SET_EVENT_MASK" ->
             Pieces(<<Ids>> \o IF m.op = "CONNECT" THEN <<N(4, KeyPressMask), N(4, -1 - KeyPressMask)>>
                               ELSE <<Unused(8)>>)
        [] op = "ERROR" -> Unused(0)
        [] OTHER -> Ids

(* A number that is 0 and bytes nobody wrote are the same: zeros.          *)
Written(bytes) ==
  [o \in {o \in DOMAIN bytes : bytes[o].num # 0 \/ bytes[o].text # ""} |-> bytes[o]]

---------------------------------------------------------------------------
(* What has been read of a request is what the client said, all of it and  *)
(* nothing else: the frame manager finds each list's end by counting the   *)
(* bytes it has gone over since the list's counter, paddings and lengths   *)
(* known only on the way among them.  And what xcin keeps of the IC's      *)
(* values is what the client set last.                                     *)
SaidStr(str) == [id |-> 0, length |-> str.length, bytes |-> Text(str.length, str.text)]
SaidId(id) == [id |-> id, length |-> 0, bytes |-> <<>>]
SaidAttr(v) == [id |-> v.id, length |-> LayoutValue(v).size, bytes |-> LayoutValue(v).bytes]
SaidList(seq, Said(_)) == [k \in DOMAIN seq |-> Said(seq[k])]
Said(m) ==
  CASE m.op = "ENCODING_NEGOTIATION" ->
         <<SaidList(m.names, SaidStr), SaidList(m.infos, SaidStr)>>
    [] m.op \in {"OPEN", "QUERY_EXTENSION"} -> <<SaidList(m.names, SaidStr)>>
    [] m.op \in {"GET_IM_VALUES", "GET_IC_VALUES", "EXT_FORWARD_KEYEVENT", "EXT_MOVE"} ->
         <<SaidList(m.ids, SaidId)>>
    [] m.op \in {"CREATE_IC", "SET_IC_VALUES"} -> <<SaidList(m.attrs, SaidAttr)>>
    [] OTHER -> << <<>> >>

ReadsBack ==
    /\ phase = "serve" =>
         /\ lists = Said(request)
         /\ Layout(request).size - fm.idx \in 0 .. 3
    /\ phase = "idle" => ic_rec = view

SameMessage(sent, expected) ==
    /\ Written(sent.bytes) = Written(expected.bytes)
    /\ sent.total = expected.size

(* Each message xcin sends is laid out as the protocol has it, whatever    *)
(* sizes, counts and paddings its lists and nested lists come to; and an   *)
(* answer to GET_IC_VALUES tells each value asked for as it was set last,  *)
(* the colours as xcin draws them, nested where it was asked for nested.   *)
RepliesLaidOut ==
    phase = "send" =>
      \E value_length \in Uninitialised :
        SameMessage(out, Expected(Head(jobs).op, request, value_length))

(* Nothing is read behind the message or written behind the reply, whose   *)
(* sizes are worked out beforehand, and the values of a request fit the    *)
(* room that was counted up for them while they were read.                 *)
BuffersSuffice ==
    /\ phase \in {"read", "group", "serve"} => fm.idx <= Layout(request).size
    /\ phase = "send" => out.used <= out.total
    /\ (phase = "serve" /\ request.op \in {"CREATE_IC", "SET_IC_VALUES"}) =>
         ValueBytes(lists[1]) <= TotalValueLength(lists[1])
=============================================================================
