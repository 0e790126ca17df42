------------------------------ MODULE FrameMgr ------------------------------
(***************************************************************************)
(* The frame manager of the XIM protocol library (lib/IMdkit/FrameMgr.c):  *)
(* a cursor over a message whose layout is a table of items.  The cursor   *)
(* is a tree.  A FrameInst walks one table; an item of it that is a list   *)
(* (ITER) has an Iter below it and one that refers to another table        *)
(* (POINTER) a FrameInst; the elements of an Iter are such cursors too.    *)
(* Everything known of an item (the size of a byte array, its sub-cursor)  *)
(* hangs in the chain `cm' of its parent, keyed by the item's index.       *)
(*                                                                         *)
(* A message area is a function from offsets to cells, one for a number    *)
(* and one for a string, so that byte order is left out.  What no caller   *)
(* of this program uses is left out as well: 64-bit items, counters of     *)
(* elements, counters below the top table, SetTotalSize, SkipToken and     *)
(* Reset.  What the C code allocates when it merely looks ahead is what    *)
(* its next call would allocate, so looking changes nothing.               *)
(***************************************************************************)
EXTENDS Integers, Sequences, TLC, ImFrames

NO_VALUE == -1
NO_VALID_FIELD == -2

(* The index of the item behind item i of a table: a POINTER takes its     *)
(* PTR_ITEM with it, an ITER what it repeats.  Nothing is behind the end.  *)
RECURSIVE _FrameInstIncrement(_, _)
_FrameInstIncrement(t, i) ==
  CASE t[i].type = "POINTER" -> i + 2
    [] t[i].type = "ITER" -> _FrameInstIncrement(t, i + 1)
    [] t[i].type = "EOL" -> 0
    [] OTHER -> i + 1

(* The index of the item in front of item i, which is guessed from the     *)
(* item two places back.                                                   *)
_FrameInstDecrement(t, i) ==
  CASE i = 1 -> 0
    [] i = 2 -> 1
    [] i > 2 /\ t[i - 2].type \in {"POINTER", "ITER"} ->
         LET front == {k \in 1 .. i - 3 : t[k].type # "ITER"}
         IN  IF front = {} THEN 1 ELSE 1 + CHOOSE k \in front : \A j \in front : j <= k
    [] OTHER -> i - 1

---------------------------------------------------------------------------
(* Cursors and their chains.                                               *)
FrameInstInit(t) == [t |-> t, cur |-> 1, cm |-> <<>>]

(* A list whose element is item `at' of table t.  Without a count it grows *)
(* as it is used.  `watch' is the list's place in its own table, for the   *)
(* counter that measures it.                                               *)
IterInit(t, at, count) ==
  [t |-> t, at |-> at, max |-> IF count = NO_VALUE THEN 0 ELSE count,
   expand |-> count = NO_VALUE, cur |-> 0, start |-> FALSE, watch |-> at - 1,
   cm |-> <<>>]

(* ChainMgrSetData appends, and the lookup finds the first entry of an     *)
(* index: what is there already stays in force.                            *)
ChainMgrSetData(cm, i, d) == cm @@ (i :> d)
ChainMgrGetExtraData(cm, i, default) == IF i \in DOMAIN cm THEN cm[i] ELSE default
Changed(cm, i, d) == (i :> d) @@ cm

Size(num) == [num |-> num]

(* What a POINTER, ITER or BARRAY at item `at' of table t starts from.     *)
Fresh(t, at) ==
  CASE t[at].type = "POINTER" -> FrameInstInit(t[at + 1].sub)
    [] t[at].type = "ITER" -> IterInit(t, at + 1, NO_VALUE)
    [] OTHER -> Size(NO_VALUE)

Below(fi, i) == ChainMgrGetExtraData(fi.cm, i, Fresh(fi.t, i))
Element(it, k) == ChainMgrGetExtraData(it.cm, k, Fresh(it.t, it.at))
TypeOf(it) == it.t[it.at].type

---------------------------------------------------------------------------
(* Sizes.                                                                  *)
RECURSIVE SizeOf(_, _), _FrameInstGetItemSize(_, _), FrameInstGetTotalSize(_, _),
          IterGetTotalSize(_)

RECURSIVE InFront(_, _, _)
InFront(fi, i, number) ==
  IF number = 0 THEN 0
  ELSE LET k == _FrameInstDecrement(fi.t, i)
       IN  _FrameInstGetItemSize(fi, k) + InFront(fi, k, number - 1)

(* The bytes the padding item i fills: up to a whole unit, counted over    *)
(* the items in front of it.                                               *)
\* Faulty: a whole unit of padding where none is needed.
UpToWhole(unit, bytes) == unit - (bytes % unit)
UpTo(unit, bytes) == (unit - (bytes % unit)) % unit
Padding(fi, i) == UpTo(fi.t[i].size, InFront(fi, i, fi.t[i].n))

\* Faulty: the paddings are not counted.
ItemSizeUnpadded(fi, i) ==
  CASE fi.t[i].type \in {"BIT", "COUNTER"} -> fi.t[i].size
    [] fi.t[i].type = "PADDING" -> 0
    [] fi.t[i].type \in {"BARRAY", "ITER", "POINTER"} /\ i \in DOMAIN fi.cm ->
         SizeOf(fi.cm[i], fi.t[i].type)
    [] OTHER -> NO_VALUE
_FrameInstGetItemSize(fi, i) ==
  CASE fi.t[i].type \in {"BIT", "COUNTER"} -> fi.t[i].size
    [] fi.t[i].type = "PADDING" -> Padding(fi, i)
    [] fi.t[i].type \in {"BARRAY", "ITER", "POINTER"} /\ i \in DOMAIN fi.cm ->
         SizeOf(fi.cm[i], fi.t[i].type)
    [] OTHER -> NO_VALUE

(* From item i to the end of the table.                                    *)
FrameInstGetTotalSize(fi, i) ==
  IF fi.t[i].type = "EOL" THEN 0
  ELSE _FrameInstGetItemSize(fi, i)
         + FrameInstGetTotalSize(fi, _FrameInstIncrement(fi.t, i))

RECURSIVE SumFrom(_, _)
SumFrom(sizes, k) ==
  IF k \in DOMAIN sizes THEN sizes[k] + SumFrom(sizes, k + 1) ELSE 0
Sum(sizes) ==
  IF \E k \in DOMAIN sizes : sizes[k] = NO_VALUE THEN NO_VALUE ELSE SumFrom(sizes, 0)

(* A list that may still grow has no size; one with an element of unknown  *)
(* size has none either.                                                   *)
IterGetTotalSize(it) ==
  CASE it.expand -> NO_VALUE
    [] ~it.expand /\ TypeOf(it) = "BIT" -> it.max * it.t[it.at].size
    [] OTHER -> Sum([k \in 0 .. it.max - 1 |-> SizeOf(Element(it, k), TypeOf(it))])

SizeOf(node, type) ==
  CASE type = "BARRAY" -> node.num
    [] type = "ITER" -> IterGetTotalSize(node)
    [] type = "POINTER" -> FrameInstGetTotalSize(node, 1)

---------------------------------------------------------------------------
(* What comes next.  The result is the cursor after the step, the item     *)
(* met, what is known of it (the size of a byte array or padding, the      *)
(* place of a counter's list) and the list that is asked for the first     *)
(* time since its counter was read, if any: its counting starts.           *)
Met(node, item, info, watch) == [node |-> node, item |-> item, info |-> info, watch |-> watch]

RECURSIVE FrameInstGetNextType(_), IterGetNextType(_), PastBelow(_, _), PastElement(_, _, _)
NextBelow(node, type) == IF type = "ITER" THEN IterGetNextType(node) ELSE FrameInstGetNextType(node)
Increment(fi) == [fi EXCEPT !.cur = _FrameInstIncrement(fi.t, @)]

FrameInstGetNextType(fi) ==
  LET item == fi.t[fi.cur]
      list == fi.cur + item.n
  IN  CASE item.type \in {"BIT", "EOL"} -> Met(Increment(fi), item, 0, 0)
        [] item.type = "COUNTER" ->
             Met(Increment([fi EXCEPT !.cm = ChainMgrSetData(@, list, Fresh(fi.t, list))]),
                 item, list, 0)
        [] item.type = "BARRAY" -> Met(Increment(fi), item, Below(fi, fi.cur).num, 0)
        [] item.type = "PADDING" -> Met(Increment(fi), item, Padding(fi, fi.cur), 0)
        [] item.type \in {"ITER", "POINTER"} ->
             PastBelow(fi, NextBelow(Below(fi, fi.cur), item.type))

(* On in the same table where what is below has come to its end.           *)
PastBelow(fi, sub) ==
  LET kept == [fi EXCEPT !.cm = Changed(@, fi.cur, sub.node)]
  IN  IF sub.item.type = "EOL" THEN FrameInstGetNextType(Increment(kept))
                               ELSE [sub EXCEPT !.node = kept]

(* A list at its end grows if it may.                                      *)
IterGetNextType(it) ==
  LET watched == IF it.start THEN it.watch ELSE 0
      grown == [it EXCEPT !.start = FALSE,
                          !.max = IF it.cur >= it.max /\ it.expand THEN it.cur + 1 ELSE @]
      behind == [grown EXCEPT !.cur = @ + 1]
  IN  CASE it.cur >= it.max /\ ~it.expand -> Met(grown, EOL, 0, watched)
        [] TypeOf(it) = "BIT" -> Met(behind, it.t[it.at], 0, watched)
        [] TypeOf(it) = "BARRAY" -> Met(behind, BARRAY, Element(it, it.cur).num, watched)
        [] OTHER -> PastElement(grown, NextBelow(Element(it, it.cur), TypeOf(it)), watched)

PastElement(it, sub, watched) ==
  LET kept == [it EXCEPT !.cm = Changed(@, it.cur, sub.node)]
  IN  IF sub.item.type = "EOL"
      THEN [IterGetNextType([kept EXCEPT !.cur = @ + 1]) EXCEPT !.watch = watched]
      ELSE Met(kept, sub.item, sub.info, watched)

(* The same without moving; the item and what is known of it.              *)
RECURSIVE FrameInstPeekNextType(_), IterPeekNextType(_)
FrameInstPeekNextType(fi) ==
  LET item == fi.t[fi.cur]
  IN  CASE item.type = "PADDING" -> Met(fi, item, Padding(fi, fi.cur), 0)
        [] item.type = "ITER" -> IterPeekNextType(Below(fi, fi.cur))
        [] item.type = "POINTER" -> FrameInstPeekNextType(Below(fi, fi.cur))
        [] OTHER -> Met(fi, item, 0, 0)

IterPeekNextType(it) ==
  CASE ~it.expand /\ it.cur >= it.max -> Met(it, EOL, 0, 0)
    [] TypeOf(it) = "POINTER" -> FrameInstPeekNextType(Element(it, it.cur))
    [] TypeOf(it) = "ITER" -> IterPeekNextType(Element(it, it.cur))
    [] OTHER -> Met(it, it.t[it.at], 0, 0)

---------------------------------------------------------------------------
(* Sizes and counts are given in the order of the items: each goes to the  *)
(* first place that has none yet.  The result is the cursor and whether    *)
(* there was such a place.                                                 *)
Done(node) == [node |-> node, ok |-> TRUE]
NoMoreData(node) == [node |-> node, ok |-> FALSE]
Placed(node, i, set) == [set EXCEPT !.node = [node EXCEPT !.cm = Changed(@, i, set.node)]]

RECURSIVE FrameInstSetSize(_, _, _), IterSetSize(_, _), SizedFrom(_, _, _),
          IterSetSizeFrom(_, _, _), SizedElement(_, _, _, _)
SetSize(node, type, num) ==
  CASE type = "BARRAY" -> IF node.num = NO_VALUE THEN Done(Size(num)) ELSE NoMoreData(node)
    [] type = "ITER" -> IterSetSize(node, num)
    [] type = "POINTER" -> FrameInstSetSize(node, 1, num)

(* From item i on.                                                         *)
FrameInstSetSize(fi, i, num) ==
  CASE fi.t[i].type = "EOL" -> NoMoreData(fi)
    [] fi.t[i].type \in {"BARRAY", "ITER", "POINTER"} ->
         SizedFrom(Placed(fi, i, SetSize(Below(fi, i), fi.t[i].type, num)), i, num)
    [] OTHER -> FrameInstSetSize(fi, _FrameInstIncrement(fi.t, i), num)
SizedFrom(set, i, num) ==
  IF set.ok THEN set ELSE FrameInstSetSize(set.node, _FrameInstIncrement(set.node.t, i), num)

(* An element added because the others are full comes behind them; one     *)
(* that is in the chain already stays in front of it.                      *)
IterSetSize(it, num) ==
  IF (~it.expand /\ it.max = 0) \/ TypeOf(it) = "BIT" THEN NoMoreData(it)
  ELSE IterSetSizeFrom(it, 0, num)

IterSetSizeFrom(it, k, num) ==
  IF k = it.max /\ ~it.expand THEN NoMoreData(it)
  ELSE SizedElement(it, k, num,
         SetSize(IF k = it.max THEN Fresh(it.t, it.at) ELSE Element(it, k), TypeOf(it), num))
SizedElement(it, k, num, set) ==
  CASE k = it.max ->
         [set EXCEPT !.node = [it EXCEPT !.cm = ChainMgrSetData(@, k, set.node), !.max = @ + 1]]
    [] k < it.max /\ set.ok -> Placed(it, k, set)
    [] OTHER -> IterSetSizeFrom(Placed(it, k, set).node, k + 1, num)

RECURSIVE FrameInstSetIterCount(_, _, _), IterSetIterCount(_, _), CountedFrom(_, _, _),
          IterSetIterCountFrom(_, _, _), CountedElement(_, _, _)
SetCount(node, type, num) ==
  IF type = "ITER" THEN IterSetIterCount(node, num) ELSE FrameInstSetIterCount(node, 1, num)

FrameInstSetIterCount(fi, i, num) ==
  CASE fi.t[i].type = "EOL" -> NoMoreData(fi)
    [] fi.t[i].type \in {"ITER", "POINTER"} ->
         CountedFrom(Placed(fi, i, SetCount(Below(fi, i), fi.t[i].type, num)), i, num)
    [] OTHER -> FrameInstSetIterCount(fi, _FrameInstIncrement(fi.t, i), num)
CountedFrom(set, i, num) ==
  IF set.ok THEN set
  ELSE FrameInstSetIterCount(set.node, _FrameInstIncrement(set.node.t, i), num)

(* A list that may grow takes the count itself, another hands it down.     *)
IterSetIterCount(it, num) ==
  CASE it.expand -> Done([it EXCEPT !.max = num, !.expand = FALSE])
    [] ~it.expand /\ TypeOf(it) \in {"ITER", "POINTER"} -> IterSetIterCountFrom(it, 0, num)
    [] OTHER -> NoMoreData(it)

IterSetIterCountFrom(it, k, num) ==
  IF k >= it.max THEN NoMoreData(it)
  ELSE CountedElement(Placed(it, k, SetCount(Element(it, k), TypeOf(it), num)), k, num)
CountedElement(set, k, num) ==
  IF set.ok THEN set ELSE IterSetIterCountFrom(set.node, k + 1, num)

(* The size of the first byte array from the cursor on.                    *)
RECURSIVE FrameInstGetSize(_, _), IterGetSize(_, _)
SizeBelow(node, type) ==
  CASE type = "BARRAY" -> node.num
    [] type = "ITER" -> IterGetSize(node, node.cur)
    [] type = "POINTER" -> FrameInstGetSize(node, node.cur)

FrameInstGetSize(fi, i) ==
  CASE fi.t[i].type = "EOL" -> NO_VALID_FIELD
    [] fi.t[i].type \in {"BARRAY", "ITER", "POINTER"} ->
         LET size == SizeBelow(Below(fi, i), fi.t[i].type)
         IN  IF size # NO_VALID_FIELD THEN size
             ELSE FrameInstGetSize(fi, _FrameInstIncrement(fi.t, i))
    [] OTHER -> FrameInstGetSize(fi, _FrameInstIncrement(fi.t, i))

IterGetSize(it, k) ==
  IF k >= it.max \/ TypeOf(it) = "BIT" THEN NO_VALID_FIELD
  ELSE LET size == SizeBelow(Element(it, k), TypeOf(it))
       IN  IF size # NO_VALID_FIELD THEN size ELSE IterGetSize(it, k + 1)

---------------------------------------------------------------------------
(* Has the list the cursor is in come to its end?  Asking moves the cursor *)
(* past an element it has finished, and past the list at its end.          *)
Answer(node, ret, myself) == [node |-> node, ret |-> ret, myself |-> myself]
AtCount(it) == ~it.expand /\ it.cur = it.max
FrameInstIsEnd(fi) == fi.t[fi.cur].type = "EOL"

PastList(fi, loop) ==
  LET kept == [fi EXCEPT !.cm = Changed(@, fi.cur, loop.node)]
  IN  Answer(IF loop.ret /\ loop.myself THEN Increment(kept) ELSE kept, loop.ret, FALSE)

InElement(it, sub, ended) ==
  LET kept == [it EXCEPT !.cm = Changed(@, it.cur, sub.node)]
      behind == [kept EXCEPT !.cur = @ + 1]
  IN  IF ended THEN Answer(behind, AtCount(behind), AtCount(behind))
               ELSE Answer(kept, sub.ret, FALSE)

RECURSIVE FrameInstIsIterLoopEnd(_), IterIsLoopEnd(_)
FrameInstIsIterLoopEnd(fi) ==
  IF fi.t[fi.cur].type = "ITER" /\ fi.cur \in DOMAIN fi.cm
  THEN PastList(fi, IterIsLoopEnd(fi.cm[fi.cur]))
  ELSE Answer(fi, FALSE, FALSE)

IterIsLoopEnd(it) ==
  CASE AtCount(it) -> Answer(it, TRUE, TRUE)
    [] ~AtCount(it) /\ TypeOf(it) = "ITER" /\ it.cur \in DOMAIN it.cm ->
         InElement(it, IterIsLoopEnd(it.cm[it.cur]), FALSE)
    [] ~AtCount(it) /\ TypeOf(it) = "POINTER" /\ it.cur \in DOMAIN it.cm ->
         LET sub == FrameInstIsIterLoopEnd(it.cm[it.cur])
         IN  InElement(it, sub, ~sub.ret /\ FrameInstIsEnd(sub.node))
    [] OTHER -> Answer(it, FALSE, FALSE)

---------------------------------------------------------------------------
(* The manager: a cursor over a table, the offset in the area, and the     *)
(* counters of byte lengths that are still running.                        *)
Part(bytes, from, n) ==
  [o \in {k - from : k \in {k \in DOMAIN bytes : from <= k /\ k < from + n}} |-> bytes[from + o]]
Shifted(bytes, by) == [o \in {k + by : k \in DOMAIN bytes} |-> bytes[o - by]]

FrameMgrInit(t, area) == [fi |-> FrameInstInit(t), area |-> area, idx |-> 0, iters |-> <<>>]
FrameMgrSetBuffer(fm) == [fm EXCEPT !.area = <<>>]
FrameMgrSetSize(fm, num) == [fm EXCEPT !.fi = FrameInstSetSize(@, 1, num).node]
FrameMgrSetIterCount(fm, num) == [fm EXCEPT !.fi = FrameInstSetIterCount(@, 1, num).node]
FrameMgrGetTotalSize(fm) == FrameInstGetTotalSize(fm.fi, 1)
FrameMgrGetSize(fm) ==
  LET size == FrameInstGetSize(fm.fi, fm.fi.cur)
  IN  IF size = NO_VALID_FIELD THEN NO_VALUE ELSE size

(* Writing one token.  Counters and paddings in front of it are filled in  *)
(* on the way; a counter whose list has no size yet stops the writing, and *)
(* so does a byte array of unknown size.                                   *)
RECURSIVE _FrameMgrPutToken(_, _), PutAt(_, _, _), PutCounter(_, _, _, _)
_FrameMgrPutToken(fm, token) == PutAt(fm, token, FrameInstGetNextType(fm.fi))

On(fm, met) == [fm EXCEPT !.fi = met.node]
Lay(fm, size, bytes) == [fm EXCEPT !.area = Shifted(bytes, fm.idx) @@ @, !.idx = @ + size]
PutAt(fm, token, met) ==
  CASE met.item.type = "COUNTER" ->
         PutCounter(On(fm, met), token, met, IterGetTotalSize(met.node.cm[met.info]))
    [] met.item.type = "BIT" ->
         Lay(On(fm, met), met.item.size, Number(met.item.size, token.num))
    [] met.item.type = "BARRAY" /\ met.info > 0 ->
         Lay(On(fm, met), met.info, Part(token.bytes, 0, met.info))
    [] met.item.type = "PADDING" ->
         _FrameMgrPutToken([On(fm, met) EXCEPT !.idx = @ + met.info], token)
    [] OTHER -> On(fm, met)
PutCounter(fm, token, met, length) ==
  IF length = NO_VALUE THEN fm
  ELSE _FrameMgrPutToken(Lay(fm, met.item.size, Number(met.item.size, length)), token)

(* Reading so many bytes moves the running counters on.  The first that is *)
(* full fixes the number of elements of its list and is dropped.           *)
\* Faulty: a counter is full only when it is past its end.
CounterIncrPast(iters, i) ==
  LET full == {k \in DOMAIN iters : iters[k].counting /\ iters[k].counter + i > iters[k].end}
      first == IF full = {} THEN Len(iters) + 1
               ELSE CHOOSE k \in full : \A j \in full : k <= j
  IN  [first |-> first,
       iters |-> [k \in DOMAIN iters |->
                    IF iters[k].counting /\ k <= first
                    THEN [iters[k] EXCEPT !.counter = @ + i] ELSE iters[k]]]
_FrameIterCounterIncr(iters, i) ==
  LET full == {k \in DOMAIN iters : iters[k].counting /\ iters[k].counter + i >= iters[k].end}
      first == IF full = {} THEN Len(iters) + 1
               ELSE CHOOSE k \in full : \A j \in full : k <= j
  IN  [first |-> first,
       iters |-> [k \in DOMAIN iters |->
                    IF iters[k].counting /\ k <= first
                    THEN [iters[k] EXCEPT !.counter = @ + i] ELSE iters[k]]]

_FrameMgrRemoveIter(iters, k) ==
  SubSeq(iters, 1, k - 1) \o SubSeq(iters, k + 1, Len(iters))

Advanced(fm, c) ==
  IF c.first \notin DOMAIN fm.iters THEN [fm EXCEPT !.iters = c.iters]
  ELSE [fm EXCEPT !.iters = _FrameMgrRemoveIter(c.iters, c.first),
                  !.fi.cm[fm.iters[c.first].watch].expand = FALSE]
Advance(fm, bytes) ==
  Advanced([fm EXCEPT !.idx = @ + bytes], _FrameIterCounterIncr(fm.iters, bytes))

_FrameMgrAppendIter(iters, watch, end) ==
  Append(iters, [watch |-> watch, counting |-> FALSE, counter |-> 0, end |-> end])

(* The counter of a list that is asked for the first time starts.          *)
_IterStartWatch(iters, watch) ==
  [k \in DOMAIN iters |-> [iters[k] EXCEPT !.counting = @ \/ iters[k].watch = watch]]

(* The number the area has at the offset, read with a width.               *)
NumberAt(fm, size) ==
  IF fm.idx \in DOMAIN fm.area /\ fm.area[fm.idx].size = size THEN fm.area[fm.idx].num ELSE 0

(* Reading one token, with its value.  Paddings in front of it are skipped *)
(* over; a counter is also remembered for its list.                        *)
Token(fm, num, bytes) == [fm |-> fm, value |-> [num |-> num, bytes |-> bytes]]
Started(fm, met) == [fm EXCEPT !.fi = met.node, !.iters = _IterStartWatch(@, met.watch)]
Remembered(fm, list, end) ==
  [fm EXCEPT !.iters = _FrameMgrAppendIter(@, list, end), !.fi.cm[list].start = TRUE]

RECURSIVE _FrameMgrGetToken(_), GetAt(_, _)
_FrameMgrGetToken(fm) == GetAt(fm, FrameInstGetNextType(fm.fi))
GetAt(fm, met) ==
  LET num == NumberAt(fm, met.item.size)
      on == Started(fm, met)
  IN  CASE met.item.type = "COUNTER" ->
             Token(Advance(Remembered(on, met.info, num), met.item.size), num, <<>>)
        [] met.item.type = "BIT" -> Token(Advance(on, met.item.size), num, <<>>)
        [] met.item.type = "BARRAY" /\ met.info > 0 ->
             Token(Advance(on, met.info), 0, Part(fm.area, fm.idx, met.info))
        [] met.item.type = "PADDING" -> _FrameMgrGetToken(Advance(on, met.info))
        [] OTHER -> Token(on, 0, <<>>)

(* The end of the innermost list, behind any padding.                      *)
RECURSIVE FrameMgrIsIterLoopEnd(_), LoopEnd(_, _)
FrameMgrIsIterLoopEnd(fm) == LoopEnd(fm, FrameInstIsIterLoopEnd(fm.fi))
LoopEnd(fm, loop) ==
  LET asked == [fm EXCEPT !.fi = loop.node]
  IN  IF ~loop.ret /\ FrameInstPeekNextType(loop.node).item.type = "PADDING"
      THEN LET met == FrameInstGetNextType(loop.node)
           IN  FrameMgrIsIterLoopEnd(Advance(Started(asked, met), met.info))
      ELSE [fm |-> asked, end |-> loop.ret]
=============================================================================
