------------------------------ MODULE ImFrames ------------------------------
(***************************************************************************)
(* The layouts of the messages of the X input method protocol, as the      *)
(* tables of lib/IMdkit/i18nIMProto.c state them for the frame manager.    *)
(* The names are the names of the tables.                                  *)
(***************************************************************************)
EXTENDS Integers, Sequences, TLC

---------------------------------------------------------------------------
(* Message areas: functions from offsets to cells.                         *)
Number(size, num) == 0 :> [size |-> size, num |-> num, text |-> ""]
Text(size, text) == IF size = 0 THEN <<>> ELSE 0 :> [size |-> size, num |-> 0, text |-> text]

(* A token given to or by the frame manager: a number, or bytes.           *)
Num(num) == [num |-> num, bytes |-> <<>>]
Bytes(bytes) == [num |-> 0, bytes |-> bytes]

---------------------------------------------------------------------------
(* Items of a table.  `size' is the width of a number or the unit of a     *)
(* padding, `n' the distance from a counter to its list, or the number of  *)
(* items a padding fills up, `sub' the table a PTR_ITEM refers to.         *)
Item(type, size, n, sub) == [type |-> type, size |-> size, n |-> n, sub |-> sub]

BIT8 == Item("BIT", 1, 0, <<>>)
BIT16 == Item("BIT", 2, 0, <<>>)
BIT32 == Item("BIT", 4, 0, <<>>)
BYTE_COUNTER(bytes, offset) == Item("COUNTER", bytes, offset, <<>>)
PAD4(number) == Item("PADDING", 4, number, <<>>)
BARRAY == Item("BARRAY", 0, 0, <<>>)
ITER == Item("ITER", 0, 0, <<>>)
POINTER == Item("POINTER", 0, 0, <<>>)
PTR(table) == Item("PTR_ITEM", 0, 0, table)
EOL == Item("EOL", 0, 0, <<>>)

---------------------------------------------------------------------------
(* Elements of lists.                                                      *)
ximattr_fr == <<BIT16, BIT16, BIT16, BARRAY, PAD4(2), EOL>>
xicattr_fr == <<BIT16, BIT16, BIT16, BARRAY, PAD4(2), EOL>>
ximattribute_fr == <<BIT16, BIT16, BARRAY, PAD4(1), EOL>>
xicattribute_fr == <<BIT16, BIT16, BARRAY, PAD4(1), EOL>>
ximtriggerkey_fr == <<BIT32, BIT32, BIT32, EOL>>
encodinginfo_fr == <<BIT16, BARRAY, PAD4(2), EOL>>
str_fr == <<BIT8, BARRAY, EOL>>
ext_fr == <<BIT16, BIT16, BIT16, BARRAY, PAD4(2), EOL>>
inputstyle_fr == <<BIT32, EOL>>

(* Values of attributes.                                                   *)
attr_head_fr == <<BIT16, BIT16, EOL>>
short_fr == <<BIT16, EOL>>
long_fr == <<BIT32, EOL>>
xrectangle_fr == <<BIT16, BIT16, BIT16, BIT16, EOL>>
xpoint_fr == <<BIT16, BIT16, EOL>>
fontset_fr == <<BIT16, BARRAY, PAD4(2), EOL>>
input_styles_fr == <<BIT16, PAD4(1), ITER, POINTER, PTR(inputstyle_fr), EOL>>

(* Messages.                                                               *)
open_fr == <<POINTER, PTR(str_fr), PAD4(1), EOL>>
open_reply_fr ==
  <<BIT16, BYTE_COUNTER(2, 1), ITER, POINTER, PTR(ximattr_fr),
    BYTE_COUNTER(2, 2), PAD4(1), ITER, POINTER, PTR(xicattr_fr), EOL>>
register_triggerkeys_fr ==
  <<BIT16, PAD4(1), BYTE_COUNTER(4, 1), ITER, POINTER, PTR(ximtriggerkey_fr),
    BYTE_COUNTER(4, 1), ITER, POINTER, PTR(ximtriggerkey_fr), EOL>>
encoding_negotiation_fr ==
  <<BIT16, BYTE_COUNTER(2, 1), ITER, POINTER, PTR(str_fr), PAD4(1),
    BYTE_COUNTER(2, 2), PAD4(1), ITER, POINTER, PTR(encodinginfo_fr), EOL>>
encoding_negotiation_reply_fr == <<BIT16, BIT16, BIT16, PAD4(1), EOL>>
query_extension_fr ==
  <<BIT16, BYTE_COUNTER(2, 1), ITER, POINTER, PTR(str_fr), PAD4(1), EOL>>
query_extension_reply_fr ==
  <<BIT16, BYTE_COUNTER(2, 1), ITER, POINTER, PTR(ext_fr), EOL>>
get_im_values_fr == <<BIT16, BYTE_COUNTER(2, 1), ITER, BIT16, PAD4(1), EOL>>
get_im_values_reply_fr ==
  <<BIT16, BYTE_COUNTER(2, 1), ITER, POINTER, PTR(ximattribute_fr), EOL>>
create_ic_fr == <<BIT16, BYTE_COUNTER(2, 1), ITER, POINTER, PTR(xicattribute_fr), EOL>>
create_ic_reply_fr == <<BIT16, BIT16, EOL>>
set_ic_values_fr ==
  <<BIT16, BIT16, BYTE_COUNTER(2, 2), PAD4(1), ITER, POINTER, PTR(xicattribute_fr), EOL>>
set_ic_values_reply_fr == <<BIT16, BIT16, EOL>>
get_ic_values_fr == <<BIT16, BIT16, BYTE_COUNTER(2, 1), ITER, BIT16, PAD4(2), EOL>>
get_ic_values_reply_fr ==
  <<BIT16, BIT16, BYTE_COUNTER(2, 2), PAD4(1), ITER, POINTER, PTR(xicattribute_fr), EOL>>
ext_forward_keyevent_fr ==
  <<BIT16, BIT16, BIT16, BIT16, BIT8, BIT8, BIT16, BIT32, BIT32, EOL>>
ext_move_fr == <<BIT16, BIT16, BIT16, BIT16, EOL>>
sync_fr == <<BIT16, BIT16, EOL>>
reset_ic_fr == <<BIT16, BIT16, EOL>>
set_event_mask_fr == <<BIT16, BIT16, BIT32, BIT32, EOL>>
commit_chars_fr == <<BIT16, BIT16, BIT16, BIT16, BARRAY, PAD4(1), EOL>>
reset_ic_reply_fr == <<BIT16, BIT16, BIT16, BARRAY, PAD4(2), EOL>>
preedit_draw_fr ==
  <<BIT16, BIT16, BIT32, BIT32, BIT32, BIT32, BIT16, BARRAY, PAD4(2),
    BYTE_COUNTER(2, 2), PAD4(1), ITER, BIT32, EOL>>
preedit_done_fr == <<BIT16, BIT16, EOL>>
status_draw_text_fr ==
  <<BIT16, BIT16, BIT32, BIT32, BIT16, BARRAY, PAD4(2),
    BYTE_COUNTER(2, 2), PAD4(1), ITER, BIT32, EOL>>
status_done_fr == <<BIT16, BIT16, EOL>>
=============================================================================
