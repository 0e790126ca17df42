----------------------------- MODULE MCImContext -----------------------------
(* Model values and small sets for ImContext. *)
EXTENDS ImContext

CONSTANT c1

OneClient == {c1}

\* Slot 0 is the default module, slot 1 keeps composed text; slot 2, where there
\* is one, is named in the rcfile but its module cannot be loaded.
Slots1 == {0}
Slots2 == {0, 1}
Slots3 == {0, 1, 2}
Slot1  == {1}
=============================================================================
