----------------------------- MODULE MCICGarbage -----------------------------
(* Model values for ICGarbage: the windows are numbered from 1. *)
EXTENDS ICGarbage

CONSTANTS c1, c2

TwoClients == {c1, c2}
=============================================================================
