---------------------------- MODULE MCExitProtocol ---------------------------
(* Model values for ExitProtocol. *)
EXTENDS ExitProtocol

CONSTANTS c1, c2

TwoClients == {c1, c2}
=============================================================================
