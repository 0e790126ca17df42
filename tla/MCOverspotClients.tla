------------------------- MODULE MCOverspotClients -------------------------
(* Fonts and nodes for OverspotClients. *)
EXTENDS OverspotClients

TheFonts == {"fa", "fb", "fixed", "bad"}
GoodFonts == {"fa", "fb", "fixed"}
=============================================================================
