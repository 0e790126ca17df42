---------------------------- MODULE MCXimProtocol ----------------------------
(* Instances of XimProtocol. *)
EXTENDS XimProtocol, TLC

CONSTANTS a, b

\* Three keys are enough for two to be held back at once, which takes one
\* request; with two keys there are two requests in all orders.
TypesKeys == a :> 3 @@ b :> 0
Asks == a :> 2 @@ b :> 1
Does == a :> 4 @@ b :> 1
Once == a :> 1 @@ b :> 1
=============================================================================
