------------------------------ MODULE ImSession ------------------------------
(***************************************************************************)
(* What the IMC system promises the input method modules when every IC has *)
(* an IMC of its own (module.En, xim_init and xim_end): the module an IC   *)
(* types through has its data on that IC, set up by its own xim_init(),    *)
(* and an IC that types through none holds nobody's; xim_init() and        *)
(* xim_end() are called in turns, the latter by the module that set the    *)
(* data up; a request moves the session of the IC it is for and of no      *)
(* other; an IC that goes away takes its session with it.                  *)
(***************************************************************************)
CONSTANTS
    Id,      \* the IC ids
    Module,  \* the input method modules
    None     \* no module, no session

VARIABLES
    live,     \* the ICs in use
    bound,    \* the module an IC types through
    session,  \* the module whose data an IC holds
    unpaired  \* some xim_init() and xim_end() were not called in turns

vars == <<live, bound, session, unpaired>>

Init ==
    /\ live = {}
    /\ bound = [i \in Id |-> None]
    /\ session = [i \in Id |-> None]
    /\ unpaired = FALSE

\* The ICs in S keep module and session, those that went away have neither.
Rest(S) ==
    \A j \in S :
      /\ bound'[j] = IF j \in live' THEN bound[j] ELSE None
      /\ session'[j] = IF j \in live' THEN session[j] ELSE None

\* IC i is created or served: it may be left to type through another module, or
\* through none, and its session has followed.  Others may be collected.
Serve(i) ==
    /\ i \in live'
    /\ live' \subseteq live \cup {i}
    /\ session'[i] = bound'[i]
    /\ Rest(Id \ {i})

\* ICs are closed by their client.
Close ==
    /\ live' \subseteq live
    /\ Rest(Id)

Next ==
    /\ bound' \in [Id -> Module \cup {None}]
    /\ session' \in [Id -> Module \cup {None}]
    /\ unpaired' = unpaired
    /\ Close \/ \E i \in Id : Serve(i)

Spec == Init /\ [][Next]_vars
=============================================================================
