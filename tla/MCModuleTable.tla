---------------------------- MODULE MCModuleTable ----------------------------
(* Values for ModuleTable. *)
EXTENDS ModuleTable

ThreeNames == {"o1", "o2", "o3"}

\* DEFAULT_IM_SINMD: the default method, another one, or none.
Sinmd == {"o1", "o2", "DEFAULT"}
=============================================================================
