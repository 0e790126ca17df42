---------------------------- MODULE ModuleTable ----------------------------
(***************************************************************************)
(* The table IM[] of input methods of src/src/module.c, over the list of   *)
(* loaded libraries of src/src/lib/xcintool/load_module.c, and everything  *)
(* xcin does with it: the CINPUT entries of the rcfile and the defaults    *)
(* loaded at the start (src/src/xcin_main.c), and the key functions of     *)
(* src/src/xim.c that change the input method of a context or the one      *)
(* whose keystrokes are displayed.                                         *)
(*                                                                         *)
(* A slot is registered by name at the start and loaded when it is first   *)
(* asked for.  Whether a module loads is decided at each attempt: the      *)
(* library may be absent, or check_module() or the module's init() may     *)
(* refuse the object; a slot whose module does not load is freed.  Several *)
(* slots may share a library, which is counted in mod_stack.               *)
(*                                                                         *)
(* A module pointer is named by the slot it was loaded for: each slot gets *)
(* an imodule_t of its own.  The search loops that ask for one slot after  *)
(* another are taken one round at a time, in "call".                       *)
(***************************************************************************)
EXTENDS Integers, Sequences

CONSTANTS
    MaxImEntry,    \* MAX_IM_ENTRY
    Lib,           \* the names of module libraries
    Obj,           \* the names of input methods, name@encoding
    DefaultName,   \* DEFAULT_IM of the rcfile
    SinmdNames,    \* the DEFAULT_IM_SINMD it may give, "DEFAULT" for none
    MaxCinput,     \* bound: how many names CINPUT lists
    Context        \* the contexts (IM_Context_t) that may exist

NoIM == -1             \* no slot, and the NULL pointer to a module
NoEntry == [lib |-> "none", obj |-> "none"]
NoLib == "none"
NoContext == [inp_num |-> NoIM, imodp |-> NoIM, sinp_num |-> NoIM,
              s_imodp |-> NoIM]
NoCall == [op |-> "none"]

ASSUME ConstantsOK ==
    /\ MaxImEntry \in Nat \ {0}
    /\ NoLib \notin Lib
    /\ "none" \notin Obj
    /\ MaxCinput \in Nat

Slot == 0 .. MaxImEntry - 1

VARIABLES
    IM,          \* names: the modname and objname of each slot
    imodp,       \* by slot: the library its module was loaded from
    mod_stack,   \* the libraries in memory, newest first, and their counts
    numlist,     \* the slots that got a trigger key
    core,        \* the defaults kept in xccore and two mode flags
    imc,         \* the contexts
    cinput,      \* the entries of CINPUT, as far as they were read
    phase,       \* how far main() is; "wild": a pointer from past the table
    call         \* the search loop that is running

vars == <<IM, imodp, mod_stack, numlist, core, imc, cinput, phase, call>>
table == <<IM, imodp, mod_stack>>

Entry == [lib : Lib, obj : Obj]
Phase == {"config", "default", "fallback", "sinmd", "init", "run",
          "exit", "error", "wild"}
Ctx == [inp_num : Slot, imodp : Slot \cup {NoIM},
        sinp_num : Slot, s_imodp : Slot \cup {NoIM}]
Call == {NoCall}
        \cup [op : {"simd"}, c : Context, idx : Slot \cup {NoIM}]
        \cup [op : {"circular"}, c : Context, at : 0 .. MaxImEntry, by : {1, -1}]

TypeOK ==
    /\ IM \in [Slot -> Entry \cup {NoEntry}]
    /\ imodp \in [Slot -> Lib \cup {NoLib}]
    /\ mod_stack \in Seq([lib : Lib, ref : Nat])
    /\ numlist \in SUBSET Slot
    /\ core \in [default_im : Slot, default_im_sinmd : Slot,
                 sinmd_name : SinmdNames, show_cinput : BOOLEAN]
    /\ imc \in [Context -> Ctx \cup {NoContext}]
    /\ cinput \in 0 .. MaxCinput
    /\ phase \in Phase
    /\ call \in Call

Registered(i) == IM[i] # NoEntry
Loaded(i) == i \in Slot /\ imodp[i] # NoLib

----------------------------------------------------------------------------
(* load_module.c.  The list s of libraries, newest first.                  *)

\* The place of a library in the list, 0 if it is not there.  It is never there
\* twice, see StackCounts.
Place(s, lib) ==
    IF \E k \in DOMAIN s : s[k].lib = lib
    THEN CHOOSE k \in DOMAIN s : s[k].lib = lib
    ELSE 0

\* Faulty: the count of a library that is not loaded anew stays.
LoadSharesCount(s, lib) ==
    IF Place(s, lib) # 0 THEN s ELSE <<[lib |-> lib, ref |-> 1]>> \o s

load_module(s, lib) ==
    IF Place(s, lib) # 0 THEN [s EXCEPT ![Place(s, lib)].ref = @ + 1]
    ELSE <<[lib |-> lib, ref |-> 1]>> \o s

\* The last use gone, the list starts behind the library: the ones loaded
\* after it fall out of the list as well.
unload_module(s, lib) ==
    LET k == Place(s, lib)
    IN  IF k = 0 THEN s
        ELSE IF s[k].ref > 1 THEN [s EXCEPT ![k].ref = @ - 1]
        ELSE SubSeq(s, k + 1, Len(s))

----------------------------------------------------------------------------
(* module.c.  An operation of the table asks for one slot j: its module is *)
(* loaded if that was not done yet, and the slot is freed if that fails.   *)

\* What an attempt to load the module of slot j may come to.  A library that
\* is in memory already is not looked for again.
Outcome(j) ==
    IF Place(mod_stack, IM[j].lib) # 0 THEN {"ok", "refused"}
    ELSE {"ok", "refused", "absent"}

\* IM_free() of a slot whose module is not loaded.
FreeNames(j) == IM' = [IM EXCEPT ![j] = NoEntry]

IM_load(j) ==
    LET lib == IM[j].lib
    IN  \E out \in Outcome(j) :
          /\ mod_stack' =
                CASE out = "ok"      -> load_module(mod_stack, lib)
                  [] out = "refused" ->
                        unload_module(load_module(mod_stack, lib), lib)
                  [] out = "absent"  -> mod_stack
          /\ IF out = "ok" THEN imodp' = [imodp EXCEPT ![j] = lib] /\ UNCHANGED IM
             ELSE FreeNames(j) /\ UNCHANGED imodp

\* The common end of IM_get(), IM_get_next() and IM_search().
IM_get(j) == IF Registered(j) /\ ~Loaded(j) THEN IM_load(j) ELSE UNCHANGED table

\* The module pointer that IM_get(j) returned.
Got(j) == imodp'[j] # NoLib

\* Faulty: the search ends with the table.
IsNextToTheEnd(k, j) ==
    Registered(j) /\ j >= k /\ \A i \in Slot : i >= k /\ i < j => ~Registered(i)

\* j is the first registered slot from k on, around the table.
IsNext(k, j) ==
    /\ Registered(j)
    /\ \A i \in Slot :
          Registered(i) => (j - k) % MaxImEntry <= (i - k) % MaxImEntry

\* j is the slot that has the name: a name has one at most.
IsNamed(obj, j) == IM[j].obj = obj

----------------------------------------------------------------------------
(* The start of the program: main() of xcin_main.c. *)

Init ==
    /\ IM = [i \in Slot |-> NoEntry]
    /\ imodp = [i \in Slot |-> NoLib]
    /\ mod_stack = <<>>
    /\ numlist = {}
    /\ \E name \in SinmdNames :
          core = [default_im |-> 0, default_im_sinmd |-> 0,
                  sinmd_name |-> name, show_cinput |-> FALSE]
    /\ imc = [c \in Context |-> NoContext]
    /\ cinput = 0
    /\ phase = "config"
    /\ call = NoCall

(* One name of CINPUT, with the MODULE and the SETKEY of its section.  A name *)
(* has one section, so that a name listed again meets its own SETKEY.  The    *)
(* range check lets MAX_IM_ENTRY pass, and IM_register() then refuses it      *)
(* without a word.                                                            *)
ReadCinput ==
    /\ phase = "config" /\ cinput < MaxCinput
    /\ cinput' = cinput + 1
    /\ \E e \in Entry, setkey \in 0 .. MaxImEntry + 1 :
          \/ /\ setkey > MaxImEntry \/ (setkey \in Slot /\ Registered(setkey))
             /\ phase' = "error"
             /\ UNCHANGED IM
          \/ /\ setkey = MaxImEntry
             /\ UNCHANGED <<IM, phase>>
          \/ /\ setkey \in Slot /\ ~Registered(setkey)
             /\ \A i \in Slot : IM[i].obj # e.obj
             /\ IM' = [IM EXCEPT ![setkey] = e]
             /\ UNCHANGED phase
    /\ UNCHANGED <<imodp, mod_stack, numlist, core, imc, call>>

EndCinput ==
    /\ phase = "config"
    /\ phase' = "default"
    /\ UNCHANGED <<table, numlist, core, imc, cinput, call>>

\* IM_search() and IM_get_next() read imodp past the end of the table when
\* no slot is found: a NULL there counts as "not loaded".
PastTheTable(next) == phase' \in {next, "wild"} /\ UNCHANGED <<table, core>>

\* IM_search(DEFAULT_IM).
LoadDefault ==
    /\ phase = "default"
    /\ \/ /\ \A j \in Slot : ~IsNamed(DefaultName, j)
          /\ PastTheTable("fallback")
       \/ \E j \in Slot :
             /\ IsNamed(DefaultName, j)
             /\ IM_get(j)
             /\ \/ /\ Got(j)
                   /\ core' = [core EXCEPT !.default_im = j]
                   /\ phase' = "sinmd"
                \/ /\ ~Got(j)
                   /\ phase' = "fallback"
                   /\ UNCHANGED core
    /\ UNCHANGED <<numlist, imc, cinput, call>>

\* IM_get_next(0), once: "try to load any specified input method".
LoadFallback ==
    /\ phase = "fallback"
    /\ \/ /\ \A j \in Slot : ~IsNext(0, j)
          /\ PastTheTable("error")
       \/ \E j \in Slot :
             /\ IsNext(0, j)
             /\ IM_get(j)
             /\ \/ /\ Got(j)
                   /\ core' = [core EXCEPT !.default_im = j]
                   /\ phase' = "sinmd"
                \/ /\ ~Got(j)
                   /\ phase' = "error"
                   /\ UNCHANGED core
    /\ UNCHANGED <<numlist, imc, cinput, call>>

\* load_default_sinmd().
ShowCinput == core' = [core EXCEPT !.show_cinput = TRUE]

\* Faulty: a DEFAULT_IM_SINMD that does not load is kept all the same.
SinmdUnchecked(j) ==
    IM_get(j) /\ core' = [core EXCEPT !.default_im_sinmd = j]

UseSinmd(j) ==
    /\ IM_get(j)
    /\ \/ Got(j) /\ core' = [core EXCEPT !.default_im_sinmd = j]
       \/ ~Got(j) /\ ShowCinput

LoadSinmd ==
    /\ phase = "sinmd"
    /\ \/ /\ core.sinmd_name = "DEFAULT"
          /\ ShowCinput
          /\ phase' = "init"
          /\ UNCHANGED table
       \/ /\ core.sinmd_name # "DEFAULT"
          /\ \A j \in Slot : ~IsNamed(core.sinmd_name, j)
          /\ ShowCinput
          /\ phase' \in {"init", "wild"}
          /\ UNCHANGED table
       \/ /\ core.sinmd_name # "DEFAULT"
          /\ \E j \in Slot : IsNamed(core.sinmd_name, j) /\ UseSinmd(j)
          /\ phase' = "init"
    /\ UNCHANGED <<numlist, imc, cinput, call>>

\* xim_init(): make_trigger_keys() takes the list IM_get_numlist() builds at
\* its first call.
XimInit ==
    /\ phase = "init"
    /\ numlist' = {i \in Slot : Registered(i)}
    /\ phase' = "run"
    /\ UNCHANGED <<table, core, imc, cinput, call>>

----------------------------------------------------------------------------
(* The key functions and the contexts, with the program running. *)

Idle == phase = "run" /\ call = NoCall
Exists(c) == imc[c] # NoContext

\* ic_create() and the deletion of a context.
CreateContext(c) ==
    /\ Idle /\ ~Exists(c)
    /\ imc' = [imc EXCEPT ![c] = [inp_num |-> core.default_im, imodp |-> NoIM,
                                  sinp_num |-> 0, s_imodp |-> NoIM]]
    /\ UNCHANGED <<table, numlist, core, cinput, phase, call>>

DeleteContext(c) ==
    /\ Idle /\ Exists(c)
    /\ imc' = [imc EXCEPT ![c] = NoContext]
    /\ UNCHANGED <<table, numlist, core, cinput, phase, call>>

\* The end of change_IM(ic, n) once IM_get(n) gave a module.  New contexts
\* start with n if XCIN_SINGLE_IMC or XCIN_IM_FOCUS is on.  The second
\* IM_get() is for a slot that was loaded when it was made the default.
SwitchTo(c, n) ==
    LET shown == IF core.show_cinput THEN n ELSE core.default_im_sinmd
    IN  /\ imc' = [imc EXCEPT ![c] =
                     [inp_num |-> n, imodp |-> n, sinp_num |-> shown,
                      s_imodp |-> IF Got(shown) THEN shown ELSE NoIM]]
        /\ core' \in {core, [core EXCEPT !.default_im = n]}

SwitchToEnglish(c) == imc' = [imc EXCEPT ![c].imodp = NoIM]

\* The trigger keys and FKEY_ZHEN.
change_IM(c, n) ==
    /\ Idle /\ Exists(c)
    /\ n \in numlist \cup {imc[c].inp_num}
    /\ IM_get(n)
    /\ \/ Got(n) /\ SwitchTo(c, n)
       \/ ~Got(n) /\ UNCHANGED <<imc, core>>
    /\ UNCHANGED <<numlist, cinput, phase, call>>

ToEnglish(c) ==
    /\ Idle /\ Exists(c)
    /\ SwitchToEnglish(c)
    /\ UNCHANGED <<table, numlist, core, cinput, phase, call>>

\* English has the number MaxImEntry.
Around(j, by) == (j + by) % (MaxImEntry + 1)

\* circular_change_IM(ic, by), from the slot in use or, with IM_CINPUT off,
\* from English.
circular_change_IM(c, by) ==
    /\ Idle /\ Exists(c)
    /\ \E from \in {MaxImEntry} \cup
                   (IF imc[c].imodp = NoIM THEN {} ELSE {imc[c].inp_num}) :
          call' = [op |-> "circular", c |-> c, at |-> Around(from, by), by |-> by]
    /\ UNCHANGED <<table, numlist, core, imc, cinput, phase>>

CircularRound ==
    /\ call.op = "circular"
    /\ \/ /\ call.at = MaxImEntry
          /\ SwitchToEnglish(call.c)
          /\ call' = NoCall
          /\ UNCHANGED <<table, core>>
       \/ /\ call.at # MaxImEntry
          /\ IM_get(call.at)
          /\ \/ /\ Got(call.at)
                /\ SwitchTo(call.c, call.at)
                /\ call' = NoCall
             \/ /\ ~Got(call.at)
                /\ call' = [call EXCEPT !.at = Around(@, call.by)]
                /\ UNCHANGED <<imc, core>>
    /\ UNCHANGED <<numlist, cinput, phase>>

\* change_simd(): idx is not initialized.
change_simd(c) ==
    /\ Idle /\ Exists(c)
    /\ \E idx \in Slot \cup {NoIM} : call' = [op |-> "simd", c |-> c, idx |-> idx]
    /\ UNCHANGED <<table, numlist, core, imc, cinput, phase>>

\* What change_simd() does with the slot it found.
Display(c, j) ==
    IF j = imc[c].sinp_num THEN UNCHANGED <<imc, core>>
    ELSE /\ imc' = [imc EXCEPT ![c] = [@ EXCEPT !.sinp_num = j, !.s_imodp = j]]
         /\ core' = [core EXCEPT !.default_im_sinmd = j, !.show_cinput = FALSE]

\* One IM_get_next(sinp_num + 1).  Behind the last slot it returns before idx
\* is set.
SimdRound ==
    /\ call.op = "simd"
    /\ LET c     == call.c
           k     == imc[c].sinp_num + 1
           Back(idx) == /\ call' = IF idx = imc[c].sinp_num THEN NoCall
                                   ELSE [call EXCEPT !.idx = idx]
                        /\ UNCHANGED <<imc, core>>
       IN  \/ k \notin Slot /\ Back(call.idx) /\ UNCHANGED table
           \/ /\ k \in Slot /\ \A j \in Slot : ~IsNext(k, j)
              /\ Back(NoIM) /\ UNCHANGED table
           \/ /\ k \in Slot
              /\ \E j \in Slot :
                    /\ IsNext(k, j)
                    /\ IM_get(j)
                    /\ \/ Got(j) /\ Display(c, j) /\ call' = NoCall
                       \/ ~Got(j) /\ Back(j)
    /\ UNCHANGED <<numlist, cinput, phase>>

Next ==
    \/ ReadCinput \/ EndCinput
    \/ LoadDefault \/ LoadFallback \/ LoadSinmd \/ XimInit
    \/ \E c \in Context :
          \/ CreateContext(c) \/ DeleteContext(c)
          \/ \E n \in Slot : change_IM(c, n)
          \/ ToEnglish(c)
          \/ \E by \in {1, -1} : circular_change_IM(c, by)
          \/ change_simd(c)
    \/ CircularRound \/ SimdRound

Spec == Init /\ [][Next]_vars

(* A loop that was entered goes on: nothing else runs in the meantime. *)
FairSpec == Spec /\ WF_vars(CircularRound) /\ WF_vars(SimdRound)

----------------------------------------------------------------------------
(* Properties *)

\* The slots loaded from a library.
Users(lib) == {i \in Slot : imodp[i] = lib}

(* The list of libraries says of each one how many slots use it, so that no *)
(* slot is left with the code of a library that was unloaded under it, and  *)
(* no library is opened twice.                                              *)
StackCounts ==
    /\ \A k, l \in DOMAIN mod_stack :
          mod_stack[k].lib = mod_stack[l].lib => k = l
    /\ \A lib \in Lib :
          LET k == Place(mod_stack, lib)
          IN  IF k = 0 THEN Users(lib) = {}
              ELSE \E n \in 1 .. MaxImEntry :
                     /\ mod_stack[k].ref = n
                     /\ \E f \in [1 .. n -> Users(lib)] :
                           /\ \A i \in Users(lib) : \E m \in 1 .. n : f[m] = i
                           /\ \A m, o \in 1 .. n : f[m] = f[o] => m = o

(* What a context types through and what it displays are modules that stay  *)
(* loaded, in the slots it says; a context with a module also has one to    *)
(* display, which call_simd() calls without asking.                         *)
ModulesHeld ==
    /\ phase \in {"sinmd", "init", "run"} => Loaded(core.default_im)
    /\ phase \in {"init", "run"} => core.show_cinput \/ Loaded(core.default_im_sinmd)
    /\ \A c \in Context : Exists(c) =>
        LET m == imc[c]
        IN  /\ m.imodp # NoIM => /\ m.imodp = m.inp_num /\ Loaded(m.imodp)
                                 /\ m.s_imodp # NoIM
            /\ m.s_imodp # NoIM => m.s_imodp = m.sinp_num /\ Loaded(m.s_imodp)

(* Once the program runs, a slot answers the same whenever it is asked: a    *)
(* module that was delivered is delivered again, one that failed is never    *)
(* tried again, and no name comes up that has no trigger key.                *)
SlotsSettle ==
    [][\A i \in Slot :
         /\ Loaded(i) => imodp'[i] = imodp[i] /\ IM'[i] = IM[i]
         /\ (phase = "run" /\ ~Registered(i)) => IM'[i] = NoEntry
         /\ phase' = "run" /\ IM'[i] # NoEntry => i \in numlist']_vars

(* Each change of the displayed method is over after some searches, if it    *)
(* does not start from the last slot, and so is each circular change.        *)
SearchesEnd ==
    /\ \A c \in Context :
          (call.op = "simd" /\ call.c = c /\ imc[c].sinp_num + 1 < MaxImEntry)
             ~> (call = NoCall)
    /\ (call.op = "circular") ~> (call = NoCall)

(* The same from every slot.  From the last one, the searches go on for ever  *)
(* and change nothing: IM_get_next() returns before it looks at the table.    *)
SimdEnds == (call.op = "simd") ~> (call = NoCall)

(* "If they are not found, xcin will automatically choose other IMs": it     *)
(* gives up only when no input method of CINPUT is left untried.             *)
EveryImTried ==
    [][phase = "fallback" /\ phase' = "error" => \A i \in Slot : IM'[i] = NoEntry]_vars
=============================================================================
