------------------------- MODULE ModuleTable_proofs -------------------------
(***************************************************************************)
(* Proofs about ModuleTable for any number of slots, libraries, names and  *)
(* contexts.                                                               *)
(***************************************************************************)
EXTENDS ModuleTable, SequenceTheorems, FiniteSetTheorems, TLAPS

Count == [lib : Lib, ref : Nat]

TableType == /\ IM \in [Slot -> Entry \cup {NoEntry}]
             /\ imodp \in [Slot -> Lib \cup {NoLib}]
             /\ mod_stack \in Seq(Count)

\* A module sits in a slot that has a name, and a slot with a name has its
\* trigger key from the moment the program runs.
SlotsNamed ==
    /\ \A i \in Slot : imodp[i] # NoLib => Registered(i)
    /\ phase = "run" => \A i \in Slot : Registered(i) => i \in numlist

\* A search is about a context there is.
CallExists == call # NoCall => phase = "run" /\ Exists(call.c)

Inv == TypeOK /\ SlotsNamed /\ ModulesHeld /\ CallExists

\* What any operation leaves of the table: loaded modules stay, and names
\* only go.
TableSafe ==
    /\ TableType'
    /\ \A i \in Slot : imodp[i] # NoLib => imodp'[i] = imodp[i] /\ IM'[i] = IM[i]
    /\ \A i \in Slot : IM'[i] \in {IM[i], NoEntry}
    /\ \A i \in Slot : imodp'[i] # NoLib => IM'[i] # NoEntry

----------------------------------------------------------------------------
(* The list of libraries *)

\* A library is found at a place of the list or not at all.
LEMMA PlaceType ==
  ASSUME NEW s \in Seq(Count), NEW lib, Place(s, lib) # 0
  PROVE  /\ Place(s, lib) \in 1 .. Len(s)
         /\ s[Place(s, lib)] \in Count
  BY DEF Place

\* Counting a library keeps the list a list of counts.
LEMMA LoadType ==
  ASSUME NEW s \in Seq(Count), NEW lib \in Lib
  PROVE  load_module(s, lib) \in Seq(Count)
<1>1. CASE Place(s, lib) = 0
  <2>1. <<[lib |-> lib, ref |-> 1]>> \in Seq(Count)
    BY DEF Count
  <2> QED
    BY <1>1, <2>1, ConcatProperties DEF load_module
<1>2. CASE Place(s, lib) # 0
  <2> DEFINE k == Place(s, lib)
  <2>1. k \in 1 .. Len(s) /\ s[k] \in Count
    BY <1>2, PlaceType
  <2>2. [s[k] EXCEPT !.ref = @ + 1] \in Count
    BY <2>1 DEF Count
  <2> HIDE DEF k
  <2>3. [s EXCEPT ![k] = [s[k] EXCEPT !.ref = @ + 1]] \in Seq(Count)
    BY <2>1, <2>2, ExceptSeq
  <2>4. load_module(s, lib) = [s EXCEPT ![k].ref = @ + 1]
    BY <1>2 DEF load_module, k
  <2> QED
    BY <2>1, <2>3, <2>4
<1> QED
  BY <1>1, <1>2

\* So does giving it back.
LEMMA UnloadType ==
  ASSUME NEW s \in Seq(Count), NEW lib
  PROVE  unload_module(s, lib) \in Seq(Count)
<1> DEFINE k == Place(s, lib)
<1>1. CASE k = 0
  BY <1>1 DEF unload_module
<1>2. CASE k # 0 /\ s[k].ref > 1
  <2>1. k \in 1 .. Len(s) /\ s[k] \in Count
    BY <1>2, PlaceType
  <2>2. [s[k] EXCEPT !.ref = @ - 1] \in Count
    BY <1>2, <2>1 DEF Count
  <2>3. unload_module(s, lib) = [s EXCEPT ![k].ref = @ - 1]
    BY <1>2 DEF unload_module
  <2> HIDE DEF k
  <2>4. [s EXCEPT ![k] = [s[k] EXCEPT !.ref = @ - 1]] \in Seq(Count)
    BY <2>1, <2>2, ExceptSeq
  <2> QED
    BY <2>1, <2>3, <2>4
<1>3. CASE k # 0 /\ ~(s[k].ref > 1)
  <2>1. k \in 1 .. Len(s)
    BY <1>3, PlaceType
  <2>2. unload_module(s, lib) = SubSeq(s, k + 1, Len(s))
    BY <1>3 DEF unload_module
  <2> HIDE DEF k
  <2> QED
    BY <2>1, <2>2, SubSeqProperties
<1> QED
  BY <1>1, <1>2, <1>3

----------------------------------------------------------------------------
(* The table *)

\* An operation that leaves the table alone is safe.
LEMMA KeepSafe ==
  ASSUME TableType, SlotsNamed, UNCHANGED table
  PROVE  TableSafe
  BY DEF TableType, SlotsNamed, TableSafe, table, Registered

\* Asking for a slot is safe.
LEMMA GetSafe ==
  ASSUME TableType, SlotsNamed, NEW j \in Slot, IM_get(j)
  PROVE  TableSafe
<1>1. CASE ~(Registered(j) /\ ~Loaded(j))
  BY <1>1, KeepSafe DEF IM_get
<1>2. CASE Registered(j) /\ ~Loaded(j)
  <2> DEFINE lib == IM[j].lib
  <2>1. IM_load(j)
    BY <1>2 DEF IM_get
  <2>2. lib \in Lib
    BY <1>2 DEF TableType, Registered, Entry
  <2>3. /\ load_module(mod_stack, lib) \in Seq(Count)
        /\ unload_module(load_module(mod_stack, lib), lib) \in Seq(Count)
    BY <2>2, LoadType, UnloadType DEF TableType
  <2>4. PICK out \in Outcome(j) :
          /\ mod_stack' =
                CASE out = "ok"      -> load_module(mod_stack, lib)
                  [] out = "refused" ->
                        unload_module(load_module(mod_stack, lib), lib)
                  [] out = "absent"  -> mod_stack
          /\ IF out = "ok" THEN imodp' = [imodp EXCEPT ![j] = lib] /\ UNCHANGED IM
             ELSE FreeNames(j) /\ UNCHANGED imodp
    BY <2>1 DEF IM_load
  <2>5. out \in {"ok", "refused", "absent"}
    BY <2>4 DEF Outcome
  <2>6. mod_stack' \in Seq(Count)
    BY <2>3, <2>4, <2>5 DEF TableType
  <2>7. IM' \in [Slot -> Entry \cup {NoEntry}] /\ imodp' \in [Slot -> Lib \cup {NoLib}]
    BY <2>2, <2>4 DEF TableType, FreeNames
  <2>8. imodp[j] = NoLib
    BY <1>2 DEF Loaded
  <2> HIDE DEF lib
  <2>9. /\ \A i \in Slot : imodp[i] # NoLib => imodp'[i] = imodp[i] /\ IM'[i] = IM[i]
        /\ \A i \in Slot : IM'[i] \in {IM[i], NoEntry}
        /\ \A i \in Slot : imodp'[i] # NoLib => IM'[i] # NoEntry
    BY <1>2, <2>4, <2>8 DEF TableType, FreeNames, SlotsNamed, Registered
  <2> QED
    BY <2>6, <2>7, <2>9 DEF TableSafe, TableType
<1> QED
  BY <1>1, <1>2

\* What was loaded stays loaded.
LEMMA StaysLoaded ==
  ASSUME TableSafe, NEW i, Loaded(i)
  PROVE  Loaded(i)'
  BY DEF TableSafe, Loaded

\* The names are among the ones there were.
LEMMA StaysNamed ==
  ASSUME TableSafe, SlotsNamed, UNCHANGED <<phase, numlist>>
  PROVE  SlotsNamed'
  BY DEF TableSafe, SlotsNamed, Registered

----------------------------------------------------------------------------
(* The start of the program *)

\* All slots are empty at first.
LEMMA InitInv == Init => Inv
<1> SUFFICES ASSUME Init PROVE Inv
  OBVIOUS
<1>1. mod_stack \in Seq(Count)
  BY DEF Init
<1>2. 0 \in Slot
  BY ConstantsOK DEF Slot
<1>3. TypeOK
  BY <1>1, <1>2, ConstantsOK DEF Init, TypeOK, Count, Phase, Call
<1> QED
  BY <1>3 DEF Inv, SlotsNamed, ModulesHeld, CallExists, Init, Exists

\* Reading the rcfile fills free slots.
LEMMA ReadCinputInv == Inv /\ ReadCinput => Inv'
<1> SUFFICES ASSUME Inv, ReadCinput PROVE Inv'
  OBVIOUS
<1>1. IM' \in [Slot -> Entry \cup {NoEntry}] /\ phase' \in {"config", "error"}
  BY DEF Inv, TypeOK, ReadCinput
<1>2. TypeOK'
  <2>1. cinput' \in 0 .. MaxCinput
    BY ConstantsOK DEF Inv, TypeOK, ReadCinput
  <2>2. UNCHANGED <<imodp, mod_stack, numlist, core, imc, call>>
    BY DEF ReadCinput
  <2> QED
    BY <1>1, <2>1, <2>2 DEF Inv, TypeOK, Phase
<1>3. \A i \in Slot : Registered(i) => Registered(i)'
  <2> SUFFICES ASSUME NEW i \in Slot, Registered(i) PROVE IM'[i] # NoEntry
    BY DEF Registered
  <2>1. CASE IM' = IM
    BY <2>1 DEF Registered
  <2>2. CASE \E e \in Entry, setkey \in Slot :
                 ~Registered(setkey) /\ IM' = [IM EXCEPT ![setkey] = e]
    BY <2>2 DEF Registered, Inv, TypeOK
  <2> QED
    BY <2>1, <2>2 DEF ReadCinput
<1>4. SlotsNamed'
  BY <1>1, <1>3 DEF Inv, SlotsNamed, ReadCinput
<1>5. ModulesHeld'
  BY <1>1 DEF Inv, ModulesHeld, ReadCinput, Exists, Loaded
<1>6. CallExists'
  BY DEF Inv, CallExists, ReadCinput
<1> QED
  BY <1>2, <1>4, <1>5, <1>6 DEF Inv

\* Loading the default module: the context list is still empty or safe.
LEMMA StartInv ==
  ASSUME Inv, TableSafe, core' \in [default_im : Slot,
             default_im_sinmd : Slot, sinmd_name : SinmdNames, show_cinput : BOOLEAN],
         phase # "run", phase' \in Phase \ {"run"},
         UNCHANGED <<numlist, imc, cinput, call>>,
         phase' \in {"sinmd", "init"} => Loaded(core.default_im)',
         phase' = "init" => core'.show_cinput \/ Loaded(core.default_im_sinmd)'
  PROVE  Inv'
<1>1. TypeOK'
  BY DEF Inv, TypeOK, TableSafe, TableType, Count
<1>2. SlotsNamed'
  BY DEF Inv, SlotsNamed, TableSafe, Registered
<1>3. ModulesHeld'
  BY StaysLoaded DEF Inv, ModulesHeld, Exists, TypeOK, Ctx
<1>4. CallExists'
  BY DEF Inv, CallExists
<1> QED
  BY <1>1, <1>2, <1>3, <1>4 DEF Inv

\* IM_search() of the default method or IM_get_next() from the first slot.
LEMMA LoadDefaultInv == Inv /\ (LoadDefault \/ LoadFallback) => Inv'
<1> SUFFICES ASSUME Inv, LoadDefault \/ LoadFallback PROVE Inv'
  OBVIOUS
<1>0. TableType /\ SlotsNamed /\ core \in [default_im : Slot,
             default_im_sinmd : Slot, sinmd_name : SinmdNames, show_cinput : BOOLEAN]
  BY DEF Inv, TypeOK, TableType, Count
<1>1. CASE \E nx \in {"fallback", "error"} : PastTheTable(nx)
  <2>1. TableSafe
    BY <1>0, <1>1, KeepSafe DEF PastTheTable
  <2> QED
    BY <1>0, <1>1, <2>1, StartInv
       DEF PastTheTable, Phase, LoadDefault, LoadFallback
<1>2. ASSUME NEW j \in Slot, IM_get(j),
             \/ /\ Got(j)
                /\ core' = [core EXCEPT !.default_im = j]
                /\ phase' = "sinmd"
             \/ /\ phase' \in {"fallback", "error"}
                /\ UNCHANGED core
      PROVE  Inv'
  <2>1. TableSafe
    BY <1>0, <1>2, GetSafe
  <2>2. phase' = "sinmd" => Loaded(core.default_im)'
    BY <1>0, <1>2 DEF Got, Loaded
  <2> QED
    BY <1>0, <1>2, <2>1, <2>2, StartInv DEF Phase, LoadDefault, LoadFallback
<1> QED
  BY <1>1, <1>2 DEF LoadDefault, LoadFallback

\* The displayed method is one that is loaded, or the one in use.
LEMMA LoadSinmdInv == Inv /\ LoadSinmd => Inv'
<1> SUFFICES ASSUME Inv, LoadSinmd PROVE Inv'
  OBVIOUS
<1>0. TableType /\ SlotsNamed /\ core \in [default_im : Slot,
             default_im_sinmd : Slot, sinmd_name : SinmdNames, show_cinput : BOOLEAN]
  BY DEF Inv, TypeOK, TableType, Count
<1>1. /\ phase = "sinmd" /\ phase' \in {"init", "wild"}
      /\ UNCHANGED <<numlist, imc, cinput, call>>
  BY DEF LoadSinmd
<1>2. \/ UNCHANGED table /\ ShowCinput
      \/ \E j \in Slot : UseSinmd(j)
  BY DEF LoadSinmd
<1>3. TableSafe
  BY <1>0, <1>2, KeepSafe, GetSafe DEF UseSinmd
<1>4. /\ core' \in [default_im : Slot, default_im_sinmd : Slot,
                    sinmd_name : SinmdNames, show_cinput : BOOLEAN]
      /\ core'.default_im = core.default_im
      /\ core'.show_cinput \/ Loaded(core.default_im_sinmd)'
  BY <1>0, <1>2 DEF ShowCinput, UseSinmd, Got, Loaded
<1>5. Loaded(core.default_im)'
  BY <1>3, <1>4, StaysLoaded DEF Inv, ModulesHeld, LoadSinmd
<1> QED
  BY <1>1, <1>3, <1>4, <1>5, StartInv DEF Phase

\* The trigger keys are made for all the slots that have a name.
LEMMA XimInitInv == Inv /\ XimInit => Inv'
<1> SUFFICES ASSUME Inv, XimInit PROVE Inv'
  OBVIOUS
<1>1. TypeOK'
  BY DEF Inv, TypeOK, XimInit, table, Phase
<1>2. SlotsNamed'
  BY DEF Inv, SlotsNamed, XimInit, table, Registered
<1>3. ModulesHeld'
  BY DEF Inv, ModulesHeld, XimInit, table, Loaded, Exists
<1>4. CallExists'
  BY DEF Inv, CallExists, XimInit, Exists
<1> QED
  BY <1>1, <1>2, <1>3, <1>4 DEF Inv

----------------------------------------------------------------------------
(* The running program *)

CoreType == core \in [default_im : Slot, default_im_sinmd : Slot,
                      sinmd_name : SinmdNames, show_cinput : BOOLEAN]

\* The part of ModulesHeld about one context.
HeldBy(c) ==
    LET m == imc[c]
    IN  /\ m.imodp # NoIM => /\ m.imodp = m.inp_num /\ Loaded(m.imodp)
                             /\ m.s_imodp # NoIM
        /\ m.s_imodp # NoIM => m.s_imodp = m.sinp_num /\ Loaded(m.s_imodp)

DefaultsHeld == /\ Loaded(core.default_im)
                /\ core.show_cinput \/ Loaded(core.default_im_sinmd)

\* What every step of the running program has to keep.
LEMMA RunInv ==
  ASSUME Inv, phase = "run", TableSafe, UNCHANGED <<numlist, cinput, phase>>,
         CoreType', DefaultsHeld', call' \in Call,
         call' # NoCall => Exists(call.c)',
         imc' \in [Context -> Ctx \cup {NoContext}],
         \A c \in Context : \/ imc'[c] = imc[c]
                            \/ imc'[c] = NoContext
                            \/ HeldBy(c)'
  PROVE  Inv'
<1>1. TypeOK'
  BY DEF Inv, TypeOK, TableSafe, TableType, Count, CoreType
<1>2. SlotsNamed'
  BY StaysNamed DEF Inv
<1>3. ASSUME NEW c \in Context, Exists(c)'
      PROVE  HeldBy(c)'
  <2>1. imc'[c] # NoContext
    BY <1>3 DEF Exists
  <2>2. CASE imc'[c] = imc[c]
    <3>1. HeldBy(c)
      BY <2>1, <2>2 DEF Inv, ModulesHeld, Exists, HeldBy
    <3> QED
      BY <2>2, <3>1, StaysLoaded DEF HeldBy
  <2> QED
    BY <2>1, <2>2
<1>4. ModulesHeld'
  BY <1>3 DEF ModulesHeld, HeldBy, DefaultsHeld
<1> QED
  BY <1>1, <1>2, <1>4 DEF Inv, CallExists

\* What Inv says of the running program.
LEMMA RunFacts ==
  ASSUME Inv, phase = "run"
  PROVE  /\ TableType /\ SlotsNamed /\ CoreType /\ DefaultsHeld /\ call \in Call
         /\ call # NoCall => call.c \in Context /\ Exists(call.c)
         /\ imc \in [Context -> Ctx \cup {NoContext}]
         /\ \A c \in Context : Exists(c) => imc[c] \in Ctx /\ HeldBy(c)
<1>1. /\ TableType /\ SlotsNamed /\ CoreType /\ DefaultsHeld /\ call \in Call
      /\ imc \in [Context -> Ctx \cup {NoContext}]
      /\ \A c \in Context : Exists(c) => imc[c] \in Ctx /\ HeldBy(c)
  BY DEF Inv, TypeOK, TableType, Count, CoreType, ModulesHeld, DefaultsHeld,
         HeldBy, Exists
<1>2. call # NoCall => call.c \in Context
  BY <1>1 DEF Call
<1>3. call # NoCall => Exists(call.c)
  BY DEF Inv, CallExists
<1> QED
  BY <1>1, <1>2, <1>3

\* The defaults survive whatever is loaded.
LEMMA DefaultsStay ==
  ASSUME DefaultsHeld, CoreType, TableSafe, UNCHANGED core
  PROVE  DefaultsHeld' /\ CoreType'
  BY StaysLoaded DEF DefaultsHeld, CoreType

\* Contexts come and go.
LEMMA ContextInv ==
  ASSUME Inv, NEW c \in Context, CreateContext(c) \/ DeleteContext(c)
  PROVE  Inv'
<1>1. phase = "run" /\ call = NoCall
  BY DEF CreateContext, DeleteContext, Idle
<1>2. TableSafe
  BY <1>1, RunFacts, KeepSafe DEF CreateContext, DeleteContext
<1>3. UNCHANGED <<numlist, core, cinput, phase, call>>
  BY DEF CreateContext, DeleteContext
<1> DEFINE new == [inp_num |-> core.default_im, imodp |-> NoIM,
                   sinp_num |-> 0, s_imodp |-> NoIM]
<1>4. new \in Ctx
  BY <1>1, RunFacts, ConstantsOK DEF CoreType, Ctx, Slot
<1>5. \E m \in {new, NoContext} : imc' = [imc EXCEPT ![c] = m]
  BY DEF CreateContext, DeleteContext
<1>6. imc' \in [Context -> Ctx \cup {NoContext}]
  BY <1>1, <1>4, <1>5, RunFacts
<1>7. \A d \in Context : imc'[d] = imc[d] \/ imc'[d] = NoContext \/ HeldBy(d)'
  BY <1>1, <1>5, RunFacts DEF HeldBy
<1>8. DefaultsHeld' /\ CoreType'
  BY <1>1, <1>2, <1>3, RunFacts, DefaultsStay
<1> QED
  BY <1>1, <1>2, <1>3, <1>6, <1>7, <1>8, RunInv, RunFacts

\* A context that takes the module of a slot holds what it says.
LEMMA SwitchToHeld ==
  ASSUME Inv, phase = "run", TableSafe, NEW c \in Context, NEW n \in Slot,
         Got(n), SwitchTo(c, n)
  PROVE  /\ imc' \in [Context -> Ctx \cup {NoContext}]
         /\ imc'[c] \in Ctx
         /\ \A d \in Context : imc'[d] = imc[d] \/ HeldBy(d)'
         /\ CoreType' /\ DefaultsHeld'
<1> DEFINE shown == IF core.show_cinput THEN n ELSE core.default_im_sinmd
<1>1. shown \in Slot /\ Got(shown)
  BY RunFacts, StaysLoaded DEF CoreType, DefaultsHeld, Got, Loaded
<1> DEFINE new == [inp_num |-> n, imodp |-> n, sinp_num |-> shown, s_imodp |-> shown]
<1>2. imc' = [imc EXCEPT ![c] = new]
  BY <1>1 DEF SwitchTo
<1>3. new \in Ctx
  BY <1>1 DEF Ctx
<1>4. HeldBy(c)'
  <2>1. imc'[c] = new
    BY <1>2, RunFacts
  <2>2. n # NoIM /\ shown # NoIM
    BY <1>1 DEF Slot, NoIM
  <2> QED
    BY <1>1, <2>1, <2>2 DEF HeldBy, Got, Loaded
<1>5. CoreType' /\ DefaultsHeld'
  <2>1. \/ core' = core
        \/ core' = [core EXCEPT !.default_im = n]
    BY DEF SwitchTo
  <2> QED
    BY <2>1, RunFacts, StaysLoaded DEF CoreType, DefaultsHeld, Got, Loaded
<1>6. imc \in [Context -> Ctx \cup {NoContext}]
  BY RunFacts
<1> HIDE DEF new
<1>7. /\ imc' \in [Context -> Ctx \cup {NoContext}]
      /\ imc'[c] \in Ctx
      /\ \A d \in Context : d # c => imc'[d] = imc[d]
  BY <1>2, <1>3, <1>6
<1> QED
  BY <1>4, <1>5, <1>7

\* Switching to English gives up the module in use only.
LEMMA EnglishHeld ==
  ASSUME Inv, phase = "run", NEW c \in Context, Exists(c), TableSafe,
         SwitchToEnglish(c)
  PROVE  /\ imc' \in [Context -> Ctx \cup {NoContext}]
         /\ imc'[c] \in Ctx
         /\ \A d \in Context : imc'[d] = imc[d] \/ HeldBy(d)'
<1>1. imc[c] \in Ctx /\ HeldBy(c)
  BY RunFacts
<1>2. [imc[c] EXCEPT !.imodp = NoIM] \in Ctx
  BY <1>1 DEF Ctx
<1>3. imc' = [imc EXCEPT ![c] = [imc[c] EXCEPT !.imodp = NoIM]]
  BY DEF SwitchToEnglish
<1>4. HeldBy(c)'
  <2>1. /\ imc'[c].imodp = NoIM
        /\ imc'[c].s_imodp = imc[c].s_imodp
        /\ imc'[c].sinp_num = imc[c].sinp_num
    BY <1>1, <1>3, RunFacts DEF Ctx
  <2> QED
    BY <1>1, <2>1, StaysLoaded DEF HeldBy
<1>5. imc \in [Context -> Ctx \cup {NoContext}]
  BY RunFacts
<1>6. /\ imc' \in [Context -> Ctx \cup {NoContext}]
      /\ imc'[c] \in Ctx
      /\ \A d \in Context : d # c => imc'[d] = imc[d]
  BY <1>2, <1>3, <1>5
<1> QED
  BY <1>4, <1>6

\* One switch by a key, to the module of a slot or to English.
LEMMA ChangeInv ==
  ASSUME Inv, NEW c \in Context,
         ToEnglish(c) \/ \E n \in Slot : change_IM(c, n)
  PROVE  Inv'
<1>1. /\ phase = "run" /\ Exists(c) /\ call' = NoCall
      /\ UNCHANGED <<numlist, cinput, phase, call>>
  BY DEF ToEnglish, change_IM, Idle
<1>2. CASE ToEnglish(c)
  <2>1. TableSafe
    BY <1>1, <1>2, RunFacts, KeepSafe DEF ToEnglish
  <2>2. DefaultsHeld' /\ CoreType'
    BY <1>1, <1>2, <2>1, RunFacts, DefaultsStay DEF ToEnglish
  <2> QED
    BY <1>1, <1>2, <2>1, <2>2, EnglishHeld, RunInv, RunFacts DEF ToEnglish
<1>3. ASSUME NEW n \in Slot, change_IM(c, n)
      PROVE  Inv'
  <2>1. TableSafe
    BY <1>1, <1>3, RunFacts, GetSafe DEF change_IM
  <2>2. CASE Got(n) /\ SwitchTo(c, n)
    BY <1>1, <2>1, <2>2, SwitchToHeld, RunInv, RunFacts
  <2>3. CASE UNCHANGED <<imc, core>>
    BY <1>1, <2>1, <2>3, RunInv, RunFacts, DefaultsStay
  <2> QED
    BY <1>3, <2>2, <2>3 DEF change_IM
<1> QED
  BY <1>2, <1>3

\* The number of a slot or of English comes around to one of these.
LEMMA AroundType ==
  ASSUME NEW j \in 0 .. MaxImEntry, NEW by \in {1, -1}
  PROVE  Around(j, by) \in 0 .. MaxImEntry
  BY ConstantsOK DEF Around

\* The search loops are started.
LEMMA CallInv ==
  ASSUME Inv, NEW c \in Context,
         \/ \E by \in {1, -1} : circular_change_IM(c, by)
         \/ change_simd(c)
  PROVE  Inv'
<1>1. /\ phase = "run" /\ Exists(c)
      /\ UNCHANGED <<table, numlist, core, imc, cinput, phase>>
  BY DEF circular_change_IM, change_simd, Idle
<1>2. call' \in Call /\ call'.c = c
  <2>1. ASSUME NEW by \in {1, -1}, circular_change_IM(c, by)
        PROVE  call' \in Call /\ call'.c = c
    <3>1. imc[c] \in Ctx
      BY <1>1, RunFacts
    <3>2. PICK from \in 0 .. MaxImEntry :
            call' = [op |-> "circular", c |-> c, at |-> Around(from, by), by |-> by]
      BY <2>1, <3>1, ConstantsOK DEF circular_change_IM, Ctx, Slot
    <3> QED
      BY <3>2, AroundType DEF Call
  <2>2. CASE change_simd(c)
    BY <2>2 DEF change_simd, Call
  <2> QED
    BY <2>1, <2>2
<1>3. TableSafe
  BY <1>1, RunFacts, KeepSafe
<1>4. call' # NoCall => Exists(call.c)'
  BY <1>1, <1>2 DEF Exists
<1> QED
  BY <1>1, <1>2, <1>3, <1>4, RunInv, RunFacts, DefaultsStay

\* A round of circular_change_IM().
LEMMA CircularInv == Inv /\ CircularRound => Inv'
<1> SUFFICES ASSUME Inv, CircularRound PROVE Inv'
  OBVIOUS
<1> DEFINE c == call.c
<1>1. /\ phase = "run" /\ c \in Context /\ Exists(c)
      /\ UNCHANGED <<numlist, cinput, phase>>
  BY RunFacts DEF Inv, CallExists, CircularRound, NoCall
<1>2. call \in [op : {"circular"}, c : Context, at : 0 .. MaxImEntry, by : {1, -1}]
  BY <1>1, RunFacts DEF Call, NoCall, CircularRound
<1>3. CASE /\ SwitchToEnglish(c) /\ call' = NoCall /\ UNCHANGED <<table, core>>
  <2>1. TableSafe
    BY <1>1, <1>3, RunFacts, KeepSafe
  <2>2. CoreType' /\ DefaultsHeld'
    BY <1>1, <1>3, <2>1, RunFacts, DefaultsStay
  <2>3. call' \in Call
    BY <1>3 DEF Call
  <2> HIDE DEF c
  <2> QED
    BY <1>1, <1>3, <2>1, <2>2, <2>3, EnglishHeld, RunInv
<1>4. CASE /\ call.at # MaxImEntry /\ IM_get(call.at)
           /\ \/ Got(call.at) /\ SwitchTo(c, call.at) /\ call' = NoCall
              \/ /\ call' = [call EXCEPT !.at = Around(@, call.by)]
                 /\ UNCHANGED <<imc, core>>
  <2>1. call.at \in Slot
    BY <1>2, <1>4, ConstantsOK DEF Slot
  <2>2. TableSafe
    BY <1>1, <1>4, <2>1, RunFacts, GetSafe
  <2>3. CASE Got(call.at) /\ SwitchTo(c, call.at) /\ call' = NoCall
    <3>1. call' \in Call
      BY <2>3 DEF Call
    <3> HIDE DEF c
    <3> QED
      BY <1>1, <2>1, <2>2, <2>3, <3>1, SwitchToHeld, RunInv
  <2>4. CASE /\ call' = [call EXCEPT !.at = Around(@, call.by)]
             /\ UNCHANGED <<imc, core>>
    <3>1. Around(call.at, call.by) \in 0 .. MaxImEntry
      BY <1>2, AroundType
    <3>2. call' \in Call /\ call'.c = c
      BY <1>2, <2>4, <3>1 DEF Call
    <3>3. Exists(call.c)'
      BY <1>1, <2>4, <3>2 DEF Exists
    <3> QED
      BY <1>1, <2>2, <2>4, <3>2, <3>3, RunInv, RunFacts, DefaultsStay
  <2> QED
    BY <1>4, <2>3, <2>4
<1> QED
  BY <1>3, <1>4 DEF CircularRound

\* A round of change_simd().
LEMMA SimdInv == Inv /\ SimdRound => Inv'
<1> SUFFICES ASSUME Inv, SimdRound PROVE Inv'
  OBVIOUS
<1>0. PICK c \in Context : c = call.c
  BY RunFacts DEF Inv, CallExists, SimdRound, NoCall
<1> DEFINE k == imc[c].sinp_num + 1
           Back(idx) == /\ call' = IF idx = imc[c].sinp_num THEN NoCall
                                   ELSE [call EXCEPT !.idx = idx]
                        /\ UNCHANGED <<imc, core>>
<1>1. /\ phase = "run" /\ c \in Context /\ Exists(c)
      /\ UNCHANGED <<numlist, cinput, phase>>
  BY <1>0 DEF Inv, CallExists, SimdRound, NoCall
<1>2. call \in [op : {"simd"}, c : Context, idx : Slot \cup {NoIM}]
  BY <1>1, RunFacts DEF Call, NoCall, SimdRound
<1>3. ASSUME NEW idx \in Slot \cup {NoIM}, Back(idx), TableSafe
      PROVE  Inv'
  <2>1. call' \in Call /\ (call' # NoCall => call'.c = c)
    BY <1>0, <1>2, <1>3 DEF Call
  <2>2. call' # NoCall => Exists(call.c)'
    BY <1>1, <1>3, <2>1 DEF Exists
  <2> QED
    BY <1>1, <1>3, <2>1, <2>2, RunInv, RunFacts, DefaultsStay
<1>4. CASE UNCHANGED table /\ \E idx \in Slot \cup {NoIM} : Back(idx)
  BY <1>1, <1>3, <1>4, RunFacts, KeepSafe
<1>5. ASSUME NEW j \in Slot, IM_get(j),
             \/ Got(j) /\ Display(c, j) /\ call' = NoCall
             \/ Back(j)
      PROVE  Inv'
  <2>1. TableSafe
    BY <1>1, <1>5, RunFacts, GetSafe
  <2>2. CASE Back(j)
    BY <1>3, <2>1, <2>2
  <2>3. CASE Got(j) /\ Display(c, j) /\ call' = NoCall
    <3>1. call' \in Call
      BY <2>3 DEF Call
    <3>2. CASE UNCHANGED <<imc, core>>
      BY <1>1, <2>1, <2>3, <3>1, <3>2, RunInv, RunFacts, DefaultsStay
    <3>3. CASE /\ imc' = [imc EXCEPT ![c] = [@ EXCEPT !.sinp_num = j, !.s_imodp = j]]
               /\ core' = [core EXCEPT !.default_im_sinmd = j,
                                       !.show_cinput = FALSE]
      <4>1. imc[c] \in Ctx /\ HeldBy(c) /\ j # NoIM
        BY <1>1, RunFacts DEF Slot, NoIM
      <4> DEFINE new == [imc[c] EXCEPT !.sinp_num = j, !.s_imodp = j]
      <4>2. /\ new \in Ctx /\ new.imodp = imc[c].imodp /\ new.s_imodp = j
            /\ new.sinp_num = j /\ new.inp_num = imc[c].inp_num
        BY <4>1 DEF Ctx
      <4>3. imc \in [Context -> Ctx \cup {NoContext}]
        BY <1>1, RunFacts
      <4>4. imc' = [imc EXCEPT ![c] = new]
        BY <1>1, <3>3, <4>3
      <4> HIDE DEF new
      <4>5. /\ imc' \in [Context -> Ctx \cup {NoContext}] /\ imc'[c] = new
            /\ \A d \in Context : d # c => imc'[d] = imc[d]
        BY <1>1, <4>2, <4>3, <4>4
      <4>6. HeldBy(c)'
        <5>1. Loaded(j)'
          BY <2>3 DEF Got, Loaded
        <5>2. imc[c].imodp # NoIM => imc[c].imodp = imc[c].inp_num /\ Loaded(imc[c].imodp)
          BY <4>1 DEF HeldBy
        <5>3. imc'[c].imodp # NoIM =>
                 imc'[c].imodp = imc'[c].inp_num /\ (Loaded(imc[c].imodp))'
          BY <2>1, <4>2, <4>5, <5>2, StaysLoaded
        <5> QED
          BY <4>1, <4>2, <4>5, <5>1, <5>3 DEF HeldBy
      <4>7. CoreType' /\ DefaultsHeld'
        BY <1>1, <2>1, <2>3, <3>3, RunFacts, StaysLoaded
           DEF CoreType, DefaultsHeld, Got, Loaded
      <4> QED
        BY <1>1, <2>1, <2>3, <3>1, <4>5, <4>6, <4>7, RunInv
    <3> QED
      BY <2>3, <3>2, <3>3 DEF Display
  <2> QED
    BY <1>5, <2>2, <2>3
<1> QED
  BY <1>0, <1>2, <1>4, <1>5 DEF SimdRound

----------------------------------------------------------------------------
(* The theorems *)

\* Every step keeps the invariant.
LEMMA NextInv == Inv /\ [Next]_vars => Inv'
<1> SUFFICES ASSUME Inv, [Next]_vars PROVE Inv'
  OBVIOUS
<1>1. CASE UNCHANGED vars
  BY <1>1 DEF vars, Inv, TypeOK, SlotsNamed, ModulesHeld, CallExists,
              Registered, Loaded, Exists
<1>2. CASE EndCinput
  <2>1. TableSafe
    BY <1>2, KeepSafe DEF Inv, TypeOK, TableType, Count, EndCinput
  <2> QED
    BY <1>2, <2>1, StartInv DEF EndCinput, Phase, Inv, TypeOK
<1> QED
  BY <1>1, <1>2, ReadCinputInv, LoadDefaultInv, LoadSinmdInv, XimInitInv,
     ContextInv, ChangeInv, CallInv, CircularInv, SimdInv DEF Next

\* The invariant holds in every state.
THEOREM Invariance == Spec => []Inv
  BY InitInv, NextInv, PTL DEF Spec

\* Every variable has its type.
THEOREM TypeCorrect == Spec => []TypeOK
  BY Invariance, PTL DEF Inv

(* A module that a context types through or displays is loaded, and stays  *)
(* loaded for as long as the context holds it.                             *)
THEOREM ModulesSafe == Spec => []ModulesHeld
  BY Invariance, PTL DEF Inv

\* What a step does to the table: it reads a name of the rcfile, or asks for
\* one slot, or nothing.
LEMMA StepAsks ==
  ASSUME Inv, Next
  PROVE  ReadCinput \/ UNCHANGED table \/ \E j \in Slot : IM_get(j)
<1>1. CASE CircularRound
  <2>1. call.at # MaxImEntry => call.at \in Slot
    BY <1>1, ConstantsOK DEF Inv, TypeOK, Call, NoCall, CircularRound, Slot
  <2> QED
    BY <1>1, <2>1 DEF CircularRound, table
<1>2. CASE SimdRound
  BY <1>2 DEF SimdRound
<1>3. CASE \E c \in Context, n \in Slot : change_IM(c, n)
  BY <1>3 DEF change_IM
<1>4. CASE LoadDefault \/ LoadFallback
  BY <1>4 DEF LoadDefault, LoadFallback, PastTheTable
<1>5. CASE LoadSinmd
  BY <1>5 DEF LoadSinmd, UseSinmd
<1>6. CASE EndCinput \/ XimInit
  BY <1>6 DEF EndCinput, XimInit
<1>7. CASE \E c \in Context : \/ CreateContext(c) \/ DeleteContext(c)
                              \/ ToEnglish(c) \/ change_simd(c)
                              \/ \E by \in {1, -1} : circular_change_IM(c, by)
  BY <1>7 DEF CreateContext, DeleteContext, ToEnglish, change_simd,
              circular_change_IM
<1> QED
  BY <1>1, <1>2, <1>3, <1>4, <1>5, <1>6, <1>7 DEF Next

\* Any step but the reading of the rcfile takes the table from one safe state
\* to another.
LEMMA StepSafe == Inv /\ Next => TableSafe \/ ReadCinput
<1> SUFFICES ASSUME Inv, Next PROVE TableSafe \/ ReadCinput
  OBVIOUS
<1>1. TableType /\ SlotsNamed
  BY DEF Inv, TypeOK, TableType, Count
<1> QED
  BY <1>1, StepAsks, KeepSafe, GetSafe

(* A slot answers the same whenever it is asked: this is what lets ImContext *)
(* take the set of slots that load as a constant.                            *)
THEOREM SlotsSettled == Spec => SlotsSettle
<1> DEFINE Settled == \A i \in Slot :
              /\ Loaded(i) => imodp'[i] = imodp[i] /\ IM'[i] = IM[i]
              /\ (phase = "run" /\ ~Registered(i)) => IM'[i] = NoEntry
              /\ phase' = "run" /\ IM'[i] # NoEntry => i \in numlist'
<1>1. Inv /\ Inv' /\ [Next]_vars => [Settled]_vars
  <2> SUFFICES ASSUME Inv, Inv', Next PROVE Settled
    OBVIOUS
  <2>1. \A i \in Slot : phase' = "run" /\ IM'[i] # NoEntry => i \in numlist'
    BY DEF Inv, SlotsNamed, Registered
  <2>2. CASE TableSafe
    BY <2>1, <2>2 DEF TableSafe, Loaded, Registered
  <2>3. CASE ReadCinput
    <3>1. ASSUME NEW i \in Slot, Loaded(i) PROVE imodp' = imodp /\ IM'[i] = IM[i]
      <4>1. Registered(i)
        BY <3>1 DEF Inv, SlotsNamed, Loaded
      <4> QED
        BY <2>3, <4>1 DEF ReadCinput, Inv, TypeOK
    <3> QED
      BY <2>1, <2>3, <3>1 DEF ReadCinput
  <2> QED
    BY <2>2, <2>3, StepSafe
<1> QED
  BY <1>1, Invariance, PTL DEF Spec, SlotsSettle
----------------------------------------------------------------------------
(* The counts of the list of libraries *)

\* No library is in the list twice, and none is there without a user.
Sound(s) ==
    /\ \A k, l \in DOMAIN s : s[k].lib = s[l].lib => k = l
    /\ \A k \in DOMAIN s : s[k].ref > 0

\* How often the list counts a library.
Ref(s, lib) == IF Place(s, lib) = 0 THEN 0 ELSE s[Place(s, lib)].ref

\* The list counts what sits in the table.
Counted == /\ Sound(mod_stack)
           /\ \A lib \in Lib : Ref(mod_stack, lib) = Cardinality(Users(lib))

\* The place of a library in a list that has it.
LEMMA PlaceIs ==
  ASSUME NEW s \in Seq(Count), Sound(s), NEW k \in DOMAIN s
  PROVE  Place(s, s[k].lib) = k
  BY DEF Place, Sound

\* A library that is not in the list has no place there and counts nothing.
LEMMA NoPlace ==
  ASSUME NEW s \in Seq(Count), NEW lib
  PROVE  Place(s, lib) = 0 <=> \A k \in DOMAIN s : s[k].lib # lib
<1>1. \A k \in DOMAIN s : k # 0
  OBVIOUS
<1> QED
  BY <1>1 DEF Place

\* What the list counts for the library at one of its places.
LEMMA RefIs ==
  ASSUME NEW s \in Seq(Count), Sound(s), NEW k \in DOMAIN s
  PROVE  Ref(s, s[k].lib) = s[k].ref
<1>1. Place(s, s[k].lib) = k /\ k # 0
  BY PlaceIs
<1> QED
  BY <1>1 DEF Ref

\* One more use of a library is counted, and nothing else.
LEMMA LoadCounts ==
  ASSUME NEW s \in Seq(Count), Sound(s), NEW lib \in Lib
  PROVE  /\ Sound(load_module(s, lib))
         /\ Ref(load_module(s, lib), lib) = Ref(s, lib) + 1
         /\ \A x \in Lib \ {lib} : Ref(load_module(s, lib), x) = Ref(s, x)
<1> DEFINE t == load_module(s, lib)
<1>0. t \in Seq(Count)
  BY LoadType
<1>1. CASE Place(s, lib) = 0
  <2>1. /\ DOMAIN t = 1 .. Len(s) + 1
        /\ t[1] = [lib |-> lib, ref |-> 1]
        /\ \A k \in DOMAIN s : t[k + 1] = s[k]
    <3>1. t = <<[lib |-> lib, ref |-> 1]>> \o s
      BY <1>1 DEF load_module
    <3>2. <<[lib |-> lib, ref |-> 1]>> \in Seq(Count)
      BY DEF Count
    <3> HIDE DEF t
    <3> QED
      BY <3>1, <3>2
  <2>2. \A k \in DOMAIN s : s[k].lib # lib
    BY <1>1, NoPlace
  <2> HIDE DEF t
  <2>3. \A k \in DOMAIN t : k = 1 \/ (k - 1 \in DOMAIN s /\ t[k] = s[k - 1])
    <3> SUFFICES ASSUME NEW k \in DOMAIN t, k # 1
                 PROVE  k - 1 \in DOMAIN s /\ t[k] = s[k - 1]
      OBVIOUS
    <3>1. k - 1 \in DOMAIN s /\ (k - 1) + 1 = k
      BY <2>1
    <3> QED
      BY <2>1, <3>1
  <2>4. Sound(t)
    <3>1. \A k \in DOMAIN t : t[k].ref > 0
      BY <2>1, <2>3 DEF Sound
    <3>2. ASSUME NEW k \in DOMAIN t, NEW l \in DOMAIN t, t[k].lib = t[l].lib
          PROVE  k = l
      <4>1. CASE k = 1 \/ l = 1
        BY <2>1, <2>2, <2>3, <3>2, <4>1
      <4>2. CASE k # 1 /\ l # 1
        <5>1. k - 1 = l - 1
          BY <2>3, <3>2, <4>2 DEF Sound
        <5> QED
          BY <2>1, <5>1
      <4> QED
        BY <4>1, <4>2
    <3> QED
      BY <3>1, <3>2 DEF Sound
  <2>5. Ref(t, lib) = 1
    <3>1. 1 \in DOMAIN t /\ t[1].lib = lib /\ t[1].ref = 1
      BY <2>1
    <3> QED
      BY <1>0, <2>4, <3>1, RefIs
  <2>6. Ref(s, lib) = 0
    BY <1>1 DEF Ref
  <2>7. ASSUME NEW x \in Lib \ {lib}
        PROVE  Ref(t, x) = Ref(s, x)
    <3>1. CASE \E k \in DOMAIN s : s[k].lib = x
      <4>1. PICK k \in DOMAIN s : s[k].lib = x
        BY <3>1
      <4>2. k + 1 \in DOMAIN t /\ t[k + 1] = s[k]
        BY <2>1
      <4>3. Ref(s, x) = s[k].ref
        BY <4>1, RefIs
      <4>4. Ref(t, x) = t[k + 1].ref
        BY <1>0, <2>4, <4>1, <4>2, RefIs
      <4> QED
        BY <4>2, <4>3, <4>4
    <3>2. CASE \A k \in DOMAIN s : s[k].lib # x
      <4>1. \A k \in DOMAIN t : t[k].lib # x
        BY <2>1, <2>3, <2>7, <3>2
      <4> QED
        BY <1>0, <3>2, <4>1, NoPlace DEF Ref
    <3> QED
      BY <3>1, <3>2
  <2> QED
    BY <2>4, <2>5, <2>6, <2>7 DEF t
<1>2. CASE Place(s, lib) # 0
  <2> DEFINE p == Place(s, lib)
  <2>1. p \in DOMAIN s /\ s[p] \in Count /\ s[p].lib = lib
    BY <1>2, PlaceType DEF Place
  <2>2. t = [s EXCEPT ![p].ref = @ + 1]
    BY <1>2 DEF load_module
  <2> HIDE DEF p, t
  <2>3. /\ DOMAIN t = DOMAIN s
        /\ t[p] = [s[p] EXCEPT !.ref = @ + 1]
        /\ \A k \in DOMAIN s \ {p} : t[k] = s[k]
    BY <2>1, <2>2
  <2>4. t[p].lib = lib /\ t[p].ref = s[p].ref + 1
    BY <2>1, <2>3 DEF Count
  <2>5. \A k \in DOMAIN s : t[k].lib = s[k].lib
    BY <2>1, <2>3, <2>4
  <2>6. Sound(t)
    <3>1. \A k \in DOMAIN s : t[k].ref > 0
      BY <2>1, <2>3, <2>4 DEF Sound, Count
    <3> QED
      BY <2>3, <2>5, <3>1 DEF Sound
  <2>7. Ref(t, lib) = Ref(s, lib) + 1
    BY <1>0, <2>1, <2>3, <2>4, <2>6, RefIs
  <2>8. ASSUME NEW x \in Lib \ {lib}
        PROVE  Ref(t, x) = Ref(s, x)
    <3>1. CASE \E k \in DOMAIN s : s[k].lib = x
      <4>1. PICK k \in DOMAIN s : s[k].lib = x
        BY <3>1
      <4>2. k # p
        BY <2>1, <2>8, <4>1
      <4>3. Ref(s, x) = s[k].ref
        BY <4>1, RefIs
      <4>4. Ref(t, x) = t[k].ref
        BY <1>0, <2>3, <2>5, <2>6, <4>1, RefIs
      <4> QED
        BY <2>3, <4>2, <4>3, <4>4
    <3>2. CASE \A k \in DOMAIN s : s[k].lib # x
      BY <1>0, <2>3, <2>5, <3>2, NoPlace DEF Ref
    <3> QED
      BY <3>1, <3>2
  <2> QED
    BY <2>6, <2>7, <2>8 DEF t
<1> QED
  BY <1>1, <1>2

\* A count that goes up and down is what it was.
LEMMA UpAndDown ==
  ASSUME NEW c \in Count, NEW d, d = [c EXCEPT !.ref = @ + 1]
  PROVE  [d EXCEPT !.ref = @ - 1] = c
<1>1. d \in Count /\ d.lib = c.lib /\ d.ref = c.ref + 1
  BY DEF Count
<1> DEFINE e == [d EXCEPT !.ref = @ - 1]
<1>2. e.lib = c.lib /\ e.ref = c.ref
  BY <1>1 DEF Count
<1>3. e \in Count
  BY <1>1, <1>2 DEF Count
<1> HIDE DEF e
<1>4. e = c
  BY <1>2, <1>3 DEF Count
<1> QED
  BY <1>4 DEF e

\* A library that is given back at once leaves the list as it was: the list
\* starts behind it only if it was at the front.
LEMMA LoadUnload ==
  ASSUME NEW s \in Seq(Count), Sound(s), NEW lib \in Lib
  PROVE  unload_module(load_module(s, lib), lib) = s
<1> DEFINE t == load_module(s, lib)
<1>0. t \in Seq(Count) /\ Sound(t)
  BY LoadType, LoadCounts
<1>1. CASE Place(s, lib) = 0
  <2>1. t = <<[lib |-> lib, ref |-> 1]>> \o s
    BY <1>1 DEF load_module
  <2>2. <<[lib |-> lib, ref |-> 1]>> \in Seq(Count)
    BY DEF Count
  <2> HIDE DEF t
  <2>3. /\ Len(t) = Len(s) + 1
        /\ t[1] = [lib |-> lib, ref |-> 1]
        /\ \A k \in 1 .. Len(s) : t[k + 1] = s[k]
    BY <2>1, <2>2
  <2>4. Place(t, lib) = 1 /\ ~(t[1].ref > 1)
    <3>1. 1 \in DOMAIN t /\ t[1].lib = lib
      BY <2>3
    <3> QED
      BY <1>0, <2>3, <3>1, PlaceIs
  <2>5. unload_module(t, lib) = SubSeq(t, 2, Len(t))
    BY <2>4 DEF unload_module
  <2>6. SubSeq(t, 2, Len(t)) = s
    <3>1. /\ SubSeq(t, 2, Len(t)) \in Seq(Count)
          /\ Len(SubSeq(t, 2, Len(t))) = Len(s)
          /\ \A k \in 1 .. Len(s) : SubSeq(t, 2, Len(t))[k] = s[k]
      BY <1>0, <2>3, SubSeqProperties
    <3> QED
      BY <3>1, SeqEqual
  <2> QED
    BY <2>5, <2>6 DEF t
<1>2. CASE Place(s, lib) # 0
  <2> DEFINE p == Place(s, lib)
  <2>1. p \in DOMAIN s /\ s[p] \in Count /\ s[p].lib = lib
    BY <1>2, PlaceType DEF Place
  <2>2. t = [s EXCEPT ![p].ref = @ + 1]
    BY <1>2 DEF load_module
  <2> HIDE DEF p, t
  <2>3. /\ DOMAIN t = DOMAIN s
        /\ t[p].lib = lib /\ t[p].ref = s[p].ref + 1
    BY <2>1, <2>2 DEF Count
  <2>4. s[p].ref > 0 /\ s[p].ref \in Nat
    BY <2>1 DEF Sound, Count
  <2>5. Place(t, lib) = p /\ p # 0 /\ t[p].ref > 1
    BY <1>0, <2>1, <2>3, <2>4, PlaceIs
  <2>6. unload_module(t, lib) = [t EXCEPT ![p].ref = @ - 1]
    BY <2>5 DEF unload_module
  <2>7. [t EXCEPT ![p].ref = @ - 1] = s
    <3> DEFINE u == [t EXCEPT ![p].ref = @ - 1]
    <3>1. t[p] = [s[p] EXCEPT !.ref = @ + 1]
      BY <2>1, <2>2
    <3>2. [t[p] EXCEPT !.ref = @ - 1] = s[p]
      BY <2>1, <3>1, UpAndDown
    <3>3. DOMAIN u = DOMAIN s /\ u[p] = s[p]
      BY <2>1, <2>3, <3>2
    <3>4. \A k \in DOMAIN s \ {p} : u[k] = s[k]
      BY <2>2, <2>3
    <3>5. u = [k \in DOMAIN u |-> u[k]] /\ s = [k \in DOMAIN s |-> s[k]]
      OBVIOUS
    <3> HIDE DEF u
    <3>6. u = s
      BY <2>1, <3>3, <3>4, <3>5
    <3> QED
      BY <3>6 DEF u
  <2> QED
    BY <2>6, <2>7 DEF t
<1> QED
  BY <1>1, <1>2

\* The slots are finitely many, and so are those of a library.
LEMMA UsersFinite ==
  ASSUME NEW lib
  PROVE  IsFiniteSet(Users(lib)) /\ Cardinality(Users(lib)) \in 0 .. MaxImEntry
<1>1. IsFiniteSet(Slot) /\ Cardinality(Slot) = MaxImEntry
  BY ConstantsOK, FS_Interval DEF Slot
<1>2. Users(lib) \in SUBSET Slot
  BY DEF Users
<1> QED
  BY <1>1, <1>2, FS_Subset, FS_CardinalityType, ConstantsOK

\* Asking for a slot counts the library that it takes.
LEMMA GetCounted ==
  ASSUME TableType, Counted, NEW j \in Slot, IM_get(j)
  PROVE  Counted'
<1>1. CASE UNCHANGED <<imodp, mod_stack>>
  BY <1>1 DEF Counted, Users
<1>2. CASE Registered(j) /\ ~Loaded(j)
  <2>1. PICK lib \in Lib : lib = IM[j].lib
    BY <1>2 DEF TableType, Registered, Entry
  <2>2. mod_stack \in Seq(Count) /\ Sound(mod_stack)
    BY DEF TableType, Counted
  <2>3. unload_module(load_module(mod_stack, lib), lib) = mod_stack
    BY <2>1, <2>2, LoadUnload
  <2>4. \/ UNCHANGED <<imodp, mod_stack>>
        \/ /\ mod_stack' = load_module(mod_stack, lib)
           /\ imodp' = [imodp EXCEPT ![j] = lib]
    <3>1. PICK out \in Outcome(j) :
            /\ mod_stack' =
                  CASE out = "ok"      -> load_module(mod_stack, lib)
                    [] out = "refused" ->
                          unload_module(load_module(mod_stack, lib), lib)
                    [] out = "absent"  -> mod_stack
            /\ IF out = "ok" THEN imodp' = [imodp EXCEPT ![j] = lib] /\ UNCHANGED IM
               ELSE FreeNames(j) /\ UNCHANGED imodp
      BY <1>2, <2>1 DEF IM_get, IM_load
    <3>2. out \in {"ok", "refused", "absent"}
      BY <3>1 DEF Outcome
    <3> QED
      BY <2>3, <3>1, <3>2
  <2>5. CASE /\ mod_stack' = load_module(mod_stack, lib)
             /\ imodp' = [imodp EXCEPT ![j] = lib]
    <3>1. imodp[j] = NoLib /\ imodp \in [Slot -> Lib \cup {NoLib}]
      BY <1>2 DEF Loaded, TableType
    <3>0. /\ imodp'[j] = lib /\ imodp[j] \notin Lib
          /\ \A i \in Slot \ {j} : imodp'[i] = imodp[i]
      BY <2>5, <3>1, ConstantsOK
    <3>2. j \notin Users(lib) /\ Users(lib)' = Users(lib) \cup {j}
      BY <2>1, <3>0 DEF Users
    <3>3. \A x \in Lib \ {lib} : Users(x)' = Users(x)
      BY <2>1, <3>0 DEF Users
    <3>4. Cardinality(Users(lib)') = Cardinality(Users(lib)) + 1
      BY <3>2, UsersFinite, FS_AddElement
    <3>5. /\ Sound(mod_stack')
          /\ Ref(mod_stack', lib) = Ref(mod_stack, lib) + 1
          /\ \A x \in Lib \ {lib} : Ref(mod_stack', x) = Ref(mod_stack, x)
      BY <2>1, <2>2, <2>5, LoadCounts
    <3>6. ASSUME NEW x \in Lib
          PROVE  Ref(mod_stack', x) = Cardinality(Users(x)')
      <4>1. Ref(mod_stack, x) = Cardinality(Users(x))
        BY DEF Counted
      <4>2. CASE x = lib
        BY <3>4, <3>5, <4>1, <4>2
      <4>3. CASE x # lib
        <5>1. Users(x)' = Users(x) /\ Ref(mod_stack', x) = Ref(mod_stack, x)
          BY <3>3, <3>5, <4>3
        <5> QED
          BY <4>1, <5>1
      <4> QED
        BY <4>2, <4>3
    <3> QED
      BY <3>5, <3>6 DEF Counted
  <2> QED
    BY <1>1, <2>4, <2>5
<1> QED
  BY <1>1, <1>2 DEF IM_get, table

\* The counts say what StackCounts says of them.
LEMMA CountedIsStackCounts ==
  ASSUME TypeOK, Counted
  PROVE  StackCounts
<1>1. mod_stack \in Seq(Count) /\ Sound(mod_stack)
  BY DEF TypeOK, Counted, Count
<1>2. ASSUME NEW lib \in Lib, Place(mod_stack, lib) = 0
      PROVE  Users(lib) = {}
  <2>1. Cardinality(Users(lib)) = 0
    BY <1>2 DEF Counted, Ref
  <2> QED
    BY <2>1, UsersFinite, FS_EmptySet
<1>3. ASSUME NEW lib \in Lib, Place(mod_stack, lib) # 0
      PROVE  \E n \in 1 .. MaxImEntry :
               /\ mod_stack[Place(mod_stack, lib)].ref = n
               /\ \E f \in [1 .. n -> Users(lib)] :
                     /\ \A i \in Users(lib) : \E m \in 1 .. n : f[m] = i
                     /\ \A m, o \in 1 .. n : f[m] = f[o] => m = o
  <2> DEFINE n == Cardinality(Users(lib))
  <2>1. mod_stack[Place(mod_stack, lib)].ref = n
    BY <1>3 DEF Counted, Ref
  <2>2. n \in 1 .. MaxImEntry
    <3>1. n > 0
      BY <1>1, <1>3, <2>1, PlaceType DEF Sound
    <3>2. n \in 0 .. MaxImEntry
      BY UsersFinite
    <3> QED
      BY <3>1, <3>2
  <2>3. ExistsBijection(1 .. n, Users(lib))
    BY UsersFinite, FS_CardinalityType
  <2> HIDE DEF n
  <2>4. PICK f \in [1 .. n -> Users(lib)] :
               /\ \A i \in Users(lib) : \E m \in 1 .. n : f[m] = i
               /\ \A m, o \in 1 .. n : f[m] = f[o] => m = o
    BY <2>3 DEF ExistsBijection, Bijection, Injection, Surjection, IsInjective
  <2> QED
    BY <2>1, <2>2, <2>4
<1> QED
  BY <1>1, <1>2, <1>3 DEF StackCounts, Sound

\* Every step keeps the counts.
LEMMA NextCounted ==
  ASSUME Inv, Counted, [Next]_vars
  PROVE  Counted'
<1>1. TableType
  BY DEF Inv, TypeOK, TableType, Count
<1>2. UNCHANGED <<imodp, mod_stack>> \/ \E j \in Slot : IM_get(j)
  BY StepAsks DEF vars, table, ReadCinput
<1> QED
  BY <1>1, <1>2, GetCounted DEF Counted, Users

\* Nothing is loaded at first.
LEMMA InitCounted == Init => Counted
<1> SUFFICES ASSUME Init PROVE Counted
  OBVIOUS
<1>1. \A lib \in Lib : Users(lib) = {}
  BY ConstantsOK DEF Init, Users
<1>2. DOMAIN mod_stack = {}
  BY DEF Init
<1> QED
  BY <1>1, <1>2, FS_EmptySet DEF Counted, Sound, Ref, Place

(* The list of libraries counts the slots that use each one, whatever loads  *)
(* and whatever is refused.  That a refused object is unloaded again by      *)
(* cutting the list behind it loses no other library: it is at the front.    *)
THEOREM StackCountsAlways == Spec => []StackCounts
<1>1. Inv /\ Counted /\ [Next]_vars => Counted'
  BY NextCounted
<1>2. Inv /\ Counted => StackCounts
  BY CountedIsStackCounts DEF Inv
<1> QED
  BY <1>1, <1>2, InitCounted, Invariance, PTL DEF Spec
=============================================================================
