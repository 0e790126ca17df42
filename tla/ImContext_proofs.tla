--------------------------- MODULE ImContext_proofs ---------------------------
(***************************************************************************)
(* Proofs about ImContext for every number of clients, ICs and modules.    *)
(*                                                                         *)
(* The handlers are functions on contexts, so the argument has two halves. *)
(* The lemmas on contexts show that each of them takes a sound context to  *)
(* a sound one; Handled and Deleted then carry soundness from the context  *)
(* back to the state (HandledKeeps, DeletedKeeps).                         *)
(***************************************************************************)
EXTENDS ImContext, TLAPS

Contexts == [imc : IMC, st : SUBSET ICState, xc : XCcore, called : BOOLEAN,
             unsent : SUBSET Id, unpaired : BOOLEAN, ok : BOOLEAN]

\* What SelectionCoherent and ContextBalance say of a single IMC.
SoundIMC(m) ==
    /\ "CINPUT" \in m.inp_state <=> m.imodp # NoIM
    /\ m.imodp # NoIM => m.imodp = m.inp_num
    /\ "XIMFOCUS" \in m.inp_state => "CINPUT" \in m.inp_state
    /\ "2BFOCUS" \in m.inp_state => "2BYTES" \in m.inp_state
    /\ ~SingleIMC => m.iccf = m.imodp

\* What FocusModes says of the flags of xccore->xcin_mode.
FocusAgrees(mode) ==
    mode \cap {"RUN_IM_FOCUS", "RUN_2B_FOCUS"} # {} => "IM_FOCUS" \in mode

\* What SharedSelection says of the one IMC and the core record, whose focus
\* modes agree.
Shared(m, xc) ==
    /\ SingleIMC => /\ m.inp_num = xc.default_im
                    /\ "IM_FOCUS" \in xc.xcin_mode => m.inp_num = xc.im_focus
    /\ FocusAgrees(xc.xcin_mode)

Sound(s) ==
    /\ s \in Contexts
    /\ SoundIMC(s.imc)
    /\ Shared(s.imc, s.xc)
    /\ ~SingleIMC => ~s.unpaired

\* The handler of IC i may make i current, or the current IC the previous one.
Points(s, i) ==
    /\ s.xc.ic \in {xccore.ic, i}
    /\ s.xc.icp \in {xccore.ic, xccore.icp, i}

\* What must hold of the context a request leaves.
Final(s, i) ==
    /\ Sound(s)
    /\ Points(s, i)
    /\ ~SingleIMC => ("CONNECT" \in s.st => Active(s.imc))

\* The inductive invariant.
IInv ==
    /\ TypeOK
    /\ IdsPartition
    /\ CurrentIsLive
    /\ \A i \in Id : SoundIMC(imc[i])
    /\ Shared(imc[1], xccore)
    /\ ~SingleIMC => ~unpaired
    /\ ~SingleIMC => ConnectedIsActive
    /\ ~SingleIMC => \A i \in Id \ ic_list : imc[i].imodp = NoIM

----------------------------------------------------------------------------
(* Lemmas on contexts.                                                     *)

\* What call_xim_end() leaves of a sound context: the flags and, if it is to
\* clear, the data are gone; nothing else moves, and in multi mode the data were
\* the bound module's to end.
LEMMA XimEndSpec ==
    ASSUME ConstantsOK, NEW s \in Contexts, SoundIMC(s.imc), NEW i \in Id,
           NEW clear \in BOOLEAN, s.imc.imodp # NoIM
    PROVE  LET e == XimEnd(s, i, clear)
           IN  /\ e \in Contexts
               /\ e.imc.inp_state = s.imc.inp_state \ {"CINPUT", "XIMFOCUS"}
               /\ e.imc.iccf = IF clear THEN NoIM ELSE s.imc.iccf
               /\ e.imc.inp_num = s.imc.inp_num
               /\ e.imc.imodp = s.imc.imodp
               /\ e.xc = s.xc
               /\ ~SingleIMC => (e.unpaired <=> s.unpaired)
               /\ e.st = s.st
               /\ e.ok = s.ok
<1> DEFINE m    == s.imc
           ends == clear /\ m.imodp # NoIM /\ "CINPUT" \in m.inp_state
           e    == XimEnd(s, i, clear)
<1>1. s \in Contexts /\ m \in IMC /\ s.unpaired \in BOOLEAN
  BY DEF Contexts
<1>2. /\ e.imc = [m EXCEPT !.inp_state = @ \ {"CINPUT", "XIMFOCUS"},
                          !.iccf   = IF ends THEN NoIM ELSE @,
                          !.n_lcch = @ /\ ~ends]
      /\ e.unpaired = (s.unpaired \/ (ends /\ m.iccf # m.imodp))
      /\ e.unsent = IF ends /\ m.n_lcch THEN s.unsent \cup {i} ELSE s.unsent
      /\ e.xc = s.xc /\ e.st = s.st /\ e.ok = s.ok /\ e.called = s.called
  BY <1>1 DEF XimEnd, Contexts
<1>3. ends <=> clear
  BY DEF SoundIMC
<1> HIDE DEF ends, e
<1>4. /\ e.imc \in IMC
      /\ e.imc.inp_state = m.inp_state \ {"CINPUT", "XIMFOCUS"}
      /\ e.imc.iccf = IF clear THEN NoIM ELSE m.iccf
      /\ e.imc.inp_num = m.inp_num
      /\ e.imc.imodp = m.imodp
  BY <1>1, <1>2, <1>3 DEF IMC, InpState, NoIM
<1>5. e.unpaired \in BOOLEAN /\ (~SingleIMC => (e.unpaired <=> s.unpaired))
  BY <1>1, <1>2 DEF SoundIMC
<1>6. e \in Contexts
  <2>1. e = [s EXCEPT !.imc = e.imc, !.unsent = e.unsent, !.unpaired = e.unpaired]
    BY <1>1 DEF e, XimEnd, Contexts
  <2>2. e.unsent \in SUBSET Id
    BY <1>1, <1>2 DEF Contexts
  <2> QED
    BY <1>1, <1>4, <1>5, <2>1, <2>2 DEF Contexts
<1> QED
  BY <1>2, <1>4, <1>5, <1>6 DEF e

\* What call_xim_init() makes of a context whose module is bound.
LEMMA XimInitSpec ==
    ASSUME ConstantsOK, NEW s \in Contexts, NEW reset \in BOOLEAN,
           s.imc.imodp # NoIM
    PROVE  LET e == XimInit(s, reset)
               starts == reset /\ "CINPUT" \notin s.imc.inp_state
           IN  /\ e \in Contexts
               /\ e.imc.inp_state = s.imc.inp_state \cup {"CINPUT", "XIMFOCUS"}
               /\ e.imc.iccf = IF starts THEN s.imc.imodp ELSE s.imc.iccf
               /\ e.imc.inp_num = s.imc.inp_num
               /\ e.imc.imodp = s.imc.imodp
               /\ e.xc = s.xc
               /\ e.unpaired <=> (s.unpaired \/ (starts /\ s.imc.iccf # NoIM))
               /\ e.st = s.st
               /\ e.ok = s.ok
BY DEF Contexts, XimInit, IMC, InpState, ConstantsOK, NoIM

\* change_IM() keeps a context sound; it touches neither the IC's flags nor the
\* current ICs, and when it succeeds the IMC is in English or has n bound.
LEMMA ChangeIMSound ==
    ASSUME ConstantsOK, NEW s, Sound(s), s.ok, NEW i \in Id, NEW n
    PROVE  LET e == ChangeIM(s, i, n)
           IN  /\ Sound(e)
               /\ e.xc.ic = s.xc.ic
               /\ e.xc.icp = s.xc.icp
               /\ e.st = s.st
               /\ n \in Slot /\ e.ok => "CINPUT" \in e.imc.inp_state
               /\ n \notin Slot => "CINPUT" \notin e.imc.inp_state
               /\ n \in Loadable => e.ok
               /\ "2BYTES" \in s.imc.inp_state => "2BYTES" \in e.imc.inp_state
<1> DEFINE reset  == ResetInpinfo(s, n)
           leaves == s.imc.imodp # NoIM /\ (n \notin Slot \/ n # s.imc.imodp)
           called == [s EXCEPT !.called = TRUE]
           out    == IF leaves THEN XimEnd(called, i, reset) ELSE called
           e      == ChangeIM(s, i, n)
<1>1. s \in Contexts /\ SoundIMC(s.imc) /\ (~SingleIMC => ~s.unpaired)
      /\ Shared(s.imc, s.xc)
  BY DEF Sound
<1>2. reset \in BOOLEAN /\ (~SingleIMC => reset)
  BY DEF ResetInpinfo
<1>3. called \in Contexts /\ called.imc = s.imc /\ called.xc = s.xc
      /\ called.unpaired = s.unpaired /\ called.st = s.st /\ called.ok = s.ok
  BY <1>1 DEF Contexts
<1>4. Loadable \subseteq Slot /\ NoIM \notin Slot
  BY DEF ConstantsOK, Slot, NoIM
<1> HIDE DEF reset, leaves, called, out, e
<1>5. /\ out \in Contexts
      /\ out.imc.inp_state = IF leaves THEN s.imc.inp_state \ {"CINPUT", "XIMFOCUS"}
                                       ELSE s.imc.inp_state
      /\ out.imc.iccf = IF leaves /\ reset THEN NoIM ELSE s.imc.iccf
      /\ out.imc.inp_num = s.imc.inp_num
      /\ out.imc.imodp = s.imc.imodp
      /\ out.xc = s.xc
      /\ ~SingleIMC => (out.unpaired <=> s.unpaired)
      /\ out.st = s.st
      /\ out.ok = s.ok
  <2>1. CASE leaves
    <3>1. out = XimEnd(called, i, reset)
      BY <2>1 DEF out
    <3>2. s.imc.imodp # NoIM
      BY <2>1 DEF leaves
    <3>3. called \in Contexts /\ SoundIMC(called.imc) /\ called.imc.imodp # NoIM
      BY <1>1, <1>3, <3>2
    <3>4. /\ out \in Contexts
          /\ out.imc.inp_state = called.imc.inp_state \ {"CINPUT", "XIMFOCUS"}
          /\ out.imc.iccf = IF reset THEN NoIM ELSE called.imc.iccf
          /\ out.imc.inp_num = called.imc.inp_num
          /\ out.imc.imodp = called.imc.imodp
          /\ out.xc = called.xc
          /\ ~SingleIMC => (out.unpaired <=> called.unpaired)
          /\ out.st = called.st
          /\ out.ok = called.ok
      BY <1>2, <3>1, <3>3, XimEndSpec
    <3> QED
      BY <1>3, <2>1, <3>4
  <2>2. CASE ~leaves
    BY <1>3, <2>2 DEF out
  <2> QED
    BY <2>1, <2>2
<1>6. CASE n \notin Slot
  <2>1. e = ToEnglish(out)
    BY <1>6 DEF e, ChangeIM, out, leaves, called, reset
  <2>2. /\ e \in Contexts
        /\ e.imc = [out.imc EXCEPT !.imodp = NoIM]
        /\ e.unpaired = out.unpaired /\ e.st = out.st /\ e.ok = out.ok
        /\ e.xc.ic = out.xc.ic /\ e.xc.icp = out.xc.icp
        /\ e.xc.default_im = out.xc.default_im
        /\ e.xc.im_focus = out.xc.im_focus
        /\ e.xc.xcin_mode \subseteq out.xc.xcin_mode
        /\ FocusAgrees(out.xc.xcin_mode) => FocusAgrees(e.xc.xcin_mode)
    BY <1>5, <2>1 DEF ToEnglish, Contexts, IMC, XCcore, XcinMode, FocusAgrees
  <2>3. leaves <=> s.imc.imodp # NoIM
    BY <1>6 DEF leaves
  <2>4. /\ e.imc.imodp = NoIM
        /\ e.imc.inp_state = out.imc.inp_state
        /\ e.imc.iccf = out.imc.iccf
        /\ e.imc.inp_num = out.imc.inp_num
    BY <1>5, <2>2 DEF Contexts, IMC
  <2>5. SoundIMC(e.imc)
    BY <1>1, <1>2, <1>5, <2>3, <2>4 DEF SoundIMC
  <2>6. "CINPUT" \notin e.imc.inp_state
    BY <2>4, <2>5 DEF SoundIMC
  <2>7. Shared(e.imc, e.xc)
    BY <1>1, <1>5, <2>2, <2>4 DEF Shared
  <2> QED
    BY <1>1, <1>4, <1>5, <1>6, <2>2, <2>4, <2>5, <2>6, <2>7 DEF Sound, e
<1>7. CASE n \in Loadable
  <2> DEFINE mode  == s.xc.xcin_mode
             bound == [out EXCEPT
                         !.imc.imodp = n,
                         !.imc.inp_num = n,
                         !.xc.xcin_mode = IF "IM_FOCUS" \in mode
                                            THEN @ \cup {"RUN_IM_FOCUS"} ELSE @,
                         !.xc.im_focus = IF "IM_FOCUS" \in mode THEN n ELSE @,
                         !.xc.default_im = IF SingleIMC THEN n ELSE @]
  <2>1. e = XimInit(bound, reset)
    BY <1>4, <1>5, <1>7 DEF e, ChangeIM, out, leaves, called, reset, ToModule
  <2>2. /\ bound \in Contexts
        /\ bound.imc = [out.imc EXCEPT !.imodp = n, !.inp_num = n]
        /\ bound.unpaired = out.unpaired /\ bound.st = s.st /\ bound.ok = s.ok
        /\ bound.xc.ic = s.xc.ic /\ bound.xc.icp = s.xc.icp
        /\ SingleIMC => bound.xc.default_im = n
        /\ "IM_FOCUS" \in bound.xc.xcin_mode => bound.xc.im_focus = n
        /\ FocusAgrees(s.xc.xcin_mode) => FocusAgrees(bound.xc.xcin_mode)
    BY <1>5, <1>7 DEF Contexts, IMC, XCcore, XcinMode, FocusAgrees
  <2> HIDE DEF bound
  <2>3. /\ bound.imc.imodp = n
        /\ bound.imc.inp_num = n
        /\ bound.imc.inp_state = out.imc.inp_state
        /\ bound.imc.iccf = out.imc.iccf
    BY <1>5, <2>2 DEF Contexts, IMC
  <2>4. n # NoIM
    BY <1>4, <1>7
  <2> DEFINE starts == reset /\ "CINPUT" \notin bound.imc.inp_state
  <2>5. /\ e \in Contexts
        /\ e.imc.inp_state = bound.imc.inp_state \cup {"CINPUT", "XIMFOCUS"}
        /\ e.imc.iccf = IF starts THEN n ELSE bound.imc.iccf
        /\ e.imc.inp_num = n
        /\ e.imc.imodp = n
        /\ e.xc = bound.xc
        /\ e.unpaired <=> (out.unpaired \/ (starts /\ bound.imc.iccf # NoIM))
        /\ e.st = s.st
        /\ e.ok = s.ok
    <3>1. bound.imc.imodp # NoIM
      BY <2>3, <2>4
    <3>2. /\ e \in Contexts
          /\ e.imc.inp_state = bound.imc.inp_state \cup {"CINPUT", "XIMFOCUS"}
          /\ e.imc.iccf = IF starts THEN bound.imc.imodp ELSE bound.imc.iccf
          /\ e.imc.inp_num = bound.imc.inp_num
          /\ e.imc.imodp = bound.imc.imodp
          /\ e.xc = bound.xc
          /\ e.unpaired <=> (bound.unpaired \/ (starts /\ bound.imc.iccf # NoIM))
          /\ e.st = bound.st
          /\ e.ok = bound.ok
      BY <1>2, <2>1, <2>2, <3>1, XimInitSpec
    <3>3. e.unpaired <=> (out.unpaired \/ (starts /\ bound.imc.iccf # NoIM))
      BY <2>2, <3>2, Zenon
    <3> HIDE DEF starts
    <3> QED
      BY <2>2, <2>3, <3>2, <3>3
  <2>6. leaves <=> s.imc.imodp # NoIM /\ n # s.imc.imodp
    BY <1>4, <1>7 DEF leaves
  <2>7. ~SingleIMC => (starts <=> s.imc.imodp # n)
    BY <1>1, <1>2, <1>5, <2>3, <2>4, <2>6 DEF SoundIMC
  <2>8. ~SingleIMC => (starts => bound.imc.iccf = NoIM)
    BY <1>1, <1>2, <1>5, <2>3, <2>6, <2>7 DEF SoundIMC
  <2>9. SoundIMC(e.imc)
    BY <1>1, <1>2, <1>5, <2>3, <2>4, <2>5, <2>6, <2>7, <2>8 DEF SoundIMC
  <2>10. Shared(e.imc, e.xc)
    BY <1>1, <2>2, <2>5 DEF Shared
  <2> QED
    BY <1>1, <1>4, <1>5, <1>7, <2>2, <2>3, <2>5, <2>8, <2>9, <2>10 DEF Sound, e
<1>8. CASE n \in Slot \ Loadable
  <2>1. e = [s EXCEPT !.ok = FALSE]
    BY <1>8 DEF e, ChangeIM
  <2>2. /\ e \in Contexts /\ e.imc = s.imc /\ e.xc = s.xc /\ e.unpaired = s.unpaired
        /\ e.st = s.st /\ e.ok = FALSE
    BY <1>1, <2>1 DEF Contexts
  <2> QED
    BY <1>1, <1>8, <2>2 DEF Sound, e
<1> QED
  BY <1>4, <1>6, <1>7, <1>8

----------------------------------------------------------------------------
(* From contexts to states.                                                *)

\* Every IC has an IMC, that of id 1 in single mode; no id is the NULL pointer.
LEMMA Ids == ASSUME ConstantsOK
             PROVE  /\ 1 \in Id
                    /\ NoIC \notin Id
                    /\ \A i \in Id : ImcOf(i) \in Id
BY DEF ConstantsOK, Id, NoIC, ImcOf

\* Deleting ICs after the IMCs and the core record have their new values.
LEMMA Collected ==
    ASSUME ConstantsOK, NEW contexts \in [Id -> IMC], NEW xc \in XCcore,
           NEW D \in SUBSET Id, \A j \in Id : SoundIMC(contexts[j])
    PROVE  /\ Release(contexts, D) \in [Id -> IMC]
           /\ \A j \in Id : SoundIMC(Release(contexts, D)[j])
           /\ ~SingleIMC => \A j \in D : Release(contexts, D)[j].imodp = NoIM
           /\ \A j \in Id \ D : Release(contexts, D)[j] = contexts[j]
           /\ ~EndsUnpaired(contexts, D)
           /\ Forget(xc, D) \in XCcore
           /\ Forget(xc, D).ic = IF xc.ic \in D THEN NoIC ELSE xc.ic
           /\ Forget(xc, D).icp = IF xc.icp \in D THEN NoIC ELSE xc.icp
           /\ \A m \in IMC : Shared(m, xc) => Shared(m, Forget(xc, D))
<1>1. FreshIMC \in IMC /\ SoundIMC(FreshIMC) /\ FreshIMC.imodp = NoIM
  BY DEF FreshIMC, IMC, SoundIMC, ConstantsOK
<1>2. ~EndsUnpaired(contexts, D)
  BY DEF EndsUnpaired, Unended, SoundIMC
<1>3. /\ Forget(xc, D) \in XCcore
      /\ Forget(xc, D).ic = IF xc.ic \in D THEN NoIC ELSE xc.ic
      /\ Forget(xc, D).icp = IF xc.icp \in D THEN NoIC ELSE xc.icp
      /\ \A m \in IMC : Shared(m, xc) => Shared(m, Forget(xc, D))
  BY DEF Forget, XCcore, Shared
<1> QED
  BY <1>1, <1>2, <1>3 DEF Release

\* A request on IC i that leaves a final context keeps the invariant, whatever
\* the sweep deletes.
LEMMA HandledKeeps ==
    ASSUME ConstantsOK, IInv, NEW i \in Id, NEW c \in Client \cup {NoClient},
           NEW s, Final(s, i),
           NEW D \in SUBSET (ic_list \ {i}), Handled(i, c, s, D),
           icid' \in 0 .. MaxIC,
           ic_list \cup ic_free \cup {i} = 1 .. icid'
    PROVE  IInv'
<1> DEFINE imcs == [imc EXCEPT ![ImcOf(i)] = s.imc]
           ics  == [ic EXCEPT ![i] = [connect_id |-> c, ic_state |-> s.st]]
<1>1. TypeOK /\ IdsPartition /\ CurrentIsLive
  BY DEF IInv
<1>2. /\ s.imc \in IMC /\ s.st \in SUBSET ICState /\ s.xc \in XCcore
      /\ s.called \in BOOLEAN /\ s.unsent \in SUBSET Id /\ s.unpaired \in BOOLEAN
      /\ SoundIMC(s.imc)
  BY DEF Final, Sound, Contexts
<1>3. imcs \in [Id -> IMC] /\ imcs[ImcOf(i)] = s.imc
      /\ \A j \in Id : j # ImcOf(i) => imcs[j] = imc[j]
  BY <1>1, <1>2, Ids DEF TypeOK
<1>4. \A j \in Id : SoundIMC(imcs[j])
  BY <1>2, <1>3 DEF IInv
<1>5. ics \in [Id -> IC] /\ ics[i].ic_state = s.st
      /\ \A j \in Id : j # i => ics[j] = ic[j]
  BY <1>1, <1>2 DEF TypeOK, IC
<1>6. /\ ic_list' = (ic_list \cup {i}) \ D
      /\ ic_free' = (ic_free \ {i}) \cup D
      /\ ic' = [j \in Id |-> IF j \in D THEN FreedIC ELSE ics[j]]
      /\ imc' = Release(imcs, D)
      /\ xccore' = Forget(s.xc, D)
      /\ first_call' = s.called
      /\ unsent' = s.unsent
      /\ unpaired' = (s.unpaired \/ EndsUnpaired(imcs, D))
  BY DEF Handled
<1>7. D \in SUBSET Id
  BY <1>1 DEF TypeOK
<1> HIDE DEF imcs, ics
<1>8. /\ imc' \in [Id -> IMC]
      /\ \A j \in Id : SoundIMC(imc'[j])
      /\ ~SingleIMC => \A j \in D : imc'[j].imodp = NoIM
      /\ \A j \in Id \ D : imc'[j] = imcs[j]
      /\ unpaired' \in BOOLEAN /\ (unpaired' <=> s.unpaired)
      /\ xccore' \in XCcore
      /\ xccore'.ic = IF s.xc.ic \in D THEN NoIC ELSE s.xc.ic
      /\ xccore'.icp = IF s.xc.icp \in D THEN NoIC ELSE s.xc.icp
  BY <1>2, <1>3, <1>4, <1>6, <1>7, Collected
<1>9. TypeOK'
  <2>1. FreedIC \in IC
    BY DEF FreedIC, IC
  <2> QED
    BY <1>1, <1>2, <1>5, <1>6, <1>7, <1>8, <2>1 DEF TypeOK
<1>10. IdsPartition'
  BY <1>1, <1>6 DEF IdsPartition
<1>11. CurrentIsLive'
  BY <1>1, <1>6, <1>8 DEF CurrentIsLive, Final, Points
<1>12. ~SingleIMC => ~unpaired'
  BY <1>8 DEF Final, Sound
<1>13. ASSUME ~SingleIMC PROVE ConnectedIsActive'
  <2> SUFFICES ASSUME NEW j \in ic_list', "CONNECT" \in ic'[j].ic_state
               PROVE  Active(imc'[j])
    BY DEF ConnectedIsActive, Active
  <2>1. j \in Id \ D /\ j \in ic_list \cup {i} /\ ic'[j] = ics[j]
    BY <1>1, <1>6 DEF TypeOK
  <2>2. CASE j = i
    BY <1>3, <1>5, <1>8, <1>13, <2>1, <2>2 DEF Final, ImcOf
  <2>3. CASE j # i
    <3>1. imc'[j] = imc[j] /\ ic'[j] = ic[j] /\ j \in ic_list
      BY <1>3, <1>5, <1>8, <1>13, <2>1, <2>3 DEF ImcOf
    <3> QED
      BY <1>13, <3>1 DEF IInv, ConnectedIsActive, Active
  <2> QED
    BY <2>2, <2>3
<1>14. ASSUME ~SingleIMC, NEW j \in Id \ ic_list' PROVE imc'[j].imodp = NoIM
  <2>1. CASE j \in D
    BY <1>8, <1>14, <2>1
  <2>2. CASE j \notin D
    <3>1. j # i /\ j \notin ic_list
      BY <1>6, <1>14, <2>2
    <3>2. imc'[j] = imc[j]
      BY <1>3, <1>8, <1>14, <2>2, <3>1 DEF ImcOf
    <3> QED
      BY <1>14, <3>1, <3>2 DEF IInv
  <2> QED
    BY <2>1, <2>2
<1>15. Shared(imc[1], xccore)'
  <2>1. Shared(s.imc, s.xc)
    BY DEF Final, Sound
  <2>2. Shared(s.imc, xccore')
    BY <1>2, <1>6, <1>7, <2>1, <1>3, <1>4, Collected
  <2>3. SingleIMC => imc'[1] = s.imc
    BY <1>3, <1>6 DEF Release, ImcOf
  <2> QED
    BY <2>2, <2>3 DEF Shared
<1> QED
  BY <1>8, <1>9, <1>10, <1>11, <1>12, <1>13, <1>14, <1>15 DEF IInv, SoundIMC

\* Deletion by the client keeps the invariant.
LEMMA DeletedKeeps ==
    ASSUME ConstantsOK, IInv, NEW D \in SUBSET ic_list, Deleted(D)
    PROVE  IInv'
<1>1. TypeOK /\ IdsPartition /\ CurrentIsLive
  BY DEF IInv
<1>2. /\ D \in SUBSET Id
      /\ imc \in [Id -> IMC] /\ xccore \in XCcore /\ \A j \in Id : SoundIMC(imc[j])
  BY <1>1 DEF TypeOK, IInv
<1>3. /\ ic_list' = ic_list \ D
      /\ ic_free' = ic_free \cup D
      /\ ic' = [j \in Id |-> IF j \in D THEN FreedIC ELSE ic[j]]
      /\ imc' = Release(imc, D)
      /\ xccore' = Forget(xccore, D)
      /\ unpaired' = (unpaired \/ EndsUnpaired(imc, D))
      /\ icid' = icid /\ first_call' = first_call /\ unsent' = unsent
  BY DEF Deleted
<1>4. /\ imc' \in [Id -> IMC]
      /\ \A j \in Id : SoundIMC(imc'[j])
      /\ ~SingleIMC => \A j \in D : imc'[j].imodp = NoIM
      /\ \A j \in Id \ D : imc'[j] = imc[j]
      /\ unpaired' \in BOOLEAN /\ (unpaired' <=> unpaired)
      /\ xccore' \in XCcore
      /\ xccore'.ic = IF xccore.ic \in D THEN NoIC ELSE xccore.ic
      /\ xccore'.icp = IF xccore.icp \in D THEN NoIC ELSE xccore.icp
  <2>1. unpaired \in BOOLEAN
    BY <1>1 DEF TypeOK
  <2> QED
    BY <1>2, <1>3, <2>1, Collected
<1>5. TypeOK'
  <2>1. FreedIC \in IC
    BY DEF FreedIC, IC
  <2> QED
    BY <1>1, <1>2, <1>3, <1>4, <2>1 DEF TypeOK
<1>6. IdsPartition'
  BY <1>1, <1>3 DEF IdsPartition
<1>7. CurrentIsLive'
  BY <1>1, <1>3, <1>4 DEF CurrentIsLive
<1>8. ~SingleIMC => ~unpaired'
  BY <1>4 DEF IInv
<1>9. ASSUME ~SingleIMC PROVE ConnectedIsActive'
  BY <1>1, <1>3, <1>4, <1>9 DEF IInv, ConnectedIsActive, Active, TypeOK
<1>10. ASSUME ~SingleIMC, NEW j \in Id \ ic_list' PROVE imc'[j].imodp = NoIM
  BY <1>3, <1>4, <1>10 DEF IInv
<1>11. Shared(imc[1], xccore)'
  <2>1. SingleIMC => imc' = imc
    BY <1>3 DEF Release
  <2>2. Shared(imc[1], xccore')
    BY <1>2, <1>3, Collected, Ids DEF IInv
  <2> QED
    BY <2>1, <2>2 DEF Shared
<1> QED
  BY <1>4, <1>5, <1>6, <1>7, <1>8, <1>9, <1>10, <1>11 DEF IInv, SoundIMC

----------------------------------------------------------------------------
(* The contexts the requests start from, and the small steps they take.    *)

\* A request starts from a sound context: what the invariant says of the IC it
\* names and of that IC's IMC.
LEMMA ContextFinal ==
    ASSUME ConstantsOK, IInv, NEW i \in ic_list
    PROVE  i \in Id /\ Final(Context(i), i) /\ Context(i).ok
<1>1. i \in Id /\ TypeOK
  BY DEF IInv, TypeOK
<1>2. /\ imc[ImcOf(i)] \in IMC /\ SoundIMC(imc[ImcOf(i)])
      /\ ic[i].ic_state \in SUBSET ICState
      /\ Shared(imc[ImcOf(i)], xccore)
  BY <1>1, Ids DEF IInv, TypeOK, IC, Shared, ImcOf
<1>3. ~SingleIMC => ("CONNECT" \in ic[i].ic_state => Active(imc[ImcOf(i)]))
  BY DEF IInv, ConnectedIsActive, ImcOf
<1> QED
  BY <1>1, <1>2, <1>3
  DEF Context, Contexts, Final, Sound, Points, IInv, TypeOK

\* xim_disconnect() makes any sound context final.
LEMMA DisconnectFinal ==
    ASSUME NEW s, NEW i, Sound(s), Points(s, i)
    PROVE  Final(Disconnect(s), i)
BY DEF Disconnect, Final, Sound, Points, Contexts, ICState

\* xim_connect() keeps a context sound, and final once something is on.
LEMMA ConnectFinal ==
    ASSUME NEW s, NEW i, Sound(s), Points(s, i), Active(s.imc)
    PROVE  Final(Connect(s), i)
BY DEF Connect, Final, Sound, Points, Contexts, ICState, Active

\* A request that leaves a sound context of a live IC keeps the invariant.
LEMMA ServedKeeps ==
    ASSUME ConstantsOK, IInv, NEW i \in ic_list, NEW s, Final(s, i),
           Served(i, s)
    PROVE  IInv'
<1>1. /\ i \in Id /\ icid' = icid /\ icid' \in 0 .. MaxIC
      /\ ic[i].connect_id \in Client \cup {NoClient}
  BY DEF IInv, TypeOK, Served, IC
<1>2. PICK D \in SUBSET (ic_list \ {i}) : Handled(i, ic[i].connect_id, s, D)
  BY DEF Served
<1>3. ic_list \cup ic_free \cup {i} = 1 .. icid'
  BY <1>1 DEF IInv, IdsPartition
<1> QED
  BY <1>1, <1>2, <1>3, HandledKeeps

\* ic_set_values() keeps a context final.
LEMMA SetValuesFinal ==
    ASSUME ConstantsOK, NEW s, NEW i \in Id, Final(s, i), s.ok,
           NEW ps \in Preedit, NEW probe \in BOOLEAN
    PROVE  Final(SetValues(s, i, ps, probe), i)
<1> DEFINE t == SetPreedit(s, i, ps)
<1>1. Sound(s) /\ Points(s, i) /\ s.imc.inp_num \in Loadable
  BY DEF Final, Sound, Contexts, IMC
<1>2. Final(t, i)
  <2>1. CASE ps = "disable" /\ Active(s.imc)
    <3>1. t = Disconnect(ChangeIM(s, i, English))
      BY <2>1 DEF SetPreedit
    <3>2. Sound(ChangeIM(s, i, English)) /\ Points(ChangeIM(s, i, English), i)
      BY <1>1, ChangeIMSound DEF Points
    <3> QED
      BY <3>1, <3>2, DisconnectFinal
  <2>2. CASE ps = "enable" /\ ~Active(s.imc)
    <3> DEFINE turned == ChangeIM(s, i, s.imc.inp_num)
    <3>1. /\ Sound(turned) /\ Points(turned, i) /\ turned.ok
          /\ "CINPUT" \in turned.imc.inp_state
      BY <1>1, ChangeIMSound DEF Points, ConstantsOK
    <3>2. t = Connect(turned)
      BY <2>2, <3>1 DEF SetPreedit
    <3> HIDE DEF turned
    <3>3. Active(turned.imc)
      BY <3>1 DEF Active
    <3> QED
      BY <3>1, <3>2, <3>3, ConnectFinal
  <2>3. CASE /\ ~(ps = "disable" /\ Active(s.imc))
             /\ ~(ps = "enable" /\ ~Active(s.imc))
    BY <2>3 DEF SetPreedit
  <2> QED
    BY <2>1, <2>2, <2>3
<1> HIDE DEF t
<1> DEFINE u == [t EXCEPT !.xc.ic = i, !.xc.xcin_mode = @ \ {"RUN_INIT"}]
<1>3. SetValues(s, i, ps, probe) = IF probe THEN u ELSE t
  BY DEF SetValues, t
<1>4. t \in Contexts
  BY <1>2 DEF Final, Sound
<1>5. /\ u \in Contexts
      /\ u.imc = t.imc /\ u.st = t.st /\ (u.unpaired <=> t.unpaired)
      /\ u.xc.ic = i /\ u.xc.icp = t.xc.icp
      /\ u.xc.default_im = t.xc.default_im /\ u.xc.im_focus = t.xc.im_focus
      /\ u.xc.xcin_mode \subseteq t.xc.xcin_mode
      /\ FocusAgrees(t.xc.xcin_mode) => FocusAgrees(u.xc.xcin_mode)
  BY <1>4 DEF Contexts, XCcore, XcinMode, FocusAgrees
<1> HIDE DEF u
<1>6. Final(u, i)
  BY <1>2, <1>5 DEF Final, Sound, Points, Shared
<1> QED
  BY <1>2, <1>3, <1>6

\* ic_create() starts an IC from a final context.
LEMMA NewContextFinal ==
    ASSUME ConstantsOK, IInv, NEW i \in Id, i \notin ic_list
    PROVE  Final(NewContext(i), i) /\ NewContext(i).ok
<1> DEFINE num == IF "IM_FOCUS" \in xccore.xcin_mode THEN xccore.im_focus
                                                     ELSE xccore.default_im
           m   == [imc[ImcOf(i)] EXCEPT !.inp_num = num]
<1>1. /\ TypeOK
      /\ imc[ImcOf(i)] \in IMC /\ SoundIMC(imc[ImcOf(i)])
      /\ Shared(imc[1], xccore)
      /\ ~SingleIMC => imc[ImcOf(i)].imodp = NoIM
      /\ ~SingleIMC => ~unpaired
  BY Ids DEF IInv, TypeOK, ImcOf
<1>2. num \in Loadable
  BY <1>1 DEF TypeOK, XCcore
<1>3. SingleIMC => num = imc[ImcOf(i)].inp_num
  BY <1>1 DEF Shared, ImcOf
<1>4. SoundIMC(m)
  BY <1>1, <1>2, <1>3 DEF SoundIMC, IMC
<1>5. Shared(m, xccore)
  BY <1>1, <1>2, <1>3 DEF Shared, IMC, ImcOf
<1>6. NewContext(i) = [Context(i) EXCEPT !.st = {"NEWIC"}, !.imc = m]
  BY DEF NewContext, Context
<1>7. m \in IMC
  BY <1>1, <1>2 DEF IMC
<1> HIDE DEF m
<1>8. /\ NewContext(i) \in Contexts
      /\ NewContext(i).imc = m
      /\ NewContext(i).st = {"NEWIC"}
      /\ NewContext(i).xc = xccore
      /\ NewContext(i).ok
      /\ NewContext(i).unpaired <=> unpaired
  BY <1>1, <1>6, <1>7 DEF Context, Contexts, TypeOK, ICState
<1> QED
  BY <1>1, <1>4, <1>5, <1>8 DEF Final, Sound, Points

\* What a trigger handler starts from: connected, whatever is switched on.
LEMMA TriggeredSound ==
    ASSUME ConstantsOK, IInv, NEW i \in ic_list
    PROVE  /\ Sound(Triggered(i)) /\ Points(Triggered(i), i) /\ Triggered(i).ok
           /\ Triggered(i).imc = imc[ImcOf(i)]
<1>1. i \in Id /\ Final(Context(i), i) /\ Context(i).ok
  BY ContextFinal
<1> QED
  BY <1>1 DEF Triggered, Context, Contexts, Final, Sound, Points, XCcore, ICState,
              Shared, IInv, TypeOK

\* Switching the wide characters keeps a context sound; on, it is active.
LEMMA TwoBytesSound ==
    ASSUME NEW s, NEW i, Sound(s), Points(s, i), NEW on \in BOOLEAN
    PROVE  /\ Sound(TwoBytes(s, on)) /\ Points(TwoBytes(s, on), i)
           /\ on => Active(TwoBytes(s, on).imc)
<1> DEFINE t     == TwoBytes(s, on)
           flags == {"2BYTES", "2BFOCUS"}
<1>1. s \in Contexts
  BY DEF Sound
<1>2. /\ t \in Contexts
      /\ t.imc.inp_state = IF on THEN s.imc.inp_state \cup flags
                                 ELSE s.imc.inp_state \ flags
      /\ t.imc.inp_num = s.imc.inp_num /\ t.imc.imodp = s.imc.imodp
      /\ t.imc.iccf = s.imc.iccf
      /\ t.xc.ic = s.xc.ic /\ t.xc.icp = s.xc.icp
      /\ t.xc.default_im = s.xc.default_im /\ t.xc.im_focus = s.xc.im_focus
      /\ "IM_FOCUS" \in t.xc.xcin_mode => "IM_FOCUS" \in s.xc.xcin_mode
      /\ FocusAgrees(s.xc.xcin_mode) => FocusAgrees(t.xc.xcin_mode)
      /\ t.unpaired <=> s.unpaired
  BY <1>1 DEF TwoBytes, Contexts, IMC, InpState, XCcore, XcinMode, FocusAgrees
<1> HIDE DEF t
<1>3. SoundIMC(t.imc)
  BY <1>2 DEF Sound, SoundIMC
<1>4. Shared(t.imc, t.xc)
  BY <1>2 DEF Sound, Shared
<1>5. on => Active(t.imc)
  BY <1>2 DEF Active
<1>6. Sound(t) /\ Points(t, i)
  BY <1>2, <1>3, <1>4 DEF Sound, Points
<1> QED
  BY <1>5, <1>6 DEF t

\* A function key leaves a final context, since it disconnects when nothing is on.
LEMMA FuncKeyKeeps ==
    ASSUME ConstantsOK, IInv, NEW i \in ic_list, NEW s, Sound(s), Points(s, i),
           FuncKey(i, s)
    PROVE  IInv'
<1> DEFINE t == [s EXCEPT !.unsent = {}]
<1>1. Sound(t) /\ Points(t, i) /\ t.imc = s.imc
  BY DEF Sound, Points, Contexts
<1>2. Served(i, DisconnectIf(~Active(s.imc), t))
  BY DEF FuncKey
<1> HIDE DEF t
<1>3. Final(DisconnectIf(~Active(s.imc), t), i)
  BY <1>1, DisconnectFinal DEF DisconnectIf, Final
<1> QED
  BY <1>2, <1>3, ServedKeeps

\* The focus flags follow the mode flags, and the IC becomes the current one.
LEMMA FocusInFinal ==
    ASSUME NEW s, NEW i \in Id, Final(s, i), s.ok
    PROVE  Final(FocusIn(s, i), i) /\ FocusIn(s, i).ok
<1> DEFINE t == FocusIn(s, i)
           shown == FocusFlags(s.imc)
<1>1. s \in Contexts
  BY DEF Final, Sound
<1>2. /\ t \in Contexts
      /\ t.imc.inp_state = s.imc.inp_state \cup shown
      /\ t.imc.inp_num = s.imc.inp_num /\ t.imc.imodp = s.imc.imodp
      /\ t.imc.iccf = s.imc.iccf
      /\ t.st = s.st \cup {"FOCUS"}
      /\ t.xc = [s.xc EXCEPT !.ic = i]
      /\ t.unpaired <=> s.unpaired
      /\ t.ok = s.ok
  BY <1>1 DEF FocusIn, FocusFlags, Contexts, IMC, InpState, ICState, XCcore
<1>3. /\ t.xc.ic = i /\ t.xc.icp = s.xc.icp
      /\ t.xc.default_im = s.xc.default_im /\ t.xc.im_focus = s.xc.im_focus
      /\ t.xc.xcin_mode = s.xc.xcin_mode
  BY <1>1, <1>2 DEF Contexts, XCcore
<1> HIDE DEF t
<1>4. SoundIMC(t.imc)
  BY <1>2 DEF FocusFlags, Final, Sound, SoundIMC
<1>5. Shared(t.imc, t.xc)
  BY <1>2, <1>3 DEF Final, Sound, Shared
<1>6. Sound(t) /\ Points(t, i)
  BY <1>2, <1>3, <1>4, <1>5 DEF Final, Sound, Points
<1>7. ~SingleIMC => ("CONNECT" \in t.st => Active(t.imc))
  BY <1>2 DEF Final, Active
<1> QED
  BY <1>2, <1>6, <1>7 DEF Final, t

\* A new IC that inherits an input method or wide characters has it on when it
\* is told to connect.
LEMMA InheritFinal ==
    ASSUME ConstantsOK, NEW s, NEW i \in Id, Final(s, i), s.ok
    PROVE  Final(Inherit(s, i), i)
<1> DEFINE mode == s.xc.xcin_mode
           im   == IF "RUN_IM_FOCUS" \in mode THEN ChangeIM(s, i, s.xc.im_focus)
                                              ELSE s
           sb   == IF "RUN_2B_FOCUS" \in mode
                     THEN [im EXCEPT !.imc.inp_state = @ \cup {"2BYTES", "2BFOCUS"}]
                     ELSE im
<1>1. Sound(s) /\ Points(s, i) /\ s.xc.im_focus \in Loadable
  BY DEF Final, Sound, Contexts, XCcore
<1>2. /\ Sound(im) /\ Points(im, i)
      /\ "RUN_IM_FOCUS" \in mode => "CINPUT" \in im.imc.inp_state
  BY <1>1, ChangeIMSound DEF Points, ConstantsOK
<1>3. Inherit(s, i) = IF mode \cap {"RUN_IM_FOCUS", "RUN_2B_FOCUS"} # {}
                        THEN Connect(sb) ELSE s
  BY DEF Inherit
<1> HIDE DEF im
<1> DEFINE wide == [im EXCEPT !.imc.inp_state = @ \cup {"2BYTES", "2BFOCUS"}]
<1>4. /\ wide \in Contexts
      /\ wide.imc.inp_state = im.imc.inp_state \cup {"2BYTES", "2BFOCUS"}
      /\ wide.imc.inp_num = im.imc.inp_num /\ wide.imc.imodp = im.imc.imodp
      /\ wide.imc.iccf = im.imc.iccf
      /\ wide.xc = im.xc
      /\ wide.unpaired <=> im.unpaired
  BY <1>2 DEF Sound, Contexts, IMC, InpState
<1>5. sb = IF "RUN_2B_FOCUS" \in mode THEN wide ELSE im
  OBVIOUS
<1> HIDE DEF wide, sb
<1>6. SoundIMC(wide.imc) /\ Shared(wide.imc, wide.xc)
  BY <1>2, <1>4 DEF Sound, SoundIMC, Shared
<1>7. Sound(wide) /\ Points(wide, i) /\ Active(wide.imc)
  BY <1>2, <1>4, <1>6 DEF Sound, Points, Active
<1>8. CASE "RUN_2B_FOCUS" \in mode
  BY <1>3, <1>5, <1>7, <1>8, ConnectFinal
<1>9. CASE "RUN_2B_FOCUS" \notin mode /\ "RUN_IM_FOCUS" \in mode
  <2>1. Active(im.imc)
    BY <1>2, <1>9 DEF Active
  <2> QED
    BY <1>2, <1>3, <1>5, <1>9, <2>1, ConnectFinal
<1>10. CASE "RUN_2B_FOCUS" \notin mode /\ "RUN_IM_FOCUS" \notin mode
  BY <1>3, <1>10
<1> QED
  BY <1>8, <1>9, <1>10

----------------------------------------------------------------------------
(* One lemma per action, or group of actions, that is more than a line.    *)

\* xim_set_focus_handler() keeps the invariant, whether the IC is new or not.
LEMMA SetFocusKeeps ==
    ASSUME ConstantsOK, IInv, NEW i \in ic_list,
           SetFocus(i)
    PROVE  IInv'
<1> DEFINE in  == FocusIn(Context(i), i)
           new == IF "NEWIC" \in in.st
                    THEN [Inherit(in, i) EXCEPT !.st = @ \ {"NEWIC"}]
                    ELSE in
           one == IF Active(new.imc) THEN Connect(new) ELSE Disconnect(new)
<1>1. i \in Id /\ Final(Context(i), i) /\ Context(i).ok
  BY ContextFinal
<1>2. Final(in, i) /\ in.ok
  BY <1>1, FocusInFinal
<1>3. Final(Inherit(in, i), i)
  BY <1>1, <1>2, InheritFinal
<1>4. Served(i, IF SingleIMC THEN one ELSE new)
  BY DEF SetFocus
<1> HIDE DEF in
<1> DEFINE aged == [Inherit(in, i) EXCEPT !.st = @ \ {"NEWIC"}]
<1>5. Final(aged, i)
  BY <1>3 DEF Final, Sound, Points, Contexts, ICState, Active
<1>6. Final(new, i)
  BY <1>2, <1>5
<1> HIDE DEF new
<1>7. Final(one, i)
  BY <1>6, ConnectFinal, DisconnectFinal DEF Final
<1> HIDE DEF one
<1> QED
  BY <1>4, <1>6, <1>7, ServedKeeps

\* xim_unset_focus_handler() keeps the invariant: it clears focus flags only.
LEMMA UnsetFocusKeeps ==
    ASSUME ConstantsOK, IInv, NEW i \in ic_list,
           UnsetFocus(i)
    PROVE  IInv'
<1> DEFINE s == Context(i)
           hidden == IF SingleIMC THEN {} ELSE FocusFlags(s.imc)
           t == [s EXCEPT !.imc.inp_state = @ \ hidden,
                          !.st = @ \ {"FOCUS"},
                          !.xc.icp = i]
<1>1. i \in Id /\ Final(s, i) /\ s \in Contexts
  BY ContextFinal DEF Final, Sound
<1>2. Served(i, t)
  BY DEF UnsetFocus
<1>3. hidden \subseteq {"XIMFOCUS", "2BFOCUS"}
  BY DEF FocusFlags
<1> HIDE DEF s, hidden
<1>4. /\ t \in Contexts
      /\ t.imc.inp_state = s.imc.inp_state \ hidden
      /\ t.imc.inp_num = s.imc.inp_num /\ t.imc.imodp = s.imc.imodp
      /\ t.imc.iccf = s.imc.iccf
      /\ t.st = s.st \ {"FOCUS"}
      /\ t.xc.ic = s.xc.ic /\ t.xc.icp = i
      /\ t.xc.default_im = s.xc.default_im /\ t.xc.im_focus = s.xc.im_focus
      /\ t.xc.xcin_mode = s.xc.xcin_mode
      /\ t.unpaired <=> s.unpaired
  BY <1>1 DEF Contexts, IMC, InpState, ICState, XCcore
<1> HIDE DEF t
<1>5. SoundIMC(t.imc) /\ Shared(t.imc, t.xc)
  BY <1>1, <1>4, <1>3 DEF Final, Sound, SoundIMC, Shared
<1>6. Sound(t) /\ Points(t, i)
  BY <1>1, <1>4, <1>5 DEF Final, Sound, Points
<1>7. ~SingleIMC => ("CONNECT" \in t.st => Active(t.imc))
  BY <1>1, <1>4, <1>3 DEF Final, Active
<1>8. Final(t, i)
  BY <1>6, <1>7 DEF Final
<1> QED
  BY <1>2, <1>8, ServedKeeps

\* The triggers that call change_IM() on a slot with a key, or on the selected.
LEMMA TriggerChangeKeeps ==
    ASSUME ConstantsOK, IInv, NEW i \in ic_list, NEW n \in Slot,
                      LET s == ChangeIM(Triggered(i), i, n)
           IN  Served(i, DisconnectIf(~s.ok, s))
    PROVE  IInv'
<1> DEFINE s == ChangeIM(Triggered(i), i, n)
<1>1. /\ Sound(s) /\ Points(s, i)
      /\ s.ok => "CINPUT" \in s.imc.inp_state
  <2>1. i \in Id
    BY DEF IInv, TypeOK
  <2>2. Sound(Triggered(i)) /\ Points(Triggered(i), i) /\ Triggered(i).ok
    BY TriggeredSound
  <2> QED
    BY <2>1, <2>2, ChangeIMSound DEF Points
<1> HIDE DEF s
<1>2. Final(DisconnectIf(~s.ok, s), i)
  <2>1. CASE s.ok
    BY <1>1, <2>1 DEF DisconnectIf, Final, Active
  <2>2. CASE ~s.ok
    BY <1>1, <2>2, DisconnectFinal DEF DisconnectIf
  <2> QED
    BY <2>1, <2>2
<1> QED
  BY <1>2, ServedKeeps DEF s

\* The two circular triggers: the client is let go when they end in English.
LEMMA TriggerCircularKeeps ==
    ASSUME ConstantsOK, IInv, NEW i \in ic_list, NEW dir,
           TriggerCircular(i, dir)
    PROVE  IInv'
<1> DEFINE s == ChangeIM(Triggered(i), i, CircularTarget(imc[ImcOf(i)], dir))
<1>1. Sound(s) /\ Points(s, i)
  <2>1. i \in Id
    BY DEF IInv, TypeOK
  <2>2. Sound(Triggered(i)) /\ Points(Triggered(i), i) /\ Triggered(i).ok
    BY TriggeredSound
  <2> QED
    BY <2>1, <2>2, ChangeIMSound DEF Points
<1>2. Served(i, DisconnectIf("CINPUT" \notin s.imc.inp_state, s))
  BY DEF TriggerCircular
<1> HIDE DEF s
<1>3. Final(DisconnectIf("CINPUT" \notin s.imc.inp_state, s), i)
  BY <1>1, DisconnectFinal DEF DisconnectIf, Final, Active
<1> QED
  BY <1>2, <1>3, ServedKeeps

\* The phrase trigger lets the client go, whatever is on.
LEMMA TriggerQphraseKeeps ==
    ASSUME ConstantsOK, IInv, NEW i \in ic_list, NEW found \in BOOLEAN,
           TriggerQphrase(i, found)
    PROVE  IInv'
<1> DEFINE s == Disconnect(Triggered(i))
           t == [s EXCEPT !.unsent = {}]
<1>1. Final(s, i)
  BY TriggeredSound, DisconnectFinal
<1>2. Served(i, IF found THEN t ELSE s)
  BY DEF TriggerQphrase
<1> HIDE DEF s
<1>3. Final(t, i)
  BY <1>1 DEF Final, Sound, Points, Contexts, Active
<1> HIDE DEF t
<1> QED
  BY <1>1, <1>2, <1>3, ServedKeeps

\* Every function key that calls change_IM().
LEMMA ForwardChangeKeeps ==
    ASSUME ConstantsOK, IInv, NEW i \in ic_list, NEW n,
                      FuncKey(i, ChangeIM(Context(i), i, n))
    PROVE  IInv'
<1>1. i \in Id /\ Final(Context(i), i) /\ Context(i).ok
  BY ContextFinal
<1>2. /\ Sound(ChangeIM(Context(i), i, n))
      /\ Points(ChangeIM(Context(i), i, n), i)
  BY <1>1, ChangeIMSound DEF Final, Points
<1> QED
  BY <1>2, FuncKeyKeeps

\* FKEY_IMFOCUS: switching XCIN_IM_FOCUS on makes im_focus the selected module.
LEMMA ForwardImfocusKeeps ==
    ASSUME ConstantsOK, IInv, NEW i \in ic_list,
           ForwardImfocus(i)
    PROVE  IInv'
<1> DEFINE s == Context(i)
           run == IF "CINPUT" \in s.imc.inp_state THEN "RUN_IM_FOCUS"
                                                  ELSE "RUN_2B_FOCUS"
           off == [s EXCEPT !.xc.xcin_mode = OutOfFocusMode(@)]
           on  == [s EXCEPT !.xc.xcin_mode = @ \cup {"IM_FOCUS", run},
                            !.xc.im_focus = s.imc.inp_num]
<1>1. i \in Id /\ Sound(s) /\ Points(s, i) /\ s \in Contexts
  BY ContextFinal DEF Final, Sound
<1>2. FuncKey(i, IF "IM_FOCUS" \in s.xc.xcin_mode THEN off ELSE on)
  BY DEF ForwardImfocus
<1> HIDE DEF s
<1>3. /\ off \in Contexts /\ off.imc = s.imc /\ (off.unpaired <=> s.unpaired)
      /\ off.xc.ic = s.xc.ic /\ off.xc.icp = s.xc.icp
      /\ off.xc.default_im = s.xc.default_im
      /\ "IM_FOCUS" \notin off.xc.xcin_mode
      /\ FocusAgrees(off.xc.xcin_mode)
  BY <1>1 DEF Contexts, XCcore, XcinMode, OutOfFocusMode, FocusAgrees
<1>4. /\ on \in Contexts /\ on.imc = s.imc /\ (on.unpaired <=> s.unpaired)
      /\ on.xc.ic = s.xc.ic /\ on.xc.icp = s.xc.icp
      /\ on.xc.default_im = s.xc.default_im
      /\ on.xc.im_focus = s.imc.inp_num
      /\ FocusAgrees(on.xc.xcin_mode)
  BY <1>1 DEF Contexts, XCcore, XcinMode, IMC, FocusAgrees
<1> HIDE DEF off, on
<1>5. Shared(off.imc, off.xc) /\ Shared(on.imc, on.xc)
  BY <1>1, <1>3, <1>4 DEF Sound, Shared
<1>6. Sound(off) /\ Points(off, i) /\ Sound(on) /\ Points(on, i)
  BY <1>1, <1>3, <1>4, <1>5 DEF Sound, Points
<1> QED
  BY <1>2, <1>6, FuncKeyKeeps

\* A key that goes to the module touches the composed text only.
LEMMA ForwardKeyKeeps ==
    ASSUME ConstantsOK, IInv, NEW i \in ic_list, NEW composing \in BOOLEAN,
           ForwardKey(i, composing)
    PROVE  IInv'
<1> DEFINE s == Context(i)
           typed == "CINPUT" \in s.imc.inp_state /\ s.imc.imodp \in PhraseIM
           t == [s EXCEPT !.imc.n_lcch = IF typed THEN composing ELSE @,
                          !.unsent = {}]
<1>1. i \in Id /\ Final(s, i) /\ s \in Contexts
  BY ContextFinal DEF Final, Sound
<1>2. Served(i, t)
  BY DEF ForwardKey
<1> HIDE DEF s
<1>3. /\ t \in Contexts
      /\ t.imc.inp_state = s.imc.inp_state
      /\ t.imc.inp_num = s.imc.inp_num /\ t.imc.imodp = s.imc.imodp
      /\ t.imc.iccf = s.imc.iccf
      /\ t.st = s.st /\ t.xc = s.xc /\ (t.unpaired <=> s.unpaired)
  BY <1>1 DEF Contexts, IMC
<1> HIDE DEF t
<1>4. SoundIMC(t.imc) /\ Shared(t.imc, t.xc)
  BY <1>1, <1>3 DEF Final, Sound, SoundIMC, Shared
<1>5. Final(t, i)
  BY <1>1, <1>3, <1>4 DEF Final, Sound, Points, Active
<1> QED
  BY <1>2, <1>5, ServedKeeps

\* ic_create() keeps the invariant, with a new id and with a reused one.
LEMMA CreateICKeeps ==
    ASSUME ConstantsOK, IInv, NEW c \in Client, NEW i \in NewIds,
           NEW ps \in Preedit, NEW probe \in Probes,
           CreateIC(c, i, ps, probe)
    PROVE  IInv'
<1>1. TypeOK /\ IdsPartition
  BY DEF IInv
<1>2. i \in Id /\ i \notin ic_list
  BY <1>1 DEF NewIds, TypeOK, IdsPartition
<1>3. icid' = IF i > icid THEN i ELSE icid
  BY DEF CreateIC
<1>4. /\ icid' \in 0 .. MaxIC
      /\ ic_list \cup ic_free \cup {i} = 1 .. icid'
  <2>1. CASE ic_free # {}
    <3>1. i \in ic_free /\ i \in 1 .. icid
      BY <1>1, <2>1 DEF NewIds, IdsPartition
    <3> QED
      BY <1>1, <1>3, <3>1 DEF TypeOK, IdsPartition
  <2>2. CASE ic_free = {}
    <3>1. i = icid + 1 /\ i \in 1 .. MaxIC /\ icid \in 0 .. MaxIC
      BY <1>1, <1>2, <2>2 DEF NewIds, TypeOK, Id
    <3>2. icid' = icid + 1
      BY <1>3, <3>1
    <3>3. ic_list = 1 .. icid
      BY <1>1, <2>2 DEF IdsPartition
    <3>4. (1 .. icid) \cup {icid + 1} = 1 .. (icid + 1)
      BY <3>1
    <3> QED
      BY <2>2, <3>1, <3>2, <3>3, <3>4, ConstantsOK DEF ConstantsOK
  <2> QED
    BY <2>1, <2>2
<1>5. probe \in BOOLEAN
  BY DEF Probes
<1>6. Final(NewContext(i), i) /\ NewContext(i).ok
  BY <1>2, NewContextFinal
<1>7. Final(SetValues(NewContext(i), i, ps, probe), i)
  BY <1>2, <1>5, <1>6, SetValuesFinal
<1>8. PICK D \in SUBSET (ic_list \ {i}) :
        Handled(i, c, SetValues(NewContext(i), i, ps, probe), D)
  BY <1>2 DEF CreateIC
<1> QED
  BY <1>2, <1>4, <1>7, <1>8, HandledKeeps

----------------------------------------------------------------------------
(* The invariant.                                                          *)

\* The server starts in the inductive invariant.
LEMMA InitIInv == ASSUME ConstantsOK, Init PROVE IInv
<1>1. TypeOK
  <2>1. DefaultIM \in Loadable /\ MaxIC \in Nat
    BY DEF ConstantsOK
  <2>2. FreedIC \in IC /\ FreshIMC \in IMC
    BY <2>1 DEF FreedIC, FreshIMC, IC, IMC
  <2>3. xccore \in XCcore
    BY <2>1 DEF Init, XCcore, XcinMode
  <2>4. ic \in [Id -> IC] /\ imc \in [Id -> IMC]
    BY <2>2 DEF Init
  <2>5. icid \in 0 .. MaxIC /\ ic_list \in SUBSET Id /\ ic_free \in SUBSET Id
    BY <2>1 DEF Init
  <2>6. first_call \in BOOLEAN /\ unsent \in SUBSET Id /\ unpaired \in BOOLEAN
    BY DEF Init
  <2> QED
    BY <2>3, <2>4, <2>5, <2>6 DEF TypeOK
<1>2. \A i \in Id : SoundIMC(imc[i])
  BY DEF Init, SoundIMC, FreshIMC
<1>3. Shared(imc[1], xccore)
  <2>1. FocusAgrees(xccore.xcin_mode)
    BY DEF Init, FocusAgrees
  <2> QED
    BY <2>1, Ids DEF Init, Shared, FreshIMC
<1>4. IdsPartition /\ CurrentIsLive /\ ConnectedIsActive /\ ~unpaired
  BY DEF Init, IdsPartition, CurrentIsLive, ConnectedIsActive
<1>5. \A i \in Id : imc[i].imodp = NoIM
  BY DEF Init, FreshIMC
<1> QED
  BY <1>1, <1>2, <1>3, <1>4, <1>5 DEF IInv

\* A request on an IC in use keeps the invariant, whatever the sweep deletes.
LEMMA RequestKeeps ==
    ASSUME ConstantsOK, IInv, NEW i \in ic_list,
           Request(i)
    PROVE  IInv'
<1>1. i \in Id /\ Final(Context(i), i) /\ Context(i).ok
  BY ContextFinal
<1>2. imc[ImcOf(i)].inp_num \in Slot /\ Registered \subseteq Slot
  BY <1>1, Ids DEF IInv, TypeOK, IMC, ConstantsOK
<1>3. ASSUME NEW ps \in Preedit, NEW probe \in Probes, SetICValues(i, ps, probe)
      PROVE  IInv'
  <2>1. Final(SetValues(Context(i), i, ps, probe), i)
    BY <1>1, SetValuesFinal DEF Probes
  <2> QED
    BY <1>3, <2>1, ServedKeeps DEF SetICValues
<1>4. CASE OtherRequest(i)
  BY <1>1, <1>4, ServedKeeps DEF OtherRequest
<1>5. CASE SetFocus(i)
  BY <1>5, SetFocusKeeps
<1>6. CASE UnsetFocus(i)
  BY <1>6, UnsetFocusKeeps
<1>7. CASE TriggerZhen(i)
  BY <1>2, <1>7, TriggerChangeKeeps DEF TriggerZhen
<1>8. CASE Trigger2bsb(i)
  <2>1. Final(TwoBytes(Triggered(i), TRUE), i)
    BY TriggeredSound, TwoBytesSound DEF Final
  <2> QED
    BY <1>8, <2>1, ServedKeeps DEF Trigger2bsb
<1>9. ASSUME NEW dir \in {1, -1}, TriggerCircular(i, dir) PROVE IInv'
  BY <1>9, TriggerCircularKeeps
<1>10. ASSUME NEW n \in Registered, TriggerImn(i, n) PROVE IInv'
  BY <1>2, <1>10, TriggerChangeKeeps DEF TriggerImn
<1>11. ASSUME NEW found \in BOOLEAN, TriggerQphrase(i, found) PROVE IInv'
  BY <1>11, TriggerQphraseKeeps
<1>12. CASE ForwardZhen(i)
  BY <1>12, ForwardChangeKeeps DEF ForwardZhen
<1>13. CASE Forward2bsb(i)
  <2> DEFINE t == TwoBytes(Context(i), "2BYTES" \notin imc[ImcOf(i)].inp_state)
  <2>1. Sound(t) /\ Points(t, i)
    BY <1>1, TwoBytesSound DEF Final
  <2> QED
    BY <1>13, <2>1, FuncKeyKeeps DEF Forward2bsb
<1>14. ASSUME NEW dir \in {1, -1}, ForwardCircular(i, dir) PROVE IInv'
  BY <1>14, ForwardChangeKeeps DEF ForwardCircular
<1>15. ASSUME NEW n \in Registered, ForwardImn(i, n) PROVE IInv'
  BY <1>15, ForwardChangeKeeps DEF ForwardImn
<1>16. CASE ForwardOther(i)
  BY <1>1, <1>16, FuncKeyKeeps DEF ForwardOther, Final
<1>17. CASE ForwardImfocus(i)
  BY <1>17, ForwardImfocusKeeps
<1>18. ASSUME NEW composing \in BOOLEAN, ForwardKey(i, composing) PROVE IInv'
  BY <1>18, ForwardKeyKeeps
<1> QED
  BY <1>3, <1>4, <1>5, <1>6, <1>7, <1>8, <1>9, <1>10, <1>11, <1>12, <1>13,
     <1>14, <1>15, <1>16, <1>17, <1>18 DEF Request

\* Every request, and a step that is none, keeps the inductive invariant.
LEMMA NextIInv == ASSUME ConstantsOK, IInv, [Next]_vars PROVE IInv'
<1>1. ASSUME NEW c \in Client, NEW i \in NewIds, NEW ps \in Preedit,
             NEW probe \in Probes,
             CreateIC(c, i, ps, probe)
      PROVE  IInv'
  BY <1>1, CreateICKeeps
<1>2. ASSUME NEW i \in ic_list, DestroyIC(i) PROVE IInv'
  BY <1>2, DeletedKeeps DEF DestroyIC
<1>3. ASSUME NEW c \in Client, CloseClient(c) PROVE IInv'
  BY <1>3, DeletedKeeps DEF CloseClient
<1>4. ASSUME NEW i \in ic_list, Request(i)
      PROVE  IInv'
  BY <1>4, RequestKeeps
<1>5. CASE UNCHANGED vars
  BY <1>5 DEF vars, IInv, TypeOK, IdsPartition, CurrentIsLive, SoundIMC, Shared,
              ConnectedIsActive, Active
<1> QED
  BY <1>1, <1>2, <1>3, <1>4, <1>5 DEF Next

\* The inductive invariant holds throughout, for any number of clients, ICs and
\* modules and in both IMC modes.
THEOREM Invariance == Spec => []IInv
<1>1. Init => IInv
  BY ConstantsOK, InitIInv
<1>2. IInv /\ [Next]_vars => IInv'
  BY ConstantsOK, NextIInv
<1> QED
  BY <1>1, <1>2, PTL DEF Spec

----------------------------------------------------------------------------
(* Theorems.                                                               *)

\* Every variable keeps its type, in both IMC modes.
THEOREM TypeCorrect == Spec => []TypeOK
BY Invariance, PTL DEF IInv

\* No id is in use twice and none is lost: new_IC() and delete_IC() share out
\* the ids given so far between ic_list and ic_free.
THEOREM IdsNeverShared == Spec => []IdsPartition
BY Invariance, PTL DEF IInv

\* xccore->ic and xccore->icp never dangle: delete_IC() clears them whichever
\* way the IC went.
THEOREM CurrentNeverDangles == Spec => []CurrentIsLive
BY Invariance, PTL DEF IInv

\* IM_CINPUT is set exactly when a module is bound, which is the selected one,
\* and the focus flags imply the mode flags, in both IMC modes.
THEOREM SelectionAlwaysCoherent == Spec => []SelectionCoherent
<1>1. IInv => SelectionCoherent
  BY Ids, ConstantsOK DEF IInv, TypeOK, SelectionCoherent, SoundIMC
<1> QED
  BY <1>1, Invariance, PTL

\* In single mode the one IMC always has the module selected that the core
\* record names, which is why ic_create() may write inp_num under the others.
THEOREM SelectionShared ==
    ASSUME SingleIMC PROVE Spec => []SharedSelection
<1>1. IInv => SharedSelection
  BY DEF IInv, Shared, SharedSelection
<1> QED
  BY <1>1, Invariance, PTL

\* The modes that new ICs inherit never outlive XCIN_IM_FOCUS, whatever keys,
\* focus changes and deletions come between.
THEOREM FocusModesAgree == Spec => []FocusModes
<1>1. IInv => FocusModes
  BY DEF IInv, Shared, FocusAgrees, FocusModes
<1> QED
  BY <1>1, Invariance, PTL

\* In multi mode every xim_init() is matched by an xim_end(): an IC holds the
\* data of the module that is bound, a deleted one holds none, none is dropped.
THEOREM ContextAlwaysBalanced ==
    ASSUME ~SingleIMC PROVE Spec => []ContextBalance
<1>1. IInv => ContextBalance
  BY DEF IInv, SoundIMC, ContextBalance
<1> QED
  BY <1>1, Invariance, PTL

\* In multi mode a client told to start preediting has an input method or the
\* wide characters switched on.
THEOREM ConnectedAlwaysActive ==
    ASSUME ~SingleIMC PROVE Spec => []ConnectedIsActive
<1>1. IInv => ConnectedIsActive
  BY DEF IInv
<1> QED
  BY <1>1, Invariance, PTL

\* In multi mode the IMC system implements the session discipline of ImSession:
\* a request leaves its own IC with the data of the module it types through, set
\* up and ended in turns, touches no other, and deletion ends sessions.
THEOREM SessionRefined ==
    ASSUME ~SingleIMC PROVE Spec => SessionSpec
<1> DEFINE module == [i \in Id |-> imc[i].imodp]
           held   == [i \in Id |-> imc[i].iccf]
<1>1. Init => Session!Init
  BY DEF Init, FreshIMC, Session!Init
<1>2. ASSUME IInv, IInv', [Next]_vars
      PROVE  [Session!Next]_<<ic_list, module, held, unpaired>>
  <2>1. /\ module' \in [Id -> Loadable \cup {NoIM}]
        /\ held' \in [Id -> Loadable \cup {NoIM}]
        /\ \A j \in Id : held'[j] = module'[j]
        /\ \A j \in Id \ ic_list' : held'[j] = NoIM
        /\ ic_list \in SUBSET Id
        /\ unpaired' = unpaired
    BY <1>2 DEF IInv, TypeOK, IMC, SoundIMC
  <2>2. ASSUME NEW i \in Id, NEW c, NEW s, NEW D \in SUBSET (ic_list \ {i}),
               Handled(i, c, s, D)
        PROVE  Session!Next
    <3>1. ic_list' = (ic_list \cup {i}) \ D
      BY <2>2 DEF Handled
    <3>2. \A j \in Id \ (D \cup {i}) : imc'[j] = imc[j]
      BY <1>2, <2>2 DEF Handled, Release, ImcOf, IInv, TypeOK
    <3>3. \A j \in Id \ {i} :
            /\ module'[j] = IF j \in ic_list' THEN module[j] ELSE NoIM
            /\ held'[j] = IF j \in ic_list' THEN held[j] ELSE NoIM
      BY <2>1, <3>1, <3>2
    <3> QED
      BY <2>1, <3>1, <3>3 DEF Session!Next, Session!Serve, Session!Rest
  <2>3. ASSUME NEW D \in SUBSET ic_list, Deleted(D) PROVE Session!Next
    <3>1. ic_list' = ic_list \ D
      BY <2>3 DEF Deleted
    <3>2. \A j \in Id \ D : imc'[j] = imc[j]
      BY <1>2, <2>3 DEF Deleted, Release
    <3>3. \A j \in Id :
            /\ module'[j] = IF j \in ic_list' THEN module[j] ELSE NoIM
            /\ held'[j] = IF j \in ic_list' THEN held[j] ELSE NoIM
      BY <2>1, <3>1, <3>2
    <3> QED
      BY <2>1, <3>1, <3>3 DEF Session!Next, Session!Close, Session!Rest
  <2>4. ASSUME NEW c \in Client, NEW i \in NewIds, NEW ps \in Preedit,
               NEW probe \in Probes, CreateIC(c, i, ps, probe)
        PROVE  Session!Next
    <3>1. i \in Id /\ i \notin ic_list
      BY <1>2 DEF NewIds, IInv, TypeOK, IdsPartition
    <3> QED
      BY <2>2, <2>4, <3>1 DEF CreateIC
  <2>5. ASSUME NEW i \in ic_list, NEW s, Served(i, s) PROVE Session!Next
    BY <2>1, <2>2, <2>5 DEF Served
  <2>6. ASSUME NEW i \in ic_list, Request(i) PROVE Session!Next
    BY <2>5, <2>6
    DEF Request, SetICValues, OtherRequest, SetFocus, UnsetFocus, TriggerZhen,
        Trigger2bsb, TriggerCircular, TriggerImn, TriggerQphrase, FuncKey,
        ForwardZhen, Forward2bsb, ForwardCircular, ForwardImn, ForwardOther,
        ForwardImfocus, ForwardKey
  <2>7. CASE UNCHANGED vars
    BY <2>7 DEF vars
  <2> QED
    BY <1>2, <2>3, <2>4, <2>6, <2>7 DEF Next, DestroyIC, CloseClient
<1> QED
  BY <1>1, <1>2, Invariance, PTL DEF Spec, SessionSpec, Session!Spec, Session!vars
----------------------------------------------------------------------------
(* Sessions in single mode: what a request makes of inpinfo.iccf of the one *)
(* IMC.  Each handler calls change_IM() once at most, and nothing else moves *)
(* the data, so that it is enough to look at that call.                     *)

\* From context s to t the data stays with the selected module, if change_IM()
\* was called before.
Keeps(s, t) == s.called /\ t.imc.inp_num = s.imc.inp_num => t.imc.iccf = s.imc.iccf

\* Nothing of the session moved.
Alike(s, t) == t.imc.inp_num = s.imc.inp_num /\ t.imc.iccf = s.imc.iccf

\* change_IM() resets inpinfo only when it selects another module.
LEMMA ChangeIMSession ==
    ASSUME ConstantsOK, SingleIMC, NEW s, Sound(s), NEW i \in Id, NEW n
    PROVE  Keeps(s, ChangeIM(s, i, n))
<1> DEFINE reset  == ResetInpinfo(s, n)
           leaves == s.imc.imodp # NoIM /\ (n \notin Slot \/ n # s.imc.imodp)
           called == [s EXCEPT !.called = TRUE]
           out    == IF leaves THEN XimEnd(called, i, reset) ELSE called
           e      == ChangeIM(s, i, n)
<1> SUFFICES ASSUME s.called, e.imc.inp_num = s.imc.inp_num
             PROVE  e.imc.iccf = s.imc.iccf
  BY DEF Keeps
<1>1. s \in Contexts /\ SoundIMC(s.imc)
  BY DEF Sound
<1>2. reset <=> n \in Slot /\ s.imc.inp_num # n
  BY DEF ResetInpinfo
<1>3. called \in Contexts /\ called.imc = s.imc
  BY <1>1 DEF Contexts
<1>4. Loadable \subseteq Slot /\ NoIM \notin Slot
  BY DEF ConstantsOK, Slot, NoIM
<1> HIDE DEF reset, called
<1>5. /\ out \in Contexts
      /\ out.imc.iccf = IF leaves /\ reset THEN NoIM ELSE s.imc.iccf
      /\ out.imc.inp_num = s.imc.inp_num
  <2>1. CASE leaves
    <3>1. reset \in BOOLEAN
      BY <1>2
    <3>2. called.imc.imodp # NoIM /\ SoundIMC(called.imc)
      BY <1>1, <1>3, <2>1
    <3> QED
      BY <1>3, <2>1, <3>1, <3>2, XimEndSpec
  <2> QED
    BY <1>3, <2>1
<1> HIDE DEF leaves, out, e
<1>6. CASE n \notin Slot
  <2>1. e = ToEnglish(out)
    BY <1>6 DEF e, ChangeIM, out, leaves, called, reset
  <2>2. e.imc.iccf = out.imc.iccf
    BY <1>5, <2>1 DEF ToEnglish, Contexts, IMC
  <2> QED
    BY <1>2, <1>5, <1>6, <2>2
<1>7. CASE n \in Loadable
  <2>1. e = ToModule(out, n, reset)
    BY <1>4, <1>7 DEF e, ChangeIM, out, leaves, called, reset
  <2>2. e.imc.inp_num = n /\ (~reset => e.imc.iccf = out.imc.iccf)
    BY <1>2, <1>5, <1>7, <2>1 DEF ToModule, XimInit, Contexts, IMC, XCcore
  <2> QED
    BY <1>2, <1>5, <2>2
<1>8. CASE n \in Slot \ Loadable
  <2>1. e = [s EXCEPT !.ok = FALSE]
    BY <1>8 DEF e, ChangeIM
  <2> QED
    BY <1>1, <2>1 DEF Contexts
<1> QED
  BY <1>4, <1>6, <1>7, <1>8

\* What the step makes of the one IMC.
Session1 == first_call /\ imc'[1].inp_num = imc[1].inp_num
              => imc'[1].iccf = imc[1].iccf

\* A request that is served keeps the session if its handler does.
LEMMA ServedSession ==
    ASSUME ConstantsOK, SingleIMC, IInv, NEW i \in Id, NEW c, NEW s, NEW D,
           Handled(i, c, s, D), Keeps(Context(i), s)
    PROVE  Session1
<1>1. Context(i).imc = imc[1] /\ (Context(i).called <=> first_call)
  BY DEF Context, ImcOf
<1>2. imc'[1] = s.imc
  BY Ids DEF Handled, Release, ImcOf, IInv, TypeOK
<1> QED
  BY <1>1, <1>2 DEF Keeps, Session1

\* The contexts that the handlers start change_IM() from: sound, and with the
\* session of the IMC.
LEMMA StartsAlike ==
    ASSUME ConstantsOK, SingleIMC, IInv, NEW i \in ic_list
    PROVE  /\ i \in Id
           /\ Sound(Context(i)) /\ Context(i) \in Contexts
           /\ Sound(Triggered(i)) /\ Alike(Context(i), Triggered(i))
           /\ Triggered(i).called = Context(i).called
<1>1. i \in Id /\ Sound(Context(i)) /\ Context(i) \in Contexts
  BY ContextFinal DEF Final, Sound
<1>2. Alike(Context(i), Triggered(i)) /\ Triggered(i).called = Context(i).called
  BY <1>1 DEF Alike, Triggered, Contexts, XCcore
<1> QED
  BY <1>1, <1>2, TriggeredSound

\* What is like the outcome of a handler that keeps the session keeps it too.
LEMMA KeepsAlike ==
    ASSUME NEW s, NEW r, NEW t, NEW u, Alike(s, r), r.called = s.called,
           Keeps(r, t), Alike(t, u)
    PROVE  Keeps(s, u)
BY DEF Keeps, Alike

\* Connecting, disconnecting, sending text and switching the wide characters
\* move nothing of the session.
LEMMA EndsAlike ==
    ASSUME NEW s \in Contexts
    PROVE  /\ Alike(s, s)
           /\ Alike(s, Connect(s)) /\ Alike(s, Disconnect(s))
           /\ \A test : Alike(s, DisconnectIf(test, s))
           /\ [s EXCEPT !.unsent = {}] \in Contexts
           /\ Alike(s, [s EXCEPT !.unsent = {}])
           /\ \A test : Alike(s, DisconnectIf(test, [s EXCEPT !.unsent = {}]))
           /\ \A on \in BOOLEAN : Alike(s, TwoBytes(s, on))
           /\ \A on \in BOOLEAN : TwoBytes(s, on) \in Contexts
<1>1. [s EXCEPT !.unsent = {}] \in Contexts
  BY DEF Contexts
<1>2. ASSUME NEW t \in Contexts
      PROVE  Alike(t, Connect(t)) /\ Alike(t, Disconnect(t)) /\ Alike(t, t)
  BY DEF Contexts, Alike, Connect, Disconnect
<1>3. Alike(s, [s EXCEPT !.unsent = {}])
  BY DEF Contexts, Alike
<1>4. \A test : Alike(s, DisconnectIf(test, [s EXCEPT !.unsent = {}]))
  BY <1>1, <1>2, <1>3 DEF DisconnectIf, Alike
<1>5. ASSUME NEW on \in BOOLEAN
      PROVE  Alike(s, TwoBytes(s, on)) /\ TwoBytes(s, on) \in Contexts
  <2> DEFINE t == TwoBytes(s, on)
  <2>1. /\ t \in Contexts
        /\ t.imc.inp_num = s.imc.inp_num
        /\ t.imc.iccf = s.imc.iccf
    BY DEF Contexts, TwoBytes, IMC, InpState, XCcore, XcinMode
  <2> QED
    BY <2>1 DEF Alike
<1> QED
  BY <1>1, <1>2, <1>3, <1>4, <1>5 DEF DisconnectIf

\* So does ic_set_values(): XNPreeditState asks for the selected module or for
\* English.
LEMMA SetValuesSession ==
    ASSUME ConstantsOK, SingleIMC, NEW s, Sound(s), NEW i \in Id,
           NEW ps, NEW probe \in BOOLEAN, s.ok
    PROVE  Keeps(s, SetValues(s, i, ps, probe))
<1> DEFINE t == SetPreedit(s, i, ps)
<1>1. s \in Contexts /\ Alike(s, s)
  BY EndsAlike DEF Sound
<1>2. t \in Contexts /\ Keeps(s, t)
  <2>1. ASSUME NEW n
        PROVE  /\ ChangeIM(s, i, n) \in Contexts
               /\ Keeps(s, ChangeIM(s, i, n))
               /\ Connect(ChangeIM(s, i, n)) \in Contexts
               /\ Keeps(s, Connect(ChangeIM(s, i, n)))
               /\ Disconnect(ChangeIM(s, i, n)) \in Contexts
               /\ Keeps(s, Disconnect(ChangeIM(s, i, n)))
    <3> DEFINE e == ChangeIM(s, i, n)
    <3>1. Keeps(s, e)
      BY ChangeIMSession
    <3>2. e \in Contexts
      BY ChangeIMSound DEF Sound
    <3> HIDE DEF e
    <3>3. Alike(e, Connect(e)) /\ Alike(e, Disconnect(e))
      BY <3>2, EndsAlike
    <3>4. Connect(e) \in Contexts /\ Disconnect(e) \in Contexts
      BY <3>2 DEF Connect, Disconnect, Contexts, ICState
    <3> QED
      BY <3>1, <3>2, <3>3, <3>4 DEF Keeps, Alike, e
  <2>2. Keeps(s, s)
    BY DEF Keeps
  <2> QED
    BY <1>1, <2>1, <2>2 DEF SetPreedit
<1> HIDE DEF t
<1>3. Alike(t, [t EXCEPT !.xc.ic = i, !.xc.xcin_mode = @ \ {"RUN_INIT"}])
  BY <1>2 DEF Contexts, XCcore, Alike
<1> QED
  BY <1>2, <1>3 DEF SetValues, t, Keeps, Alike

\* A new IC starts with the selection the one IMC has already.
LEMMA CreateICSession ==
    ASSUME ConstantsOK, SingleIMC, IInv, NEW c \in Client, NEW i \in NewIds,
           NEW ps \in Preedit, NEW probe \in Probes, CreateIC(c, i, ps, probe)
    PROVE  Session1
<1> DEFINE s == NewContext(i)
<1>1. i \in Id /\ i \notin ic_list
  BY DEF NewIds, IInv, TypeOK, IdsPartition
<1>2. Final(s, i) /\ s.ok
  BY <1>1, NewContextFinal
<1>3. Sound(s) /\ probe \in BOOLEAN
  BY <1>2 DEF Final, Probes
<1>4. Alike(Context(i), s) /\ s.called = Context(i).called
  <2>1. imc[1] \in IMC /\ Shared(imc[1], xccore) /\ TypeOK
    BY Ids DEF IInv, TypeOK
  <2> DEFINE num == IF "IM_FOCUS" \in xccore.xcin_mode THEN xccore.im_focus
                                                       ELSE xccore.default_im
  <2>2. num = imc[1].inp_num
    BY <2>1 DEF Shared
  <2>3. s = [Context(i) EXCEPT !.st = {"NEWIC"}, !.imc.inp_num = num]
    BY DEF NewContext
  <2> HIDE DEF s, num
  <2> QED
    BY <2>1, <2>2, <2>3 DEF Alike, Context, ImcOf, IMC
<1> HIDE DEF s
<1>5. Keeps(s, SetValues(s, i, ps, probe))
  BY <1>1, <1>2, <1>3, SetValuesSession
<1>6. Keeps(Context(i), SetValues(s, i, ps, probe))
  BY <1>4, <1>5 DEF Keeps, Alike
<1>7. PICK D \in SUBSET ic_list : Handled(i, c, SetValues(s, i, ps, probe), D)
  BY DEF CreateIC, s
<1> QED
  BY <1>1, <1>6, <1>7, ServedSession

\* An IC that gets the focus takes over a module, and wide characters.
LEMMA SetFocusSession ==
    ASSUME ConstantsOK, SingleIMC, IInv, NEW i \in ic_list, SetFocus(i)
    PROVE  Session1
<1> DEFINE in  == FocusIn(Context(i), i)
           im  == IF "RUN_IM_FOCUS" \in in.xc.xcin_mode
                    THEN ChangeIM(in, i, in.xc.im_focus) ELSE in
           sb  == IF "RUN_2B_FOCUS" \in in.xc.xcin_mode
                    THEN [im EXCEPT !.imc.inp_state = @ \cup {"2BYTES", "2BFOCUS"}]
                    ELSE im
           inh == Inherit(in, i)
           new == IF "NEWIC" \in in.st THEN [inh EXCEPT !.st = @ \ {"NEWIC"}] ELSE in
           one == IF Active(new.imc) THEN Connect(new) ELSE Disconnect(new)
<1>1. i \in Id /\ Final(Context(i), i) /\ Context(i).ok
  BY ContextFinal
<1>2. Final(in, i) /\ in.ok
  BY <1>1, FocusInFinal
<1>3. Sound(in) /\ in \in Contexts /\ Context(i) \in Contexts
  BY <1>1, <1>2 DEF Final, Sound
<1>4. Alike(Context(i), in) /\ in.called = Context(i).called
  BY <1>3 DEF FocusIn, FocusFlags, Alike, Contexts, IMC, XCcore
<1>5. Final(inh, i)
  BY <1>1, <1>2, InheritFinal
<1>6. inh = IF in.xc.xcin_mode \cap {"RUN_IM_FOCUS", "RUN_2B_FOCUS"} # {}
              THEN Connect(sb) ELSE in
  BY DEF Inherit
<1>7. Served(i, one)
  BY DEF SetFocus
<1> HIDE DEF in
<1>8. Keeps(in, im) /\ im \in Contexts
  <2>1. Keeps(in, in)
    BY DEF Keeps
  <2> QED
    BY <1>1, <1>2, <1>3, <2>1, ChangeIMSession, ChangeIMSound DEF Sound
<1> HIDE DEF im
<1>9. Alike(im, sb) /\ sb \in Contexts
  BY <1>8 DEF Alike, Contexts, IMC, InpState
<1> HIDE DEF sb
<1>10. Alike(sb, Connect(sb))
  BY <1>9, EndsAlike
<1>11. Keeps(in, inh)
  BY <1>6, <1>8, <1>9, <1>10 DEF Keeps, Alike
<1>12. inh \in Contexts
  BY <1>5 DEF Final, Sound
<1> HIDE DEF inh
<1>13. Keeps(in, new) /\ new \in Contexts
  BY <1>3, <1>11, <1>12 DEF Keeps, Contexts, ICState
<1> HIDE DEF new
<1>14. Alike(new, one)
  BY <1>13, EndsAlike
<1> HIDE DEF one
<1>15. Keeps(Context(i), one)
  BY <1>4, <1>13, <1>14 DEF Keeps, Alike
<1> QED
  BY <1>1, <1>7, <1>15, ServedSession DEF Served

\* Every request keeps the session.
LEMMA RequestSession ==
    ASSUME ConstantsOK, SingleIMC, IInv, NEW i \in ic_list, Request(i)
    PROVE  Session1
<1>1. /\ i \in Id
      /\ Sound(Context(i)) /\ Context(i) \in Contexts
      /\ Sound(Triggered(i)) /\ Alike(Context(i), Triggered(i))
      /\ Triggered(i).called = Context(i).called
  BY StartsAlike
<1>2. Triggered(i) \in Contexts
  BY <1>1 DEF Sound
<1>3. ASSUME NEW s, Served(i, s), Keeps(Context(i), s)
      PROVE  Session1
  BY <1>1, <1>3, ServedSession DEF Served
<1>4. ASSUME NEW s, Served(i, s), Alike(Context(i), s)
      PROVE  Session1
  BY <1>3, <1>4 DEF Keeps, Alike
<1>5. ASSUME NEW n, NEW u, Alike(ChangeIM(Triggered(i), i, n), u), Served(i, u)
      PROVE  Session1
  <2>1. Keeps(Triggered(i), ChangeIM(Triggered(i), i, n))
    BY <1>1, ChangeIMSession
  <2> QED
    BY <1>1, <1>3, <1>5, <2>1, KeepsAlike
<1>6. ASSUME NEW s \in Contexts, FuncKey(i, s), Keeps(Context(i), s)
      PROVE  Session1
  <2>1. Alike(s, DisconnectIf(~Active(s.imc), [s EXCEPT !.unsent = {}]))
    BY EndsAlike
  <2> QED
    BY <1>3, <1>6, <2>1 DEF FuncKey, Keeps, Alike
<1>7. ASSUME NEW n, FuncKey(i, ChangeIM(Context(i), i, n))
      PROVE  Session1
  <2>1. ChangeIM(Context(i), i, n) \in Contexts
    BY <1>1, ContextFinal, ChangeIMSound DEF Sound
  <2>2. Keeps(Context(i), ChangeIM(Context(i), i, n))
    BY <1>1, ChangeIMSession
  <2> QED
    BY <1>6, <1>7, <2>1, <2>2
<1>8. \A n : ChangeIM(Triggered(i), i, n) \in Contexts
  BY <1>1, TriggeredSound, ChangeIMSound DEF Sound
<1>9. CASE \E ps \in Preedit, probe \in Probes : SetICValues(i, ps, probe)
  <2>1. PICK ps \in Preedit, probe \in BOOLEAN : SetICValues(i, ps, probe)
    BY <1>9 DEF Probes
  <2>2. Keeps(Context(i), SetValues(Context(i), i, ps, probe))
    BY <1>1, ContextFinal, SetValuesSession
  <2> QED
    BY <1>3, <2>1, <2>2 DEF SetICValues
<1>10. CASE OtherRequest(i)
  BY <1>4, <1>10 DEF OtherRequest, Alike
<1>11. CASE UnsetFocus(i)
  <2> DEFINE s == Context(i)
             hidden == IF SingleIMC THEN {} ELSE FocusFlags(s.imc)
             t == [s EXCEPT !.imc.inp_state = @ \ hidden,
                            !.st = @ \ {"FOCUS"},
                            !.xc.icp = i]
  <2>1. Served(i, t)
    BY <1>11 DEF UnsetFocus
  <2>2. Alike(s, t)
    BY <1>1 DEF Alike, Contexts, IMC, XCcore
  <2> QED
    BY <1>4, <2>1, <2>2
<1>12. CASE TriggerZhen(i) \/ \E n \in Registered : TriggerImn(i, n)
  <2>1. PICK n : LET s == ChangeIM(Triggered(i), i, n)
                 IN  Served(i, DisconnectIf(~s.ok, s))
    BY <1>12 DEF TriggerZhen, TriggerImn
  <2> QED
    BY <1>5, <1>8, <2>1, EndsAlike
<1>13. CASE \E dir \in {1, -1} : TriggerCircular(i, dir)
  <2>1. PICK n : LET s == ChangeIM(Triggered(i), i, n)
                 IN  Served(i, DisconnectIf("CINPUT" \notin s.imc.inp_state, s))
    BY <1>13 DEF TriggerCircular
  <2> QED
    BY <1>5, <1>8, <2>1, EndsAlike
<1>14. CASE Trigger2bsb(i)
  <2>1. Alike(Triggered(i), TwoBytes(Triggered(i), TRUE))
    BY <1>2, EndsAlike
  <2> QED
    BY <1>1, <1>4, <1>14, <2>1 DEF Trigger2bsb, Alike
<1>15. CASE \E found \in BOOLEAN : TriggerQphrase(i, found)
  <2> DEFINE s == Disconnect(Triggered(i))
  <2>1. Alike(Triggered(i), s) /\ s \in Contexts
    BY <1>2, EndsAlike DEF Disconnect, Contexts, ICState
  <2>2. Served(i, s) \/ Served(i, [s EXCEPT !.unsent = {}])
    BY <1>15 DEF TriggerQphrase
  <2> HIDE DEF s
  <2>3. Alike(s, [s EXCEPT !.unsent = {}])
    BY <2>1, EndsAlike
  <2> QED
    BY <1>1, <1>4, <2>1, <2>2, <2>3 DEF Alike
<1>16. CASE \/ ForwardZhen(i)
            \/ \E dir \in {1, -1} : ForwardCircular(i, dir)
            \/ \E n \in Registered : ForwardImn(i, n)
  BY <1>7, <1>16 DEF ForwardZhen, ForwardCircular, ForwardImn
<1>17. CASE Forward2bsb(i)
  <2>1. PICK on \in BOOLEAN : FuncKey(i, TwoBytes(Context(i), on))
    BY <1>17 DEF Forward2bsb
  <2>2. /\ Alike(Context(i), TwoBytes(Context(i), on))
        /\ TwoBytes(Context(i), on) \in Contexts
    BY <1>1, EndsAlike
  <2> QED
    BY <1>6, <2>1, <2>2 DEF Keeps, Alike
<1>18. CASE ForwardOther(i)
  BY <1>1, <1>6, <1>18 DEF ForwardOther, Keeps
<1>19. CASE ForwardImfocus(i)
  <2> DEFINE s == Context(i)
             run == IF "CINPUT" \in s.imc.inp_state THEN "RUN_IM_FOCUS"
                                                    ELSE "RUN_2B_FOCUS"
             off == [s EXCEPT !.xc.xcin_mode = OutOfFocusMode(@)]
             on  == [s EXCEPT !.xc.xcin_mode = @ \cup {"IM_FOCUS", run},
                              !.xc.im_focus = s.imc.inp_num]
  <2>1. FuncKey(i, off) \/ FuncKey(i, on)
    BY <1>19 DEF ForwardImfocus
  <2>2. off \in Contexts /\ on \in Contexts /\ off.imc = s.imc /\ on.imc = s.imc
    BY <1>1 DEF Contexts, XCcore, XcinMode, IMC, OutOfFocusMode
  <2> HIDE DEF off, on
  <2> QED
    BY <1>6, <2>1, <2>2 DEF Keeps
<1>20. CASE \E composing \in BOOLEAN : ForwardKey(i, composing)
  <2>1. PICK b : Served(i, [Context(i) EXCEPT !.imc.n_lcch = b, !.unsent = {}])
    BY <1>20 DEF ForwardKey
  <2>2. Alike(Context(i), [Context(i) EXCEPT !.imc.n_lcch = b, !.unsent = {}])
    BY <1>1 DEF Alike, Contexts, IMC
  <2> QED
    BY <1>4, <2>1, <2>2
<1> QED
  BY <1>9, <1>10, <1>11, <1>12, <1>13, <1>14, <1>15, <1>16, <1>17, <1>18, <1>19,
     <1>20, SetFocusSession DEF Request

\* In single mode the data of a module survives whatever is done, from the
\* first change_IM() on, until another module is selected.
THEOREM SingleSessionKept ==
    ASSUME SingleIMC PROVE Spec => SingleKeepsSession
<1>1. ASSUME IInv, [Next]_vars PROVE [Session1]_vars
  <2>1. ASSUME NEW D, Deleted(D) PROVE imc' = imc
    BY <2>1 DEF Deleted, Release
  <2>2. ASSUME imc' = imc PROVE Session1
    BY <2>2 DEF Session1
  <2> QED
    BY <1>1, <2>1, <2>2, ConstantsOK, RequestSession, CreateICSession
    DEF Next, DestroyIC, CloseClient
<1> QED
  BY <1>1, Invariance, PTL DEF Spec, SingleKeepsSession, Session1

=============================================================================
