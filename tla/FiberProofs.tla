---------------------------- MODULE FiberProofs ----------------------------
(* The hand-over between the core's thread and the user interface, for     *)
(* every program, source line and order of calls.                          *)
EXTENDS Fiber, TLAPS

USE OutsideAssumption, NoneAssumption, LineAssumption DEF Place

LEMMA CopyType ==
  ASSUME NEW p \in Place, NEW t \in BOOLEAN
  PROVE  [eip |-> p, trap |-> t] \in [eip : Place, trap : BOOLEAN]
  BY Zenon

LEMMA TypeInitially == Init => TypeOK
  <1> SUFFICES ASSUME Init PROVE TypeOK
    OBVIOUS
  <1>1. context \in [eip : Place, trap : BOOLEAN]
    BY CopyType DEF Init
  <1>2. trap \in BOOLEAN /\ cont \in BOOLEAN /\ skip \in BOOLEAN /\ skipsrc \in BOOLEAN
        /\ told \in BOOLEAN /\ undefined \in BOOLEAN
    BY Zenon DEF Init
  <1> HIDE DEF Place
  <1> QED BY <1>1, <1>2 DEF Init, TypeOK, Place

LEMMA TypePreserved == ASSUME TypeOK, [Next]_vars PROVE TypeOK'
  <1> USE DEF TypeOK
  <1>1. ASSUME Execute PROVE TypeOK'
    <2>0. caller' \in Addr \cup {None}
      BY <1>1, Zenon DEF Execute
    <2>1. CASE trap
      <3>1. /\ trap' = FALSE /\ eip' \in Place
            /\ context' = [eip |-> eip', trap |-> FALSE]
        BY <1>1, <2>1, Zenon DEF Execute
      <3>2. FALSE \in BOOLEAN
        OBVIOUS
      <3>3. context' \in [eip : Place, trap : BOOLEAN]
        BY <3>1, <3>2, CopyType
      <3>4. trap' \in BOOLEAN
        BY <3>1, <3>2, Zenon
      <3>5. thread' = "failed" /\ eip' \in Place
        BY <1>1, <2>1, <3>1, Zenon DEF Execute
      <3>6. UNCHANGED <<cont, table, last, repatch, skip, skipsrc, told, ui, undefined>>
        BY <1>1, Zenon DEF Execute
      <3> QED BY <2>0, <3>3, <3>4, <3>5, <3>6 DEF table
    <2>2. CASE ~trap
      <3>1. trap' = trap /\ context' = context /\ thread' = thread
        BY <1>1, <2>2, Zenon DEF Execute
      <3> QED BY <1>1, <2>0, <3>1 DEF Execute, table
    <2> QED BY <2>1, <2>2
  <1>2. ASSUME Fail PROVE TypeOK'
    BY <1>2 DEF Fail, table, registers
  <1>3. ASSUME PutBack PROVE TypeOK'
    BY <1>3 DEF PutBack, registers
  <1>4. ASSUME Tell PROVE TypeOK'
    BY <1>4 DEF Tell, trigger, Hit, resolve_eip_v2, registers
  <1>5. ASSUME SkipOn PROVE TypeOK'
    <2>1. last' \in Addr
      BY <1>5 DEF SkipOn, Hit
    <2>2. once' \subseteq Addr /\ byte' \subseteq Addr /\ repatch' \in Addr \cup {None}
      BY <1>5 DEF SkipOn, Take, Steps
    <2>3. context' \in [eip : Place, trap : BOOLEAN]
      BY <1>5 DEF SkipOn, Take
    <2> QED BY <1>5, <2>1, <2>2, <2>3 DEF SkipOn, Take, registers
  <1>6. ASSUME Signal PROVE TypeOK'
    BY <1>6 DEF Signal, registers, table
  <1>7. ASSUME Resume PROVE TypeOK'
    BY <1>7 DEF Resume, table
  <1>8. ASSUME Continue PROVE TypeOK'
    BY <1>8 DEF Continue, Take, Continued, registers
  <1>9. ASSUME SourceStep PROVE TypeOK'
    BY <1>9 DEF SourceStep, Take, Continued, Steps, registers
  <1>10. ASSUME SignalUI PROVE TypeOK'
    BY <1>10 DEF SignalUI, registers, table
  <1>11. ASSUME PlainStep PROVE TypeOK'
    BY <1>11 DEF PlainStep, SetOnce, registers
  <1>12. ASSUME step PROVE TypeOK'
    BY <1>12 DEF step, SetOnce, Steps, registers
  <1>13. ASSUME NEW a \in Addr, jit_rebranch(a) PROVE TypeOK'
    BY <1>13 DEF jit_rebranch, registers, table
  <1>14. ASSUME NEW a \in Addr, Toggle(a) PROVE TypeOK'
    BY <1>14 DEF Toggle, registers
  <1>15. CASE UNCHANGED vars
    BY <1>15 DEF vars, registers, table
  <1> QED
    BY <1>1, <1>2, <1>3, <1>4, <1>5, <1>6, <1>7, <1>8, <1>9, <1>10, <1>11, <1>12,
       <1>13, <1>14, <1>15
    DEF Next, Thread, Handler, UserInterface

LEMMA NeverForgottenPreserved ==
  ASSUME TypeOK, NeverForgotten, [Next]_vars
  PROVE  NeverForgotten'
  <1> USE DEF NeverForgotten
  <1>1. CASE Thread
    BY <1>1 DEF Thread, Handler, Execute, Fail, PutBack, Tell, SkipOn, Signal, Resume
  <1>2. CASE UserInterface
    BY <1>2 DEF UserInterface, Continue, SourceStep, SignalUI, PlainStep, step, jit_rebranch,
      Toggle
  <1>3. CASE UNCHANGED vars
    BY <1>3 DEF vars
  <1> QED BY <1>1, <1>2, <1>3 DEF Next

(* Who has the program.                                                    *)
LEMMA HandoverPreserved ==
  ASSUME TypeOK, Handover, Patched, [Next]_vars, ~undefined'
  PROVE  Handover'
  <1> USE DEF Handover
  <1>1. ASSUME Execute PROVE Handover'
    <2>1. thread' # "waiting" /\ ui' = ui /\ cont' = cont /\ told' = told
      BY <1>1 DEF Execute
    <2> QED BY <1>1, <2>1 DEF Execute
  <1>2. ASSUME Fail PROVE Handover'
    BY <1>2 DEF Fail
  <1>3. ASSUME PutBack PROVE Handover'
    BY <1>3 DEF PutBack
  <1>4. ASSUME Tell PROVE Handover'
    BY <1>4 DEF Tell
  <1>5. ASSUME SkipOn PROVE Handover'
    BY <1>5 DEF SkipOn
  <1>6. ASSUME Signal PROVE Handover'
    BY <1>6 DEF Signal
  <1>7. ASSUME Resume PROVE Handover'
    BY <1>7 DEF Resume
  <1>8. ASSUME Continue PROVE Handover'
    BY <1>8 DEF Continue, Continued
  <1>9. ASSUME SourceStep PROVE Handover'
    BY <1>9 DEF SourceStep, Continued
  <1>10. ASSUME SignalUI PROVE Handover'
    BY <1>10 DEF SignalUI
  <1>11. ASSUME PlainStep PROVE Handover'
    BY <1>11 DEF PlainStep
  <1>12. ASSUME step PROVE Handover'
    BY <1>12 DEF step
  <1>13. ASSUME NEW a \in Addr, jit_rebranch(a) PROVE Handover'
    BY <1>13 DEF jit_rebranch
  <1>14. ASSUME NEW a \in Addr, Toggle(a) PROVE Handover'
    BY <1>14 DEF Toggle
  <1>15. CASE UNCHANGED vars
    BY <1>15 DEF vars
  <1> QED
    BY <1>1, <1>2, <1>3, <1>4, <1>5, <1>6, <1>7, <1>8, <1>9, <1>10, <1>11, <1>12,
       <1>13, <1>14, <1>15
    DEF Next, Thread, Handler, UserInterface

(* The breakpoint that is taken out.                                       *)
LEMMA PatchedPreserved ==
  ASSUME TypeOK, Handover, Patched, [Next]_vars, ~undefined'
  PROVE  Patched'
  <1> USE DEF Patched, TypeOK
  <1>1. ASSUME Execute PROVE Patched'
    <2>1. told = FALSE
      BY <1>1, Zenon DEF Execute, Handover
    <2>2. CASE trap
      <3>1. /\ thread' = "failed" /\ byte' = byte /\ breaks' = breaks /\ once' = once
            /\ repatch' = repatch /\ skip' = skip /\ ui' = ui
        BY <1>1, <2>2, Zenon DEF Execute, table
      <3> QED BY <1>1, <2>1, <3>1 DEF Execute
    <2>3. CASE ~trap
      <3>1. /\ thread' = thread /\ byte' = byte /\ breaks' = breaks /\ once' = once
            /\ repatch' = repatch /\ skip' = skip /\ ui' = ui /\ told' = told
        BY <1>1, <2>3, Zenon DEF Execute, table
      <3>2. thread = "running" /\ repatch = None
        BY <1>1, <2>3 DEF Execute
      <3> QED BY <2>1, <3>1, <3>2
    <2> QED BY <2>2, <2>3
  <1>2. ASSUME Fail PROVE Patched'
    BY <1>2 DEF Fail, registers, table, Handover
  <1>3. ASSUME PutBack PROVE Patched'
    BY <1>3 DEF PutBack, registers, Handover
  <1>4. ASSUME Tell PROVE Patched'
    BY <1>4 DEF Tell, trigger, registers, Handover
  <1>5. ASSUME SkipOn PROVE Patched'
    BY <1>5 DEF SkipOn, Take, Steps, registers, Handover
  <1>6. ASSUME Signal PROVE Patched'
    BY <1>6 DEF Signal, registers, table, Handover
  <1>7. ASSUME Resume PROVE Patched'
    BY <1>7 DEF Resume, table, Handover
  <1>8. ASSUME Continue PROVE Patched'
    BY <1>8 DEF Continue, Continued, Take, registers, Handover
  <1>9. ASSUME SourceStep PROVE Patched'
    BY <1>9 DEF SourceStep, Continued, Take, Steps, registers, Handover
  <1>10. ASSUME SignalUI PROVE Patched'
    BY <1>10 DEF SignalUI, registers, table, Handover
  <1>11. ASSUME PlainStep PROVE Patched'
    BY <1>11 DEF PlainStep, SetOnce, registers, Handover
  <1>12. ASSUME step PROVE Patched'
    BY <1>12 DEF step, SetOnce, Steps, registers, Handover
  <1>13. ASSUME NEW a \in Addr, jit_rebranch(a) PROVE Patched'
    BY <1>13 DEF jit_rebranch, registers, table, Handover
  <1>14. ASSUME NEW a \in Addr, Toggle(a) PROVE Patched'
    BY <1>14 DEF Toggle, registers, Handover
  <1>15. CASE UNCHANGED vars
    BY <1>15 DEF vars, registers, table
  <1> QED
    BY <1>1, <1>2, <1>3, <1>4, <1>5, <1>6, <1>7, <1>8, <1>9, <1>10, <1>11, <1>12,
       <1>13, <1>14, <1>15
    DEF Next, Thread, Handler, UserInterface
-----------------------------------------------------------------------------
LEMMA InvInitially == Init => IInv
  <1> SUFFICES ASSUME Init PROVE IInv
    OBVIOUS
  <1>1. TypeOK
    BY TypeInitially
  <1>2. NeverForgotten /\ Handover
    BY DEF Init, NeverForgotten, Handover
  <1>3. Patched
    BY DEF Init, Patched
  <1> QED BY <1>1, <1>2, <1>3 DEF IInv

(* Once undefined, always.                                                 *)
LEMMA StaysUndefined == ASSUME TypeOK, [Next]_vars, undefined PROVE undefined'
  BY DEF Next, Thread, Handler, UserInterface, Execute, Fail, PutBack, Tell, SkipOn, Signal,
    Resume, Continue, Continued, SourceStep, SignalUI, PlainStep, step, jit_rebranch, Toggle, vars

LEMMA InvPreserved == ASSUME IInv, [Next]_vars PROVE IInv'
  <1>1. TypeOK'
    BY TypePreserved DEF IInv
  <1>2. NeverForgotten'
    BY NeverForgottenPreserved DEF IInv
  <1>3. ASSUME ~undefined' PROVE Handover' /\ Patched'
    <2>1. TypeOK /\ Handover /\ Patched
      BY <1>3, StaysUndefined DEF IInv
    <2> QED BY <1>3, <2>1, HandoverPreserved, PatchedPreserved
  <1> QED BY <1>1, <1>2, <1>3 DEF IInv

(* The inductive invariant: who has the program and which breakpoint is    *)
(* out, as long as the program is continued only when it has stopped.      *)
THEOREM Inductive == Spec => []IInv
  <1>1. Init => IInv
    BY InvInitially
  <1>2. IInv /\ [Next]_vars => IInv'
    BY InvPreserved
  <1> QED BY <1>1, <1>2, PTL DEF Spec

(* The types, without any assumption on the user interface.                *)
THEOREM TypeCorrect == Spec => []TypeOK
  <1>1. IInv => TypeOK
    BY DEF IInv
  <1> QED BY <1>1, Inductive, PTL

(* do_callback never waits for an event that nobody owes, even when        *)
(* jit_continue is called while the program runs.                          *)
THEOREM NeverWaitsUntold == Spec => []NeverForgotten
  <1>1. IInv => NeverForgotten
    BY DEF IInv
  <1> QED BY <1>1, Inductive, PTL

-----------------------------------------------------------------------------
(* What a step of a program with defined behaviour looks like to the user. *)
LEMMA ThreadRefines ==
  ASSUME TypeOK, Handover, Patched, ~undefined, Thread
  PROVE  Promise!Next \/ UNCHANGED Promise!vars
  <1> USE DEF Phase, Pos, Caller, Pass, Regular, Once, Skipping, Soft
  <1>0. undefined' = undefined
    BY DEF Thread, Handler, Execute, Fail, PutBack, Tell, SkipOn, Signal, Resume
  <1>1. ASSUME Execute PROVE Promise!Run
    <2>1. /\ thread = "running" /\ told = FALSE /\ told' = told
          /\ eip \notin byte /\ eip' \in Place
          /\ breaks' = breaks /\ once' = once /\ skipsrc' = skipsrc /\ skip' = skip
          /\ repatch' = repatch
          /\ caller' \in IF eip' = Outside THEN Addr \cup {None} ELSE {None}
      <3>1. told = FALSE
        BY <1>1, Zenon DEF Execute, Handover, TypeOK
      <3> QED BY <1>1, <3>1, Zenon DEF Execute, table
    <2>2. Phase = "runs" /\ Phase' = "runs" /\ Pos = eip
      BY <1>0, <2>1
    <2>3. Pos' = eip' /\ ~Pass'
      <3>1. CASE trap
        <4>1. thread' = "failed" /\ context' = [eip |-> eip', trap |-> FALSE]
          BY <1>1, <3>1, Zenon DEF Execute
        <4> QED BY <1>0, <4>1
      <3>2. CASE ~trap
        <4>1. thread' = thread
          BY <1>1, <3>2, Zenon DEF Execute
        <4>2. repatch = None
          BY <2>1, <3>2 DEF Patched
        <4> QED BY <1>0, <2>1, <4>1, <4>2
      <3> QED BY <3>1, <3>2
    <2>4. Pos \notin Regular \cup Once \/ Pass
      <3>1. eip \notin breaks \cup once \/ repatch # None
        BY <2>1 DEF Patched, TypeOK
      <3>2. Regular = breaks /\ Once = once
        OBVIOUS
      <3> QED BY <2>1, <2>2, <3>1, <3>2 DEF Pass
    <2>5. /\ Regular' = Regular /\ Once' = Once /\ Skipping' = Skipping /\ Soft' = Soft
          /\ Caller' = caller'
      BY <1>0, <2>1
    <2>6. Pass' = FALSE
      BY <2>3
    <2> QED BY <2>1, <2>2, <2>3, <2>4, <2>5, <2>6 DEF Promise!Run, Promise!Breakpoints
  <1>2. ASSUME Fail PROVE Promise!Retry
    BY <1>0, <1>2 DEF Fail, table, registers, Handover, Promise!Retry
  <1>3. ASSUME PutBack PROVE UNCHANGED Promise!vars
    BY <1>0, <1>3 DEF PutBack, registers, Promise!vars
  <1>4. ASSUME Tell PROVE Promise!Stop
    <2>1. Phase = "runs" /\ Phase' = "stopped" /\ Pos = context.eip /\ Pos' = Pos
      BY <1>0, <1>4 DEF Tell, registers, Handover
    <2>2. ~Pass /\ ~Pass'
      BY <1>4 DEF Tell
    <2>3. resolve_eip_v2 = Promise!Here
      BY <2>1 DEF resolve_eip_v2, Promise!Here
    <2>4. /\ Regular' = Regular /\ Skipping' = Skipping /\ Caller' = Caller
          /\ Once' = IF Promise!Here \in Once THEN {} ELSE Once
      BY <1>0, <1>4, <2>3 DEF Tell, trigger, registers
    <2>5. Soft' => context.eip = Outside
      BY <1>4 DEF Tell, Patched
    <2>6. Soft' \in {FALSE, Pos = Outside}
      BY <2>1, <2>5, Zenon DEF Soft
    <2>7. Pass' = Pass
      BY <2>2
    <2> HIDE DEF Phase, Pos, Caller, Pass, Regular, Once, Skipping, Soft
    <2> QED BY <2>1, <2>2, <2>4, <2>6, <2>7 DEF Promise!Stop
  <1>5. ASSUME SkipOn PROVE Promise!Skip
    <2>1. resolve_eip_v2 = Promise!Here
      BY <1>5 DEF SkipOn, resolve_eip_v2, Promise!Here
    <2>2. Promise!Here \in (Regular \cup Once) \cap Line /\ Skipping
      BY <1>5, <2>1 DEF SkipOn, Hit
    <2>3. /\ Phase = "runs" /\ Phase' = "runs" /\ ~Pass
          /\ Pos = context.eip /\ Pos' = Pos /\ Caller' = Caller
          /\ Regular' = Regular /\ Once' = once' /\ once' \in SUBSET Addr
          /\ Skipping' = Skipping
      BY <1>0, <1>5 DEF SkipOn, Take, Steps, registers, Handover
    <2>4. Pass' = (Pos \in Regular \cup Once')
      <3>1. repatch' # None <=> context.eip \in breaks \cup once'
        BY <1>5 DEF SkipOn, Take, TypeOK
      <3>2. Pass' <=> repatch' # None
        BY <1>0, <1>5 DEF SkipOn
      <3>3. Pass' <=> Pos \in Regular \cup Once'
        BY <2>3, <3>1, <3>2 DEF Regular
      <3>4. Pass' \in BOOLEAN
        BY Zenon DEF Pass
      <3> HIDE DEF Phase, Pos, Caller, Pass, Regular, Once, Skipping, Soft
      <3> QED BY <3>3, <3>4, Zenon
    <2>5. Soft' = Soft
      BY <1>0, <1>5 DEF SkipOn, Handover
    <2> HIDE DEF Phase, Pos, Caller, Pass, Regular, Once, Skipping, Soft
    <2> QED BY <2>2, <2>3, <2>4, <2>5 DEF Promise!Skip, Promise!Breakpoints
  <1>6. ASSUME Signal PROVE UNCHANGED Promise!vars
    BY <1>0, <1>6 DEF Signal, registers, table, Promise!vars
  <1>7. ASSUME Resume PROVE UNCHANGED Promise!vars
    BY <1>0, <1>7 DEF Resume, table, Promise!vars
  <1> QED
    BY <1>1, <1>2, <1>3, <1>4, <1>5, <1>6, <1>7 DEF Thread, Handler, Promise!Next

(* jit_continue of a stopped program.                                      *)
LEMMA Goes ==
  ASSUME TypeOK, ~undefined, ~undefined', told, thread = "waiting", repatch = None,
         ~skip \/ context.eip = Outside,
         thread' = thread, breaks' = breaks, ~told', context'.eip = context.eip,
         skipsrc' = skipsrc \/ skipsrc' = TRUE, once' \in SUBSET Addr,
         repatch' # None <=> context.eip \in breaks \cup once', caller' = caller
  PROVE  Promise!Continue
  <1>1. Phase = "stopped" /\ Phase' = "runs" /\ Pos = context.eip /\ Pos' = Pos
    BY DEF Phase, Pos
  <1>2. ~Soft \/ Pos = Outside
    BY <1>1 DEF Soft
  <1>3. Regular = breaks /\ Regular' = breaks /\ Once' = once' /\ Caller' = Caller
    BY DEF Regular, Once, Caller
  <1>4. Pass' <=> Pos \in breaks \cup once'
    BY <1>1 DEF Pass
  <1>5. Pass' = (Pos \in Regular \cup Once')
    <2>1. Pass' <=> Pos \in Regular \cup Once'
      BY <1>3, <1>4
    <2>2. Pass' \in BOOLEAN
      BY Zenon DEF Pass
    <2> QED BY <2>1, <2>2, Zenon
  <1>6. Soft' = FALSE
    BY Zenon DEF Soft
  <1>7. Skipping' \in {Skipping, TRUE}
    BY Zenon DEF Skipping, TypeOK
  <1> QED BY <1>1, <1>2, <1>3, <1>5, <1>6, <1>7 DEF Promise!Continue

LEMMA UserInterfaceRefines ==
  ASSUME TypeOK, Handover, Patched, ~undefined, UserInterface
  PROVE  Promise!Next \/ UNCHANGED Promise!vars
  <1> USE DEF Phase, Pos, Caller, Pass, Regular, Once, Skipping, Soft
  <1>1. ASSUME Continue \/ SourceStep, undefined' PROVE Promise!Misuse
    BY <1>1 DEF Continue, SourceStep, Continued, Handover, Promise!Misuse
  <1>2. ASSUME Continue, ~undefined' PROVE Promise!Continue
    <2>1. told /\ thread = "waiting" /\ repatch = None /\ (~skip \/ context.eip = Outside)
      BY <1>2 DEF Continue, Continued, Handover
    <2>2. /\ thread' = thread /\ breaks' = breaks /\ once' = once /\ skipsrc' = skipsrc
          /\ ~told' /\ context'.eip = context.eip /\ caller' = caller
      BY <1>2 DEF Continue, Continued, Take, registers
    <2>3. repatch' # None <=> context.eip \in breaks \cup once'
      BY <1>2, <2>1, <2>2 DEF Continue, Take, TypeOK
    <2>4. once' \in SUBSET Addr
      BY <2>2 DEF TypeOK
    <2> QED BY <1>2, <2>1, <2>2, <2>3, <2>4, Goes
  <1>3. ASSUME SourceStep, ~undefined' PROVE Promise!Continue
    <2>1. told /\ thread = "waiting" /\ repatch = None /\ (~skip \/ context.eip = Outside)
      BY <1>3 DEF SourceStep, Continued, Handover
    <2>2. /\ thread' = thread /\ breaks' = breaks /\ skipsrc' = TRUE
          /\ ~told' /\ context'.eip = context.eip /\ caller' = caller
      BY <1>3 DEF SourceStep, Continued, Take, registers
    <2>3. repatch' # None <=> context.eip \in breaks \cup once'
      BY <1>3, <2>1, <2>2 DEF SourceStep, Take, TypeOK
    <2>4. once' \in SUBSET Addr
      BY <1>3 DEF SourceStep, Steps
    <2> QED BY <1>3, <2>1, <2>2, <2>3, <2>4, Goes
  <1>4. ASSUME SignalUI PROVE UNCHANGED Promise!vars
    BY <1>4 DEF SignalUI, registers, table, Promise!vars
  <1>5. ASSUME PlainStep PROVE Promise!Step
    BY <1>5 DEF PlainStep, SetOnce, registers, Promise!Step
  <1>6. ASSUME step PROVE Promise!Step
    BY <1>6 DEF step, SetOnce, Steps, registers, Promise!Step
  <1>7. ASSUME NEW a \in Addr, jit_rebranch(a) PROVE Promise!SetPC
    BY <1>7 DEF jit_rebranch, registers, table, Handover, Promise!SetPC
  <1>8. ASSUME NEW a \in Addr, Toggle(a) PROVE Promise!Toggle
    BY <1>8 DEF Toggle, registers, Promise!Toggle
  <1> QED
    BY <1>1, <1>2, <1>3, <1>4, <1>5, <1>6, <1>7, <1>8 DEF UserInterface, Promise!Next

(* Fibers, patched bytes and trap flags keep the promise of a debugger:    *)
(* no breakpoint is run over and no stop is given up (jit_continue,        *)
(* internal_cb, handle_failure).                                           *)
THEOREM KeepsPromise == Spec => PromiseSpec
  <1>1. Init => Promise!Init
    BY DEF Init, Promise!Init, Phase, Pos, Caller, Pass, Regular, Once, Skipping, Soft
  <1>2. IInv /\ [Next]_vars => [Promise!Next]_(Promise!vars)
    <2> SUFFICES ASSUME IInv, [Next]_vars PROVE Promise!Next \/ UNCHANGED Promise!vars
      OBVIOUS
    <2>1. CASE undefined
      <3>1. undefined'
        BY <2>1, StaysUndefined DEF IInv
      <3> QED
        BY <2>1, <3>1
        DEF Promise!vars, Phase, Pos, Caller, Pass, Regular, Once, Skipping, Soft
    <2>2. CASE ~undefined /\ UNCHANGED vars
      BY <2>2
      DEF vars, registers, table, Promise!vars, Phase, Pos, Caller, Pass, Regular, Once, Skipping, Soft
    <2>3. CASE ~undefined /\ Next
      BY <2>3, ThreadRefines, UserInterfaceRefines DEF IInv, Next
    <2> QED BY <2>1, <2>2, <2>3
  <1> QED BY <1>1, <1>2, Inductive, PTL DEF Spec, PromiseSpec, Promise!Spec
=============================================================================
