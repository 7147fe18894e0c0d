--------------------------- MODULE InterruptProofs ---------------------------
(* The safety properties of Interrupt, for any number of interrupts, any   *)
(* registers and any program.                                              *)
EXTENDS Interrupt, TLAPS

AnyField == Field \cup ModeField \cup {0}

(* Every mode field that loadcpsr knows names one of the six modes.        *)
LEMMA ModeType == \A field \in ModeField : cpumode(field) \in Mode
  BY DEF cpumode, Mode, ModeField, User, Fiq, Irq, Supervisor, Abort,
         Undefined, System, CPU_USER, CPU_SUPERVISOR, CPU_ABORT,
         CPU_UNDEFINED, CPU_INTERRUPT, CPU_FASTINT

(* The mode that poll_process enters for a handler is one that loadcpsr    *)
(* knows.                                                                  *)
LEMMA IrqMode == Irq \in ModeField /\ cpumode(Irq) = CPU_INTERRUPT /\ CPU_INTERRUPT \in Mode
  BY DEF cpumode, Mode, ModeField, Fiq, Irq, CPU_INTERRUPT,
         User, Supervisor, Abort, Undefined, System

(* What the static initialisation leaves is a state of the processor.      *)
LEMMA InitCpuType == InitCpu \in Cpu /\ FieldAgrees(InitCpu)
  <1>1. 0 \notin ModeField
    BY DEF ModeField, User, Fiq, Irq, Supervisor, Abort, Undefined, System
  <1> QED
    BY <1>1, ZeroAssumption
    DEF InitCpu, Cpu, Context, Mode, CPU_USER, FieldAgrees, ctx

(* The current mode has a context.                                         *)
LEMMA CtxType ==
  ASSUME NEW c \in Cpu
  PROVE  ctx(c) \in Context /\ c.mode \in Mode
  BY DEF Cpu, ctx

(* LoadMode: the context it leaves current, and that its cpsr names that   *)
(* mode if the field names one.                                            *)
LEMMA LoadModeFacts ==
  ASSUME NEW c \in Cpu, NEW field \in AnyField
  PROVE  LET d == LoadMode(c, field)
         IN /\ d \in Cpu
            /\ d.mode = IF field \in ModeField THEN cpumode(field) ELSE c.mode
            /\ field \in ModeField => FieldAgrees(d)
  <1> DEFINE e == SetCpsr(c, field, NoFlag, {"mode"})
             x == [regs |-> ctx(c).regs, field |-> field,
                   flags |-> ctx(c).flags, x86_flags |-> ctx(c).x86_flags]
             new == cpumode(field)
             moves == field \in ModeField /\ new # c.mode
             y == [e.context[new] EXCEPT !.regs = Registers(e, new),
                     !.field = ctx(e).field, !.flags = ctx(e).flags]
             d == LoadMode(c, field)
  <1>1. x \in Context /\ x.field = field /\ c.mode \in Mode
    BY CtxType DEF Context, AnyField
  <1>2. e = [c EXCEPT !.context[c.mode] = x]
    BY DEF SetCpsr
  <1> HIDE DEF x
  <1>3. e \in Cpu /\ e.mode = c.mode /\ ctx(e).field = field
    BY <1>1, <1>2 DEF Cpu, ctx
  <1>4. d = IF moves THEN Switch(e, new) ELSE e
    BY DEF LoadMode, loadcpsr
  <1> HIDE DEF e
  <1>5. CASE moves
    <2>1. new \in Mode
      BY <1>5, ModeType
    <2>2. Registers(e, new) \in [Reg -> Data]
      BY <1>3, <2>1 DEF Registers, ctx, Cpu, Context
    <2>3. y \in Context /\ y.field = field
      BY <1>3, <2>1, <2>2, CtxType DEF Cpu, Context
    <2>4. d = [mode |-> new, context |-> [e.context EXCEPT ![new] = y]]
      BY <1>4, <1>5 DEF Switch
    <2> HIDE DEF y, new, d
    <2>5. d \in Cpu /\ d.mode = new /\ ctx(d) = y
      BY <1>3, <2>1, <2>3, <2>4 DEF Cpu, ctx
    <2> QED BY <1>5, <2>3, <2>5 DEF FieldAgrees, new, d
  <1>6. CASE ~moves
    BY <1>3, <1>4, <1>6 DEF FieldAgrees
  <1> QED BY <1>5, <1>6

(* Every context keeps its type when one register file in it is replaced.  *)
LEMMA RegsReplaced ==
  ASSUME NEW c \in Cpu, NEW m \in Mode, NEW f \in [Reg -> Data]
  PROVE  LET d == [c EXCEPT !.context[m].regs = f]
         IN /\ d \in Cpu
            /\ d.mode = c.mode
            /\ ctx(d).field = ctx(c).field
  <1> DEFINE x == [c.context[m] EXCEPT !.regs = f]
             d == [c EXCEPT !.context[m].regs = f]
  <1>1. /\ c.mode \in Mode
        /\ c.context \in [Mode -> Context]
        /\ c = [mode |-> c.mode, context |-> c.context]
        /\ c.context[m] \in Context
    BY DEF Cpu
  <1>2. d = [mode |-> c.mode, context |-> [c.context EXCEPT ![m] = x]]
    BY <1>1
  <1>3. x \in Context /\ x.field = c.context[m].field
    BY <1>1 DEF Context
  <1> HIDE DEF x, d
  <1>4. /\ d.mode = c.mode
        /\ d.context = [c.context EXCEPT ![m] = x]
        /\ d \in Cpu
    BY <1>1, <1>2, <1>3 DEF Cpu
  <1> QED BY <1>1, <1>3, <1>4 DEF ctx, d

(* A whole context put back into the current mode.                         *)
LEMMA ContextReplaced ==
  ASSUME NEW c \in Cpu, NEW x \in Context
  PROVE  LET d == [c EXCEPT !.context[c.mode] = x]
         IN d \in Cpu /\ d.mode = c.mode /\ ctx(d) = x
  BY DEF Cpu, ctx

(* TypeOK and the whole strengthening hold initially.                      *)
LEMMA InitIInv == Init => IInv
  <1> SUFFICES ASSUME Init PROVE IInv
    OBVIOUS
  <1>1. /\ cpu = InitCpu /\ ebp = CPU_USER /\ backup = Frame /\ pc = "run"
        /\ signaled = {} /\ intr = {} /\ ~inside
        /\ start = [frame |-> Frame, mode |-> CPU_USER]
        /\ owed = [n \in Interrupts |-> 0]
    BY DEF Init
  <1>2. cpu \in Cpu /\ FieldAgrees(cpu) /\ CPU_USER \in Mode
    BY <1>1, InitCpuType DEF Mode, CPU_USER
  <1>3. Frame \in FrameType
    BY <1>1, <1>2, CtxType DEF Frame, FrameType
  <1>4. TypeOK
    <2>1. /\ inside \in BOOLEAN
          /\ REG_IME \in BOOLEAN
          /\ VBLK \in BOOLEAN
      BY DEF Init
    <2>2. /\ signaled \in SUBSET Interrupts
          /\ REG_IE \in SUBSET Interrupts
          /\ REG_IF \in SUBSET Interrupts
          /\ intr \in SUBSET Interrupts
          /\ owed \in [Interrupts -> 0 .. MaxOwed]
      BY DEF Init, MaxOwed
    <2>3. start \in [frame : FrameType, mode : Mode]
      BY <1>1, <1>2, <1>3
    <2> QED BY <1>1, <1>2, <1>3, <2>1, <2>2, <2>3 DEF TypeOK
  <1>5. cpu.mode = CPU_USER
    BY <1>1 DEF InitCpu
  <1> QED
    BY <1>1, <1>2, <1>4, <1>5
    DEF IInv, ContextRestored, InSync, Program, Phases, FrameKept,
        StartAgrees, PendingOwed, Pending

(* No step of any thread leaves the types.                                 *)
LEMMA TypeStep == TypeOK /\ PendingOwed /\ [Next]_vars => TypeOK'
  <1> SUFFICES ASSUME TypeOK, PendingOwed, [Next]_vars PROVE TypeOK'
    OBVIOUS
  <1>0. Frame \in FrameType /\ ctx(cpu) \in Context
    BY CtxType DEF TypeOK, Frame, FrameType
  <1>1. ASSUME NEW n \in Interrupts, fire(n) PROVE TypeOK'
    BY <1>1 DEF fire, TypeOK, context, MaxOwed
  <1>2. ASSUME Store PROVE TypeOK'
    BY <1>2 DEF Store, store32, TypeOK, context, history
  <1>3. ASSUME NEW r \in Reg, NEW v \in Data, Write(r, v) PROVE TypeOK'
    <2> DEFINE f == [cpu.context[ebp].regs EXCEPT ![r] = v]
    <2>1. cpu.context[ebp].regs \in [Reg -> Data]
      BY DEF TypeOK, Cpu, Context
    <2>2. f \in [Reg -> Data]
      BY <2>1
    <2>3. cpu' = [cpu EXCEPT !.context[ebp].regs = f]
      BY <1>3 DEF Write
    <2>4. cpu' \in Cpu
      BY <2>2, <2>3, RegsReplaced DEF TypeOK
    <2> QED BY <1>3, <2>4 DEF Write, TypeOK, registers, history
  <1>4. ASSUME NEW field \in Field, MSR_CPSR(field) PROVE TypeOK'
    <2>1. cpu' = LoadMode(cpu, field)
      BY <1>4 DEF MSR_CPSR
    <2>2. cpu' \in Cpu
      BY <2>1, LoadModeFacts DEF TypeOK, AnyField
    <2>3. cpu'.mode \in Mode
      BY <2>2 DEF Cpu
    <2> QED BY <1>4, <2>2, <2>3 DEF MSR_CPSR, TypeOK, registers, history
  <1>5. ASSUME poll_process PROVE TypeOK'
    <2>1. start' \in [frame : FrameType, mode : Mode]
      BY <1>5, <1>0 DEF poll_process, Poll, TypeOK, Cpu
    <2>2. intr' \in SUBSET Interrupts
      BY <1>5 DEF poll_process, Poll, Taken, TypeOK
    <2> QED
      BY <1>5, <2>1, <2>2 DEF poll_process, Poll, TypeOK, registers, context
  <1>6. ASSUME NEW n \in Interrupts, NEW addr \in Data,
               switch_and_invoke_old(n, addr)
        PROVE  TypeOK'
    <2> DEFINE irq == LoadMode(cpu, Irq)
               f == [r \in Reg |-> IF r = 15 THEN addr
                                   ELSE IF r = 14 THEN Return
                                   ELSE irq.context[irq.mode].regs[r]]
    <2>1. irq \in Cpu /\ irq.mode \in Mode
      BY LoadModeFacts, IrqMode, CtxType DEF TypeOK, AnyField
    <2> HIDE DEF irq
    <2>2. f \in [Reg -> Data]
      <3>1. irq.context[irq.mode].regs \in [Reg -> Data]
        BY <2>1 DEF Cpu, Context
      <3> QED BY <3>1, ReturnAssumption
    <2>3. cpu' = [irq EXCEPT !.context[irq.mode].regs = f] /\ ebp' = irq.mode
      BY <1>6 DEF switch_and_invoke_old, irq
    <2> HIDE DEF f
    <2>4. cpu' \in Cpu /\ ebp' \in Mode
      BY <2>1, <2>2, <2>3, RegsReplaced
    <2>5. owed[n] > 0
      BY <1>6 DEF switch_and_invoke_old, NextBit, PendingOwed, Pending
    <2>6. /\ intr' \in SUBSET Interrupts
          /\ owed' \in [Interrupts -> 0 .. MaxOwed]
          /\ REG_IF' \in SUBSET Interrupts
      BY <1>6, <2>5 DEF switch_and_invoke_old, TypeOK, MaxOwed
    <2> QED
      BY <1>0, <1>6, <2>4, <2>6 DEF switch_and_invoke_old, TypeOK
  <1>7. ASSUME HandlerReturns PROVE TypeOK'
    <2> DEFINE c == LoadMode(cpu, backup.context.field)
    <2>1. backup.context \in Context /\ backup.ebp \in Mode
      BY DEF TypeOK, FrameType
    <2>2. c \in Cpu
      <3>1. backup.context.field \in AnyField
        BY <2>1 DEF Context, AnyField
      <3> QED BY <3>1, LoadModeFacts DEF TypeOK
    <2> HIDE DEF c
    <2>3. cpu' = c \/ cpu' = [c EXCEPT !.context[c.mode] = backup.context]
      BY <1>7 DEF HandlerReturns, c
    <2>4. cpu' \in Cpu
      BY <2>1, <2>2, <2>3, ContextReplaced
    <2> QED
      BY <1>7, <2>1, <2>4 DEF HandlerReturns, TypeOK, registers, history
  <1>8. ASSUME PollReturns PROVE TypeOK'
    BY <1>8 DEF PollReturns, TypeOK, registers, context, history
  <1>9. CASE UNCHANGED vars
    BY <1>9 DEF vars, TypeOK, registers, context, history
  <1> QED
    BY <1>1, <1>2, <1>3, <1>4, <1>5, <1>6, <1>7, <1>8, <1>9
    DEF Next, Dispatch

(* A mode field the program or loadcpsr can have stored.                   *)
LEMMA CurrentField ==
  ASSUME TypeOK
  PROVE  /\ ctx(cpu) \in Context /\ ctx(cpu).field \in AnyField
         /\ cpu \in Cpu /\ cpu.mode \in Mode
         /\ Frame.context = ctx(cpu) /\ Frame.ebp = ebp
         /\ backup.context \in Context /\ backup.context.field \in AnyField
  <1>1. /\ ctx(cpu) \in Context /\ cpu \in Cpu /\ cpu.mode \in Mode
        /\ backup.context \in Context
    BY CtxType DEF TypeOK, FrameType
  <1> QED BY <1>1 DEF Context, AnyField, Frame

(* What a handler finds when it is started.                                *)
LEMMA HandlerStarts ==
  ASSUME IInv, NEW n \in Interrupts, NEW addr \in Data,
         switch_and_invoke_old(n, addr)
  PROVE  /\ cpu' \in Cpu /\ FieldAgrees(cpu)' /\ ebp' = cpu'.mode
         /\ backup' = start.frame
         /\ n \in intr /\ n \in REG_IE /\ owed[n] > 0
  <1> DEFINE irq == LoadMode(cpu, Irq)
             f == [r \in Reg |-> IF r = 15 THEN addr
                                 ELSE IF r = 14 THEN Return
                                 ELSE irq.context[irq.mode].regs[r]]
  <1>1. /\ irq \in Cpu /\ irq.mode \in Mode /\ FieldAgrees(irq)
    BY LoadModeFacts, IrqMode, CtxType DEF IInv, TypeOK, AnyField
  <1>2. cpu' = [irq EXCEPT !.context[irq.mode].regs = f] /\ ebp' = irq.mode
    BY DEF switch_and_invoke_old
  <1>3. f \in [Reg -> Data]
    <2>1. irq.context[irq.mode].regs \in [Reg -> Data]
      BY <1>1 DEF Cpu, Context
    <2> QED BY <2>1, ReturnAssumption
  <1> HIDE DEF irq, f
  <1>4. cpu' \in Cpu /\ cpu'.mode = irq.mode /\ ctx(cpu').field = ctx(irq).field
    BY <1>1, <1>2, <1>3, RegsReplaced
  <1>5. FieldAgrees(cpu)'
    BY <1>1, <1>4 DEF FieldAgrees
  <1>6. backup' = start.frame
    BY DEF switch_and_invoke_old, IInv, ContextRestored
  <1>7. n \in intr /\ n \in REG_IE /\ owed[n] > 0
    BY DEF switch_and_invoke_old, NextBit, IInv, PendingOwed, Pending
  <1> QED BY <1>2, <1>4, <1>5, <1>6, <1>7

(* What the interrupted program finds when a handler has returned.         *)
LEMMA HandlerRestores ==
  ASSUME IInv, HandlerReturns, pc' = "scan"
  PROVE  cpu'.mode = start.mode /\ Frame' = start.frame
  <1> DEFINE field == backup.context.field
             c == LoadMode(cpu, field)
  <1>1. pc = "handler" /\ backup = start.frame /\ TypeOK
    BY DEF HandlerReturns, IInv, FrameKept
  <1>2. field \in AnyField /\ backup.context \in Context /\ cpu \in Cpu
    BY <1>1, CurrentField
  <1>3. field \in ModeField /\ cpu' = [c EXCEPT !.context[c.mode] = backup.context]
    BY DEF HandlerReturns, InvalidMode
  <1> HIDE DEF field
  <1>4. c \in Cpu /\ c.mode = cpumode(field)
    BY <1>2, <1>3, LoadModeFacts
  <1> HIDE DEF c
  <1>5. cpu'.mode = c.mode /\ ctx(cpu') = backup.context
    BY <1>2, <1>3, <1>4, ContextReplaced
  <1>6. cpumode(field) = start.mode
    BY <1>1, <1>3 DEF IInv, StartAgrees, field
  <1>7. start.frame = [context |-> start.frame.context, ebp |-> start.frame.ebp]
    BY <1>1 DEF TypeOK, FrameType
  <1>8. ebp' = start.frame.ebp
    BY <1>1 DEF HandlerReturns
  <1> QED BY <1>1, <1>4, <1>5, <1>6, <1>7, <1>8 DEF Frame

(* Everything but the types, step by step.                                 *)
LEMMA InvStep == IInv /\ [Next]_vars => IInv'
  <1> SUFFICES ASSUME IInv, [Next]_vars PROVE IInv'
    OBVIOUS
  <1> DEFINE Rest == /\ ContextRestored' /\ InSync' /\ Phases' /\ FrameKept'
                     /\ StartAgrees' /\ PendingOwed'
  <1>0. TypeOK /\ TypeOK'
    BY TypeStep DEF IInv
  <1>1. ASSUME NEW n \in Interrupts, fire(n) PROVE Rest
    <2>1. /\ UNCHANGED <<inside, pc, intr, backup, cpu, ebp, start>>
          /\ signaled' = signaled \cup {n}
      BY <1>1 DEF fire, context
    <2>2. ContextRestored' /\ InSync' /\ Phases' /\ FrameKept' /\ StartAgrees'
      BY <2>1 DEF IInv, ContextRestored, InSync, Program, Phases, FrameKept,
                  StartAgrees, Frame, ctx, FieldAgrees
    <2>3. owed \in [Interrupts -> 0 .. 2] /\ signaled \subseteq Interrupts
          /\ intr \subseteq Interrupts
      BY <1>0 DEF TypeOK, MaxOwed
    <2>4. owed' = [owed EXCEPT ![n] = IF @ < 2 THEN @ + 1 ELSE @]
      BY <1>1 DEF fire, MaxOwed
    <2>5. PendingOwed'
      BY <2>1, <2>3, <2>4 DEF IInv, PendingOwed, Pending
    <2> QED BY <2>2, <2>5
  <1>2. ASSUME Store PROVE Rest
    <2>1. UNCHANGED <<signaled, inside, pc, intr, backup, cpu, ebp, owed, start>>
      BY <1>2 DEF Store, store32, context, history
    <2> QED
      BY <2>1 DEF IInv, ContextRestored, InSync, Program, Phases, FrameKept,
                  StartAgrees, Frame, ctx, FieldAgrees, PendingOwed, Pending
  <1>3. ASSUME NEW r \in Reg, NEW v \in Data, Write(r, v) PROVE Rest
    <2> DEFINE f == [cpu.context[ebp].regs EXCEPT ![r] = v]
    <2>1. /\ UNCHANGED <<signaled, inside, pc, intr, backup, ebp, owed, start>>
          /\ pc \in {"run", "handler"}
      BY <1>3 DEF Write, Program, history
    <2>2. /\ cpu \in Cpu /\ ebp \in Mode
          /\ cpu.context[ebp].regs \in [Reg -> Data]
      BY <1>0 DEF TypeOK, Cpu, Context
    <2>3. f \in [Reg -> Data] /\ cpu' = [cpu EXCEPT !.context[ebp].regs = f]
      BY <1>3, <2>2 DEF Write
    <2>4. cpu'.mode = cpu.mode /\ ctx(cpu').field = ctx(cpu).field
      BY <2>2, <2>3, RegsReplaced
    <2>5. InSync'
      BY <2>1, <2>4 DEF IInv, InSync, Program, FieldAgrees
    <2> QED
      BY <2>1, <2>5 DEF IInv, ContextRestored, Phases, FrameKept, StartAgrees,
                        PendingOwed, Pending
  <1>4. ASSUME NEW field \in Field, MSR_CPSR(field) PROVE Rest
    <2>1. /\ UNCHANGED <<signaled, inside, intr, backup, owed, start>>
          /\ pc \in {"run", "handler"}
          /\ cpu' = LoadMode(cpu, field)
          /\ IF field \in ModeField THEN pc' = pc /\ ebp' = cpu'.mode
             ELSE pc' = "broken"
      BY <1>4 DEF MSR_CPSR, Program, history, InvalidMode
    <2>2. field \in ModeField => FieldAgrees(cpu')
      BY <1>0, <2>1, LoadModeFacts DEF TypeOK, AnyField
    <2>3. InSync'
      BY <2>1, <2>2 DEF InSync, Program
    <2> QED
      BY <2>1, <2>3 DEF IInv, ContextRestored, Phases, FrameKept, StartAgrees,
                        PendingOwed, Pending
  <1>5. ASSUME poll_process PROVE Rest
    <2>1. /\ UNCHANGED <<inside, backup, cpu, ebp, owed>>
          /\ pc \in {"run", "handler"} /\ ~inside
          /\ pc' = "scan" /\ signaled' = {} /\ intr' \subseteq signaled
          /\ start' = [frame |-> Frame, mode |-> cpu.mode]
      BY <1>5 DEF poll_process, Poll, Taken, Program, context
    <2>2. ContextRestored' /\ FrameKept' /\ PendingOwed'
      BY <2>1 DEF IInv, ContextRestored, FrameKept, PendingOwed, Pending,
                  Frame, ctx
    <2>3. Phases' /\ InSync'
      BY <2>1 DEF IInv, Phases, InSync, Program
    <2>4. StartAgrees'
      BY <1>0, <2>1, CurrentField
      DEF IInv, InSync, Program, StartAgrees, FieldAgrees
    <2> QED BY <2>2, <2>3, <2>4
  <1>6. ASSUME NEW n \in Interrupts, NEW addr \in Data,
               switch_and_invoke_old(n, addr)
        PROVE  Rest
    <2>1. /\ UNCHANGED <<signaled, start>>
          /\ pc = "scan" /\ pc' = "handler" /\ inside'
          /\ intr' = {k \in intr : k > n}
          /\ owed' = [owed EXCEPT ![n] = @ - 1]
      BY <1>6 DEF switch_and_invoke_old
    <2>2. ContextRestored' /\ InSync' /\ FrameKept' /\ StartAgrees'
      BY <1>6, <2>1, HandlerStarts
      DEF IInv, ContextRestored, InSync, FrameKept, StartAgrees
    <2>3. Phases'
      BY <2>1 DEF Phases
    <2>4. /\ owed \in [Interrupts -> 0 .. 2] /\ signaled \subseteq Interrupts
          /\ intr \subseteq Interrupts /\ n \in 0 .. 31
          /\ Interrupts \subseteq Int
      BY <1>0, InterruptAssumption DEF TypeOK, MaxOwed, Interrupts
    <2>5. n \in intr
      BY <1>6, HandlerStarts
    <2>6. PendingOwed'
      BY <2>1, <2>4, <2>5 DEF IInv, PendingOwed, Pending
    <2> QED BY <2>2, <2>3, <2>6
  <1>7. ASSUME HandlerReturns PROVE Rest
    <2>1. /\ UNCHANGED <<signaled, intr, backup, owed, start>>
          /\ pc = "handler" /\ pc' \in {"scan", "broken"} /\ ~inside'
      BY <1>7 DEF HandlerReturns, history
    <2>2. ContextRestored'
      BY <1>7, <2>1, HandlerRestores DEF ContextRestored
    <2> QED
      BY <2>1, <2>2 DEF IInv, InSync, Program, Phases, FrameKept, StartAgrees,
                        PendingOwed, Pending
  <1>8. ASSUME PollReturns PROVE Rest
    <2>1. /\ UNCHANGED <<signaled, inside, backup, cpu, ebp, owed, start>>
          /\ pc = "scan" /\ pc' = "run" /\ intr' = {}
      BY <1>8 DEF PollReturns, context, history
    <2>2. cpu.mode = start.mode /\ Frame = start.frame
      BY <2>1 DEF IInv, ContextRestored
    <2>3. InSync'
      BY <1>0, <2>1, <2>2, CurrentField
      DEF IInv, StartAgrees, InSync, FieldAgrees, ctx
    <2> QED
      BY <2>1, <2>3 DEF IInv, ContextRestored, Phases, FrameKept, StartAgrees,
                        PendingOwed, Pending
  <1>9. ASSUME UNCHANGED vars PROVE Rest
    <2>1. UNCHANGED <<signaled, inside, pc, intr, backup, cpu, ebp, owed, start>>
      BY <1>9 DEF vars, context, history
    <2> QED
      BY <2>1 DEF IInv, ContextRestored, InSync, Program, Phases, FrameKept,
                  StartAgrees, Frame, ctx, FieldAgrees, PendingOwed, Pending
  <1>10. Rest
    BY <1>1, <1>2, <1>3, <1>4, <1>5, <1>6, <1>7, <1>8, <1>9 DEF Next, Dispatch
  <1> QED BY <1>0, <1>10 DEF IInv
-----------------------------------------------------------------------------
(* The strengthening is an invariant.                                      *)
THEOREM Inductive == Spec => []IInv
  BY InitIInv, InvStep, PTL DEF Spec

(* Type correctness.                                                       *)
THEOREM TypeCorrect == Spec => []TypeOK
  <1>1. IInv => TypeOK
    BY DEF IInv
  <1> QED BY <1>1, Inductive, PTL

(* poll_process and the handlers it calls leave no trace in the context of *)
(* the program they interrupt.                                             *)
THEOREM ContextIsRestored == Spec => []ContextRestored
  <1>1. IInv => ContextRestored
    BY DEF IInv
  <1> QED BY <1>1, Inductive, PTL

(* Generated code never works on a context that is not current.            *)
THEOREM StaysInSync == Spec => []InSync
  <1>1. IInv => InSync
    BY DEF IInv
  <1> QED BY <1>1, Inductive, PTL

(* A step that starts a handler is the dispatch of one interrupt.          *)
LEMMA StartsHandler ==
  ASSUME IInv, [Next]_vars, pc = "scan", pc' = "handler"
  PROVE  \E n \in Interrupts, addr \in Data : switch_and_invoke_old(n, addr)
  <1>1. ASSUME NEW n \in Interrupts PROVE ~fire(n)
    BY DEF fire
  <1>2. ~Store
    BY DEF Store, store32, Program
  <1>3. ASSUME NEW r \in Reg, NEW v \in Data PROVE ~Write(r, v)
    BY DEF Write, Program
  <1>4. ASSUME NEW field \in Field PROVE ~MSR_CPSR(field)
    BY DEF MSR_CPSR, Program
  <1>5. ~poll_process /\ ~HandlerReturns /\ ~PollReturns /\ ~UNCHANGED vars
    BY DEF poll_process, Poll, Program, HandlerReturns, PollReturns, vars
  <1> QED BY <1>1, <1>2, <1>3, <1>4, <1>5 DEF Next, Dispatch

(* Handlers run for enabled interrupts only, at most once per fire.        *)
THEOREM DispatchIsJustified == Spec => DispatchJustified
  <1>1. IInv /\ [Next]_vars
          => [pc = "scan" /\ pc' = "handler"
                => \E n \in REG_IE : REG_IF' = {n} /\ owed[n] > 0]_vars
    <2> SUFFICES ASSUME IInv, [Next]_vars, pc = "scan", pc' = "handler"
                 PROVE  \E n \in REG_IE : REG_IF' = {n} /\ owed[n] > 0
      OBVIOUS
    <2>1. PICK n \in Interrupts, addr \in Data : switch_and_invoke_old(n, addr)
      BY StartsHandler
    <2>2. REG_IF' = {n}
      BY <2>1 DEF switch_and_invoke_old
    <2>3. n \in REG_IE /\ owed[n] > 0
      BY <2>1, HandlerStarts
    <2> QED BY <2>2, <2>3
  <1> QED BY <1>1, Inductive, PTL DEF Spec, DispatchJustified

(* No interrupt that is enabled is lost, whenever it is fired.             *)
THEOREM EnabledAreKept == Spec => KeptIfEnabled
  <1> DEFINE Kept == \A k \in Pending \ Pending' :
                       \/ k \notin REG_IE
                       \/ pc' = "handler" /\ REG_IF' = {k}
  <1>1. IInv /\ [Next]_vars => Kept
    <2> SUFFICES ASSUME IInv, [Next]_vars PROVE Kept
      OBVIOUS
    <2>1. ASSUME NEW n \in Interrupts, fire(n) PROVE Kept
      BY <2>1 DEF fire, Pending
    <2>2. ASSUME Store PROVE Kept
      BY <2>2 DEF Store, store32, Pending
    <2>3. ASSUME NEW r \in Reg, NEW v \in Data, Write(r, v) PROVE Kept
      BY <2>3 DEF Write, Pending
    <2>4. ASSUME NEW field \in Field, MSR_CPSR(field) PROVE Kept
      BY <2>4 DEF MSR_CPSR, Pending
    <2>5. ASSUME poll_process PROVE Kept
      <3>1. pc = "run"
        BY <2>5 DEF poll_process, Poll, Program, IInv, Phases
      <3>2. intr = {}
        BY <3>1 DEF IInv, Phases
      <3> QED BY <2>5, <3>2 DEF poll_process, Poll, Taken, Pending
    <2>6. ASSUME NEW n \in Interrupts, NEW addr \in Data,
                 switch_and_invoke_old(n, addr)
          PROVE  Kept
      <3>1. /\ UNCHANGED signaled
            /\ intr' = {k \in intr : k > n}
            /\ \A k \in intr \cap REG_IE : n <= k
            /\ pc' = "handler" /\ REG_IF' = {n}
        BY <2>6 DEF switch_and_invoke_old, NextBit
      <3>2. intr \subseteq Int /\ n \in Int
        BY InterruptAssumption DEF IInv, TypeOK, Interrupts
      <3> SUFFICES ASSUME NEW k \in Pending \ Pending', k \in REG_IE
                   PROVE  pc' = "handler" /\ REG_IF' = {k}
        OBVIOUS
      <3>3. k \in intr /\ k \notin intr'
        BY <3>1 DEF Pending
      <3>4. k \in Int /\ n <= k /\ ~(k > n)
        BY <3>1, <3>2, <3>3
      <3>5. k = n
        BY <3>2, <3>4
      <3> QED BY <3>1, <3>5
    <2>7. ASSUME HandlerReturns PROVE Kept
      BY <2>7 DEF HandlerReturns, Pending
    <2>8. ASSUME PollReturns PROVE Kept
      BY <2>8 DEF PollReturns, Pending
    <2>9. ASSUME UNCHANGED vars PROVE Kept
      BY <2>9 DEF vars, Pending
    <2> HIDE DEF Kept
    <2> QED
      BY <2>1, <2>2, <2>3, <2>4, <2>5, <2>6, <2>7, <2>8, <2>9
      DEF Next, Dispatch
  <1>2. IInv /\ [Next]_vars
          => [\A n \in Pending \ Pending' :
                \/ n \notin REG_IE
                \/ pc' = "handler" /\ REG_IF' = {n}]_vars
    BY <1>1
  <1> HIDE DEF Kept
  <1> QED BY <1>2, Inductive, PTL DEF Spec, KeptIfEnabled
=============================================================================
