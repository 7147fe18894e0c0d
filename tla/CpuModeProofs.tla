---------------------------- MODULE CpuModeProofs ----------------------------
(* The contexts implement the ARM register file, for any registers of it   *)
(* and any program.                                                        *)
EXTENDS CpuMode, TLAPS

(* Lemmas about loadcpsr.                                                  *)
AnyField == Field \cup ModeField \cup {0}

(* Every mode field that loadcpsr knows names one of the six modes.        *)
LEMMA ModeType == \A field \in ModeField : cpumode(field) \in Mode
  BY DEF cpumode, Mode, ModeField, User, Fiq, Irq, Supervisor, Abort,
         Undefined, System, CPU_USER, CPU_SUPERVISOR, CPU_ABORT,
         CPU_UNDEFINED, CPU_INTERRUPT, CPU_FASTINT

(* The mode that poll_process enters for a handler is one that loadcpsr    *)
(* knows.                                                                  *)
LEMMA IrqMode == Irq \in ModeField /\ cpumode(Irq) = CPU_INTERRUPT /\ CPU_INTERRUPT \in Mode
  BY DEF cpumode, Mode, ModeField, Fiq, Irq, CPU_INTERRUPT,
         User, Supervisor, Abort, Undefined, System

(* What the static initialisation leaves is a state of the processor.      *)
LEMMA InitCpuType == InitCpu \in Cpu /\ FieldAgrees(InitCpu)
  <1>1. 0 \notin ModeField
    BY DEF ModeField, User, Fiq, Irq, Supervisor, Abort, Undefined, System
  <1> QED
    BY <1>1, ZeroAssumption
    DEF InitCpu, Cpu, Context, Mode, CPU_USER, FieldAgrees, ctx

(* The current mode has a context.                                         *)
LEMMA CtxType ==
  ASSUME NEW c \in Cpu
  PROVE  ctx(c) \in Context /\ c.mode \in Mode
  BY DEF Cpu, ctx

(* The first half of loadcpsr: only the current context's cpsr and flags   *)
(* change.                                                                 *)
LEMMA SetCpsrFacts ==
  ASSUME NEW c \in Cpu, NEW field \in AnyField, NEW flags \in Flag, NEW mask
  PROVE  LET d == SetCpsr(c, field, flags, mask)
         IN /\ d \in Cpu
            /\ d.mode = c.mode
            /\ \A m \in Mode : d.context[m].regs = c.context[m].regs
            /\ \A m \in Mode : m # c.mode => d.context[m] = c.context[m]
            /\ ctx(d).field = IF "mode" \in mask THEN field ELSE ctx(c).field
  <1> DEFINE d == SetCpsr(c, field, flags, mask)
             x == [regs |-> ctx(c).regs,
                   field |-> IF "mode" \in mask THEN field ELSE ctx(c).field,
                   flags |-> IF "flags" \in mask THEN flags ELSE ctx(c).flags,
                   x86_flags |-> IF "flags" \in mask THEN flags
                                 ELSE ctx(c).x86_flags]
  <1>1. /\ c.mode \in Mode
        /\ c.context \in [Mode -> Context]
        /\ c = [mode |-> c.mode, context |-> c.context]
        /\ ctx(c) \in Context
    BY CtxType DEF Cpu
  <1>2. /\ x \in Context
        /\ x.regs = ctx(c).regs
        /\ x.field = IF "mode" \in mask THEN field ELSE ctx(c).field
    BY <1>1 DEF Context, AnyField
  <1>3. d = [mode |-> c.mode, context |-> [c.context EXCEPT ![c.mode] = x]]
    BY <1>1 DEF SetCpsr
  <1> HIDE DEF d, x
  <1>4. /\ d.mode = c.mode
        /\ d.context \in [Mode -> Context]
        /\ d.context = [c.context EXCEPT ![c.mode] = x]
    BY <1>1, <1>2, <1>3
  <1>5. d \in Cpu
    BY <1>3, <1>4, <1>1 DEF Cpu
  <1> QED BY <1>1, <1>2, <1>4, <1>5 DEF ctx, d

(* The second half: the entered context gets the copied registers and the  *)
(* cpsr, no other context changes.                                         *)
LEMMA SwitchFacts ==
  ASSUME NEW c \in Cpu, NEW new \in Mode
  PROVE  LET d == Switch(c, new)
         IN /\ d \in Cpu
            /\ d.mode = new
            /\ d.context[new].regs = Registers(c, new)
            /\ \A m \in Mode : m # new => d.context[m] = c.context[m]
            /\ ctx(d).field = ctx(c).field
  <1> DEFINE d == Switch(c, new)
             q == Registers(c, new)
             x == [c.context[new] EXCEPT !.regs = q,
                     !.field = ctx(c).field, !.flags = ctx(c).flags]
  <1>1. /\ c.mode \in Mode
        /\ c.context \in [Mode -> Context]
        /\ ctx(c) \in Context
        /\ c.context[new] \in Context
    BY CtxType DEF Cpu
  <1>2. q \in [Reg -> Data]
    <2>1. ctx(c).regs \in [Reg -> Data] /\ c.context[new].regs \in [Reg -> Data]
      BY <1>1 DEF Context
    <2> QED BY <2>1 DEF Registers
  <1>3. d = [mode |-> new, context |-> [c.context EXCEPT ![new] = x]]
    BY <1>1 DEF Switch
  <1> HIDE DEF d, q
  <1>4. x \in Context /\ x.regs = q /\ x.field = ctx(c).field
    BY <1>1, <1>2 DEF Context
  <1> HIDE DEF x
  <1>5. /\ d.mode = new
        /\ d.context \in [Mode -> Context]
        /\ d.context = [c.context EXCEPT ![new] = x]
    BY <1>1, <1>3, <1>4
  <1>6. d \in Cpu
    BY <1>3, <1>5 DEF Cpu
  <1> QED BY <1>1, <1>4, <1>5, <1>6 DEF ctx, d, q

(* loadcpsr as a whole: which mode it leaves current, that the cpsr of the *)
(* current context names that mode, and which registers it copies.         *)
LEMMA LoadCpsrFacts ==
  ASSUME NEW c \in Cpu, NEW field \in AnyField, NEW flags \in Flag, NEW mask
  PROVE  LET d == loadcpsr(c, field, flags, mask)
         IN /\ d \in Cpu
            /\ d.mode = IF "mode" \in mask /\ field \in ModeField
                        THEN cpumode(field) ELSE c.mode
            /\ FieldAgrees(c) /\ ~InvalidMode(field, mask) => FieldAgrees(d)
            /\ "mode" \in mask /\ field \in ModeField => FieldAgrees(d)
            /\ d.mode # c.mode => d.context[d.mode].regs = Registers(c, d.mode)
            /\ \A m \in Mode : m # d.mode \/ d.mode = c.mode =>
                 d.context[m].regs = c.context[m].regs
            /\ "mode" \notin mask => ctx(d).field = ctx(c).field
            /\ "mode" \in mask => ctx(d).field = field
  <1> DEFINE e == SetCpsr(c, field, flags, mask)
             d == loadcpsr(c, field, flags, mask)
             moves == /\ "mode" \in mask
                      /\ field \in ModeField
                      /\ cpumode(field) # c.mode
  <1>1. /\ e \in Cpu
        /\ e.mode = c.mode
        /\ \A m \in Mode : e.context[m].regs = c.context[m].regs
        /\ ctx(e).field = IF "mode" \in mask THEN field ELSE ctx(c).field
    BY SetCpsrFacts
  <1>2. c.mode \in Mode
    BY CtxType
  <1>3. d = IF moves THEN Switch(e, cpumode(field)) ELSE e
    BY DEF loadcpsr
  <1> HIDE DEF d, e
  <1>4. CASE moves
    <2> DEFINE new == cpumode(field)
    <2>1. new \in Mode /\ new # c.mode
      BY <1>4, ModeType
    <2>2. d = Switch(e, new)
      BY <1>3, <1>4
    <2> HIDE DEF new
    <2>3. /\ d \in Cpu
          /\ d.mode = new
          /\ d.context[new].regs = Registers(e, new)
          /\ \A m \in Mode : m # new => d.context[m] = e.context[m]
          /\ ctx(d).field = ctx(e).field
      BY <1>1, <2>1, <2>2, SwitchFacts
    <2>4. Registers(e, new) = Registers(c, new)
      <3>1. ctx(e).regs = ctx(c).regs
        BY <1>1, <1>2 DEF ctx
      <3>2. e.context[new].regs = c.context[new].regs
        BY <1>1, <2>1
      <3> QED BY <1>1, <3>1, <3>2 DEF Registers
    <2>5. \A m \in Mode : m # new => d.context[m].regs = c.context[m].regs
      BY <1>1, <2>3
    <2>6. ctx(d).field = field
      BY <1>1, <1>4, <2>3
    <2>7. FieldAgrees(d)
      BY <1>4, <2>3, <2>6 DEF FieldAgrees, new
    <2>8. d.mode = cpumode(field)
      BY <2>3 DEF new
    <2> QED
      BY <1>4, <2>1, <2>3, <2>4, <2>5, <2>6, <2>7, <2>8 DEF d
  <1>5. CASE ~moves
    <2>1. d = e
      BY <1>3, <1>5
    <2>2. ctx(d).field = IF "mode" \in mask THEN field ELSE ctx(c).field
      BY <1>1, <2>1
    <2>3. FieldAgrees(c) /\ ~InvalidMode(field, mask) => FieldAgrees(d)
      BY <1>1, <1>5, <2>1, <2>2 DEF FieldAgrees, InvalidMode
    <2>4. "mode" \in mask /\ field \in ModeField => FieldAgrees(d)
      BY <1>1, <1>5, <2>1, <2>2 DEF FieldAgrees
    <2>5. d.mode = IF "mode" \in mask /\ field \in ModeField
                   THEN cpumode(field) ELSE c.mode
      BY <1>1, <1>5, <2>1
    <2>6. d \in Cpu /\ d.mode = c.mode
      BY <1>1, <2>1
    <2>7. \A m \in Mode : d.context[m].regs = c.context[m].regs
      BY <1>1, <2>1
    <2> QED
      BY <2>2, <2>3, <2>4, <2>5, <2>6, <2>7 DEF d
  <1> QED BY <1>4, <1>5

(* The same for a store to the mode field alone.                           *)
LEMMA LoadModeFacts ==
  ASSUME NEW c \in Cpu, NEW field \in AnyField
  PROVE  LET d == LoadMode(c, field)
         IN /\ d \in Cpu
            /\ d.mode = IF field \in ModeField THEN cpumode(field) ELSE c.mode
            /\ field \in ModeField => FieldAgrees(d)
            /\ d.mode # c.mode => d.context[d.mode].regs = Registers(c, d.mode)
            /\ \A m \in Mode : m # d.mode \/ d.mode = c.mode =>
                 d.context[m].regs = c.context[m].regs
            /\ ctx(d).field = field
  <1> DEFINE mask == {"mode"}
             d == LoadMode(c, field)
  <1>1. d = loadcpsr(c, field, NoFlag, mask) /\ "mode" \in mask
    BY DEF LoadMode
  <1> HIDE DEF d, mask
  <1>2. /\ d \in Cpu
        /\ d.mode = IF field \in ModeField THEN cpumode(field) ELSE c.mode
        /\ field \in ModeField => FieldAgrees(d)
        /\ d.mode # c.mode => d.context[d.mode].regs = Registers(c, d.mode)
        /\ \A m \in Mode : m # d.mode \/ d.mode = c.mode =>
             d.context[m].regs = c.context[m].regs
        /\ ctx(d).field = field
    BY <1>1, LoadCpsrFacts, ZeroAssumption
  <1> QED BY <1>2 DEF d
-----------------------------------------------------------------------------
(* The invariant: beyond the types and the sync, fast interrupt mode is    *)
(* never recorded as entered from itself.                                  *)
Inv == TypeOK /\ InSync /\ home # CPU_FASTINT

(* Which registers loadcpsr copies on a switch, read off mode_regs.        *)
LEMMA CopiedRegs ==
  ASSUME NEW old \in Mode, NEW new \in Mode, old # new, NEW r \in Reg
  PROVE  Copied(r, old, new) <=>
           \/ r < 8 \/ r = 15
           \/ r < 13 /\ old # CPU_FASTINT /\ new # CPU_FASTINT
  BY RegAssumption DEF Copied, mode_regs, Mode, CPU_FASTINT, CPU_USER

(* A write to some registers of one context touches no other context, no   *)
(* mode and no cpsr.                                                       *)
LEMMA AssignFacts ==
  ASSUME NEW c \in Cpu, NEW m \in Mode, NEW list, NEW v \in Data
  PROVE  LET d == Assign(c, m, list, v)
         IN /\ d \in Cpu /\ d.mode = c.mode /\ ctx(d).field = ctx(c).field
            /\ \A x \in Mode, r \in Reg :
                 d.context[x].regs[r] = IF x = m /\ r \in list THEN v
                                        ELSE c.context[x].regs[r]
  <1> DEFINE f == [r \in Reg |-> IF r \in list THEN v ELSE c.context[m].regs[r]]
             x == [c.context[m] EXCEPT !.regs = f]
             d == Assign(c, m, list, v)
  <1>1. /\ c.mode \in Mode
        /\ c.context \in [Mode -> Context]
        /\ c = [mode |-> c.mode, context |-> c.context]
        /\ c.context[m] \in Context
        /\ c.context[m].regs \in [Reg -> Data]
    BY DEF Cpu, Context
  <1>2. d = [mode |-> c.mode, context |-> [c.context EXCEPT ![m] = x]]
    BY <1>1 DEF Assign
  <1>3. f \in [Reg -> Data]
    BY <1>1
  <1> HIDE DEF d
  <1>4. x \in Context /\ x.field = c.context[m].field /\ x.regs = f
    <2> HIDE DEF f
    <2> QED BY <1>1, <1>3 DEF Context
  <1> HIDE DEF x
  <1>5. /\ d.mode = c.mode
        /\ d.context = [c.context EXCEPT ![m] = x]
        /\ d \in Cpu
    BY <1>1, <1>2, <1>4 DEF Cpu
  <1>6. \A y \in Mode : d.context[y] = IF y = m THEN x ELSE c.context[y]
    BY <1>1, <1>5
  <1> QED BY <1>1, <1>4, <1>5, <1>6 DEF ctx, d

(* The registers of every context after loadcpsr.                          *)
LEMMA RegsAfterLoad ==
  ASSUME NEW c \in Cpu, NEW field \in AnyField, NEW flags \in Flag, NEW mask
  PROVE  LET d == loadcpsr(c, field, flags, mask)
         IN \A x \in Mode, r \in Reg :
              d.context[x].regs[r] =
                IF x = d.mode /\ x # c.mode /\ Copied(r, c.mode, x)
                THEN c.context[c.mode].regs[r] ELSE c.context[x].regs[r]
  <1> DEFINE d == loadcpsr(c, field, flags, mask)
  <1>1. /\ d.mode # c.mode => d.context[d.mode].regs = Registers(c, d.mode)
        /\ \A m \in Mode : m # d.mode \/ d.mode = c.mode =>
             d.context[m].regs = c.context[m].regs
    BY LoadCpsrFacts
  <1> HIDE DEF d
  <1> SUFFICES ASSUME NEW x \in Mode, NEW r \in Reg
               PROVE  d.context[x].regs[r] =
                        IF x = d.mode /\ x # c.mode /\ Copied(r, c.mode, x)
                        THEN c.context[c.mode].regs[r] ELSE c.context[x].regs[r]
    BY DEF d
  <1>2. CASE x = d.mode /\ x # c.mode
    <2>1. d.context[x].regs[r] = Registers(c, x)[r]
      BY <1>1, <1>2
    <2> QED BY <1>2, <2>1 DEF Registers, ctx
  <1>3. CASE ~(x = d.mode /\ x # c.mode)
    BY <1>1, <1>3
  <1> QED BY <1>2, <1>3

-----------------------------------------------------------------------------
(* LDM with the S bit: the mode is back, and only user's registers are     *)
(* loaded, whichever way the two switches copied them.                     *)
LEMMA LdmFacts ==
  ASSUME Inv, NEW list \in SUBSET Reg, NEW v \in Data, LDM_S(list, v)
  PROVE  /\ cpu' \in Cpu /\ cpu'.mode = cpu.mode
         /\ ~broken' => FieldAgrees(cpu')
         /\ \A x \in Mode, r \in Reg :
              cpu'.context[x].regs[r] =
                LET user == IF r \in list THEN v
                            ELSE IF /\ cpu.mode # CPU_USER
                                    /\ Copied(r, cpu.mode, CPU_USER)
                                 THEN cpu.context[cpu.mode].regs[r]
                                 ELSE cpu.context[CPU_USER].regs[r]
                IN IF \/ x = CPU_USER
                      \/ /\ x = cpu.mode
                         /\ Copied(r, CPU_USER, x)
                   THEN user ELSE cpu.context[x].regs[r]
  <1> DEFINE m == cpu.mode
             saved == ctx(cpu).field
             u == LoadMode(cpu, User)
             a == Assign(u, u.mode, list, v)
             d == LoadMode(a, saved)
  <1>1. cpu \in Cpu /\ m \in Mode /\ saved \in AnyField
    BY CtxType DEF Inv, TypeOK, Context, AnyField
  <1>2. cpu' = d /\ broken' = (saved \notin ModeField) /\ FieldAgrees(cpu)
    <2>1. cpu.context[ebp].field = saved
      BY DEF LDM_S, Inv, InSync, ctx
    <2> QED BY <2>1 DEF LDM_S, InvalidMode, Inv, InSync
  <1>3. User \in ModeField /\ cpumode(User) = CPU_USER /\ CPU_USER \in Mode
    BY ModeType DEF ModeField, cpumode, User, Fiq, Irq, Supervisor, Abort,
                    Undefined, System
  <1>4. u \in Cpu /\ u.mode = CPU_USER
    BY <1>1, <1>3, LoadModeFacts DEF AnyField
  <1>5. \A x \in Mode, r \in Reg :
          u.context[x].regs[r] =
            IF x = CPU_USER /\ x # m /\ Copied(r, m, x)
            THEN cpu.context[m].regs[r] ELSE cpu.context[x].regs[r]
    <2>1. User \in AnyField /\ NoFlag \in Flag
      BY <1>3, ZeroAssumption DEF AnyField
    <2>2. u = loadcpsr(cpu, User, NoFlag, {"mode"})
      BY DEF LoadMode
    <2> HIDE DEF u
    <2> QED BY <1>1, <1>4, <2>1, <2>2, RegsAfterLoad
  <1> HIDE DEF u
  <1>6. /\ a \in Cpu /\ a.mode = CPU_USER
        /\ \A x \in Mode, r \in Reg :
             a.context[x].regs[r] = IF x = CPU_USER /\ r \in list THEN v
                                    ELSE u.context[x].regs[r]
    <2>1. a = Assign(u, CPU_USER, list, v)
      BY <1>4
    <2> HIDE DEF a
    <2>2. LET b == Assign(u, CPU_USER, list, v)
          IN /\ b \in Cpu /\ b.mode = u.mode
             /\ \A x \in Mode, r \in Reg :
                  b.context[x].regs[r] = IF x = CPU_USER /\ r \in list THEN v
                                         ELSE u.context[x].regs[r]
      BY <1>3, <1>4, AssignFacts
    <2> QED BY <1>4, <2>1, <2>2
  <1> HIDE DEF a
  <1>7. /\ d \in Cpu
        /\ d.mode = IF saved \in ModeField THEN cpumode(saved) ELSE CPU_USER
        /\ saved \in ModeField => FieldAgrees(d)
    BY <1>1, <1>6, LoadModeFacts
  <1>8. d.mode = m
    BY <1>2, <1>7 DEF FieldAgrees
  <1>9. \A x \in Mode, r \in Reg :
          d.context[x].regs[r] =
            IF x = m /\ x # CPU_USER /\ Copied(r, CPU_USER, x)
            THEN a.context[CPU_USER].regs[r] ELSE a.context[x].regs[r]
    <2>1. NoFlag \in Flag
      BY ZeroAssumption
    <2>2. d = loadcpsr(a, saved, NoFlag, {"mode"})
      BY DEF LoadMode
    <2> HIDE DEF d
    <2> QED BY <1>1, <1>6, <1>8, <2>1, <2>2, RegsAfterLoad
  <1> HIDE DEF d, saved, m
  <1>10. \A x \in Mode, r \in Reg :
           d.context[x].regs[r] =
             LET user == IF r \in list THEN v
                         ELSE IF m # CPU_USER /\ Copied(r, m, CPU_USER)
                              THEN cpu.context[m].regs[r]
                              ELSE cpu.context[CPU_USER].regs[r]
             IN IF x = CPU_USER \/ (x = m /\ Copied(r, CPU_USER, x))
                THEN user ELSE cpu.context[x].regs[r]
    <2> SUFFICES ASSUME NEW x \in Mode, NEW r \in Reg
                 PROVE  d.context[x].regs[r] =
                          LET user == IF r \in list THEN v
                                      ELSE IF m # CPU_USER /\ Copied(r, m, CPU_USER)
                                           THEN cpu.context[m].regs[r]
                                           ELSE cpu.context[CPU_USER].regs[r]
                          IN IF x = CPU_USER \/ (x = m /\ Copied(r, CPU_USER, x))
                             THEN user ELSE cpu.context[x].regs[r]
      OBVIOUS
    <2> QED BY <1>3, <1>5, <1>6, <1>9
  <1> QED BY <1>2, <1>7, <1>8, <1>10 DEF m
-----------------------------------------------------------------------------
(* The contexts begin in user mode, with ebp on it.                        *)
LEMMA InitInv == Init => Inv
  <1> SUFFICES ASSUME Init PROVE Inv
    OBVIOUS
  <1>1. /\ cpu = InitCpu /\ ebp = CPU_USER /\ home = CPU_USER
        /\ broken \in BOOLEAN /\ lost \in BOOLEAN
    BY DEF Init
  <1>2. cpu \in Cpu /\ FieldAgrees(cpu) /\ cpu.mode = CPU_USER
    BY <1>1, InitCpuType DEF InitCpu
  <1>3. CPU_USER \in Mode /\ CPU_USER # CPU_FASTINT
    BY DEF Mode, CPU_USER, CPU_FASTINT
  <1> QED BY <1>1, <1>2, <1>3 DEF Inv, TypeOK, InSync

(* The effect of an instruction that writes one register.                  *)
LEMMA WriteFacts ==
  ASSUME Inv, NEW r \in Reg, NEW v \in Data, Write(r, v)
  PROVE  /\ cpu' \in Cpu /\ cpu'.mode = cpu.mode /\ FieldAgrees(cpu')
         /\ \A x \in Mode, q \in Reg :
              cpu'.context[x].regs[q] = IF x = cpu.mode /\ q = r THEN v
                                        ELSE cpu.context[x].regs[q]
  <1>1. cpu \in Cpu /\ cpu.mode \in Mode /\ FieldAgrees(cpu) /\ ebp = cpu.mode
    BY DEF Inv, InSync, TypeOK, Write, Cpu
  <1>2. cpu' = Assign(cpu, cpu.mode, {r}, v)
    BY <1>1 DEF Write
  <1>3. LET d == Assign(cpu, cpu.mode, {r}, v)
        IN /\ d \in Cpu /\ d.mode = cpu.mode /\ ctx(d).field = ctx(cpu).field
           /\ \A x \in Mode, q \in Reg :
                d.context[x].regs[q] = IF x = cpu.mode /\ q \in {r} THEN v
                                       ELSE cpu.context[x].regs[q]
    BY <1>1, AssignFacts
  <1> QED BY <1>1, <1>2, <1>3 DEF FieldAgrees

(* An S instruction changes no register, mode or mode field.               *)
LEMMA WriteSFacts ==
  ASSUME Inv, NEW f \in Flag, WriteS(f)
  PROVE  /\ cpu' \in Cpu /\ cpu'.mode = cpu.mode /\ FieldAgrees(cpu')
         /\ \A x \in Mode : cpu'.context[x].regs = cpu.context[x].regs
  <1>1. /\ cpu \in Cpu /\ cpu.mode \in Mode /\ FieldAgrees(cpu)
        /\ ebp = cpu.mode
    BY DEF Inv, InSync, TypeOK, WriteS, Cpu
  <1> DEFINE x == [cpu.context[cpu.mode] EXCEPT !.x86_flags = f]
  <1>2. /\ cpu.context \in [Mode -> Context]
        /\ cpu = [mode |-> cpu.mode, context |-> cpu.context]
        /\ cpu.context[cpu.mode] \in Context
    BY <1>1 DEF Cpu
  <1>3. cpu' = [mode |-> cpu.mode, context |-> [cpu.context EXCEPT ![cpu.mode] = x]]
    BY <1>1, <1>2 DEF WriteS
  <1>4. /\ x \in Context /\ x.regs = cpu.context[cpu.mode].regs
        /\ x.field = cpu.context[cpu.mode].field
    BY <1>2 DEF Context
  <1> HIDE DEF x
  <1>5. /\ cpu' \in Cpu /\ cpu'.mode = cpu.mode
        /\ cpu'.context = [cpu.context EXCEPT ![cpu.mode] = x]
    BY <1>1, <1>2, <1>3, <1>4 DEF Cpu
  <1>6. ctx(cpu').field = ctx(cpu).field
    BY <1>1, <1>2, <1>4, <1>5 DEF ctx
  <1> QED BY <1>1, <1>2, <1>4, <1>5, <1>6 DEF FieldAgrees

(* The mode a store to cpsr leaves, and the registers it moves.            *)
LEMMA MsrFacts ==
  ASSUME Inv, NEW field \in Field, NEW flags \in Flag, NEW mask,
         MSR_CPSR(field, flags, mask)
  PROVE  /\ cpu' \in Cpu /\ cpu'.mode \in Mode
         /\ ~broken' => FieldAgrees(cpu')
         /\ \A x \in Mode, r \in Reg :
              cpu'.context[x].regs[r] =
                IF x = cpu'.mode /\ x # cpu.mode /\ Copied(r, cpu.mode, x)
                THEN cpu.context[cpu.mode].regs[r] ELSE cpu.context[x].regs[r]
  <1> DEFINE d == loadcpsr(cpu, field, flags, mask)
  <1>1. cpu \in Cpu /\ field \in AnyField /\ FieldAgrees(cpu)
    BY DEF Inv, InSync, TypeOK, MSR_CPSR, AnyField
  <1>2. cpu' = d /\ broken' = InvalidMode(field, mask)
    BY DEF MSR_CPSR
  <1>3. d \in Cpu /\ (~InvalidMode(field, mask) => FieldAgrees(d))
    BY <1>1, LoadCpsrFacts
  <1>4. \A x \in Mode, r \in Reg :
          d.context[x].regs[r] =
            IF x = d.mode /\ x # cpu.mode /\ Copied(r, cpu.mode, x)
            THEN cpu.context[cpu.mode].regs[r] ELSE cpu.context[x].regs[r]
    BY <1>1, RegsAfterLoad
  <1>5. d.mode \in Mode
    BY <1>3 DEF Cpu
  <1> HIDE DEF d
  <1> QED BY <1>2, <1>3, <1>4, <1>5

(* Every instruction keeps ebp and the mode field on the current context.  *)
LEMMA InvStep == Inv /\ [Next]_vars => Inv'
  <1> SUFFICES ASSUME Inv, [Next]_vars PROVE Inv'
    OBVIOUS
  <1>0. /\ cpu \in Cpu /\ cpu.mode \in Mode /\ ebp \in Mode
        /\ home \in Mode /\ home # CPU_FASTINT
        /\ broken \in BOOLEAN /\ lost \in BOOLEAN
    BY DEF Inv, TypeOK, Cpu
  <1>1. ASSUME NEW r \in Reg, NEW v \in Data, Write(r, v) PROVE Inv'
    <2>1. cpu' \in Cpu /\ cpu'.mode = cpu.mode /\ FieldAgrees(cpu')
      BY <1>1, WriteFacts
    <2>2. UNCHANGED <<ebp, broken, home>> /\ lost' \in BOOLEAN /\ ~broken
      BY <1>1 DEF Write
    <2> QED BY <1>0, <2>1, <2>2 DEF Inv, TypeOK, InSync
  <1>2. ASSUME NEW f \in Flag, WriteS(f) PROVE Inv'
    <2>1. cpu' \in Cpu /\ cpu'.mode = cpu.mode /\ FieldAgrees(cpu')
      BY <1>2, WriteSFacts
    <2>2. UNCHANGED <<ebp, broken, home>> /\ lost' \in BOOLEAN /\ ~broken
      BY <1>2 DEF WriteS
    <2> QED BY <1>0, <2>1, <2>2 DEF Inv, TypeOK, InSync
  <1>3. ASSUME NEW field \in Field, NEW flags \in Flag, NEW mask,
               MSR_CPSR(field, flags, mask)
        PROVE  Inv'
    <2>1. cpu' \in Cpu /\ cpu'.mode \in Mode /\ (~broken' => FieldAgrees(cpu'))
      BY <1>3, MsrFacts
    <2>2. broken' \in BOOLEAN
      BY <1>3 DEF MSR_CPSR, InvalidMode
    <2>3. lost' \in BOOLEAN
      BY <1>3 DEF MSR_CPSR, Track
    <2>4. /\ ebp' = IF broken' THEN ebp ELSE cpu'.mode
          /\ home' = IF cpu'.mode = CPU_FASTINT /\ cpu.mode # CPU_FASTINT
                     THEN cpu.mode ELSE home
      BY <1>3 DEF MSR_CPSR, Track
    <2> QED BY <1>0, <2>1, <2>2, <2>3, <2>4 DEF Inv, TypeOK, InSync
  <1>4. ASSUME NEW list \in SUBSET Reg, NEW v \in Data, LDM_S(list, v) PROVE Inv'
    <2>1. cpu' \in Cpu /\ cpu'.mode = cpu.mode /\ (~broken' => FieldAgrees(cpu'))
      BY <1>4, LdmFacts
    <2>2. broken' \in BOOLEAN
      BY <1>4 DEF LDM_S, InvalidMode
    <2>3. lost' \in BOOLEAN
      BY <1>4 DEF LDM_S
    <2>4. UNCHANGED <<ebp, home>> /\ ebp = cpu.mode
      BY <1>4 DEF LDM_S, Inv, InSync
    <2> QED BY <1>0, <2>1, <2>2, <2>3, <2>4 DEF Inv, TypeOK, InSync
  <1>5. CASE UNCHANGED vars
    BY <1>5 DEF vars, Inv, TypeOK, InSync, FieldAgrees, ctx
  <1> QED BY <1>1, <1>2, <1>3, <1>4, <1>5 DEF Next

(* Type correctness.                                                       *)
THEOREM TypeCorrect == Spec => []TypeOK
  <1>1. Inv => TypeOK
    BY DEF Inv
  <1> QED BY <1>1, InitInv, InvStep, PTL DEF Spec

(* Generated code works on the current context, whose cpsr names its mode. *)
THEOREM StaysInSync == Spec => []InSync
  <1>1. Inv => InSync
    BY DEF Inv
  <1> QED BY <1>1, InitInv, InvStep, PTL DEF Spec
-----------------------------------------------------------------------------
(* What a mode sees, one register at a time.                               *)
LEMMA ViewRegs ==
  \A m \in Mode, r \in Reg : View[m][r] = cpu.context[Holder(r, m)].regs[r]
  BY DEF View

(* A step after which every register is held by an equal word changes no   *)
(* view.                                                                   *)
LEMMA SameView ==
  ASSUME \A m \in Mode, r \in Reg :
           cpu'.context[Holder(r, m)'].regs[r] = cpu.context[Holder(r, m)].regs[r]
  PROVE  View' = View
  BY DEF View

(* Every register of every mode is held by some context.                   *)
LEMMA HolderMode ==
  ASSUME Inv, NEW m \in Mode, NEW r \in Reg
  PROVE  Holder(r, m) \in Mode
  BY DEF Inv, TypeOK, Cpu, Holder

(* A switch moves the holders and copies the registers with them.          *)
LEMMA MsrEnters ==
  ASSUME Inv, NEW field \in Field, NEW flags \in Flag, NEW mask,
         MSR_CPSR(field, flags, mask), ~lost'
  PROVE  View' = View
  <1>1. /\ cpu.mode \in Mode /\ cpu'.mode \in Mode
        /\ \A x \in Mode, r \in Reg :
             cpu'.context[x].regs[r] =
               IF x = cpu'.mode /\ x # cpu.mode /\ Copied(r, cpu.mode, x)
               THEN cpu.context[cpu.mode].regs[r] ELSE cpu.context[x].regs[r]
    BY MsrFacts DEF Inv, TypeOK, Cpu
  <1>2. /\ home' = IF cpu'.mode = CPU_FASTINT /\ cpu.mode # CPU_FASTINT
                   THEN cpu.mode ELSE home
        /\ ~(cpu.mode = CPU_FASTINT /\ cpu'.mode \notin {CPU_FASTINT, home})
    BY DEF MSR_CPSR, Track
  <1>3. home \in Mode /\ home # CPU_FASTINT /\ CPU_FASTINT \in Mode
    BY DEF Inv, TypeOK, Mode, CPU_FASTINT
  <1> SUFFICES ASSUME NEW m \in Mode, NEW r \in Reg
               PROVE  cpu'.context[Holder(r, m)'].regs[r]
                        = cpu.context[Holder(r, m)].regs[r]
    BY SameView
  <1>4. CASE cpu'.mode = cpu.mode
    <2>1. Holder(r, m)' = Holder(r, m)
      BY <1>2, <1>4 DEF Holder
    <2> QED BY <1>1, <1>4, <2>1, HolderMode
  <1>5. CASE cpu'.mode # cpu.mode
    <2>1. Copied(r, cpu.mode, cpu'.mode) <=>
            \/ r < 8 \/ r = 15
            \/ r < 13 /\ cpu.mode # CPU_FASTINT /\ cpu'.mode # CPU_FASTINT
      BY <1>1, <1>5, CopiedRegs
    <2>2. CASE r < 8 \/ r = 15
      <3>1. Holder(r, m) = cpu.mode /\ Holder(r, m)' = cpu'.mode
        BY <2>2 DEF Holder
      <3> QED BY <1>1, <1>5, <2>1, <2>2, <3>1
    <2>3. CASE ~(r < 8 \/ r = 15) /\ (r > 12 \/ m = CPU_FASTINT)
      <3>1. Holder(r, m) = m /\ Holder(r, m)' = m
        BY <2>3 DEF Holder
      <3>2. m = cpu'.mode => ~Copied(r, cpu.mode, cpu'.mode)
        BY <2>1, <2>3, RegAssumption
      <3> QED BY <1>1, <3>1, <3>2
    <2>4. CASE ~(r < 8 \/ r = 15) /\ ~(r > 12 \/ m = CPU_FASTINT)
      <3>1. /\ Holder(r, m) = IF cpu.mode = CPU_FASTINT THEN home ELSE cpu.mode
            /\ Holder(r, m)' = IF cpu'.mode = CPU_FASTINT THEN home' ELSE cpu'.mode
        BY <2>4 DEF Holder
      <3>2. r < 13
        BY <2>4, RegAssumption
      <3> QED BY <1>1, <1>2, <1>3, <1>5, <2>1, <2>4, <3>1, <3>2
    <2> QED BY <2>2, <2>3, <2>4
  <1> QED BY <1>4, <1>5

(* An instruction writes what all modes that share the register see.       *)
LEMMA WriteWrites ==
  ASSUME Inv, NEW r \in Reg, NEW v \in Data, Write(r, v)
  PROVE  Arm!WriteAs(cpu.mode, {r}, v)
  <1>1. /\ cpu.mode \in Mode /\ cpu'.mode = cpu.mode /\ home' = home
        /\ \A x \in Mode, q \in Reg :
             cpu'.context[x].regs[q] = IF x = cpu.mode /\ q = r THEN v
                                       ELSE cpu.context[x].regs[q]
    BY WriteFacts DEF Inv, TypeOK, Cpu, Write
  <1>2. home \in Mode /\ home # CPU_FASTINT
    BY DEF Inv, TypeOK
  <1>3. ASSUME NEW x \in Mode, NEW q \in Reg
        PROVE  cpu'.context[Holder(q, x)'].regs[q] =
                 IF q \in {r} /\ Arm!Shared(q, cpu.mode, x) THEN v ELSE View[x][q]
    <2>1. Holder(q, x)' = Holder(q, x) /\ Holder(q, x) \in Mode
      BY <1>1, HolderMode DEF Holder
    <2>2. cpu'.context[Holder(q, x)'].regs[q] =
            IF Holder(q, x) = cpu.mode /\ q = r THEN v ELSE View[x][q]
      BY <1>1, <2>1, ViewRegs
    <2>3. Holder(q, x) = cpu.mode <=> Arm!Shared(q, cpu.mode, x)
      <3>1. q \in 0 .. 15
        BY RegAssumption
      <3> QED
        BY <1>1, <1>2, <3>1
        DEF Holder, Arm!Shared, Arm!FastInterrupt, CPU_FASTINT, Mode
    <2> QED BY <2>2, <2>3
  <1>4. View' = [x \in Mode |-> [q \in Reg |->
                   IF q \in {r} /\ Arm!Shared(q, cpu.mode, x)
                   THEN v ELSE View[x][q]]]
    BY <1>3 DEF View
  <1> QED BY <1>1, <1>4 DEF Arm!WriteAs, Arm!Mode, Mode

(* LDM with the S bit writes user's registers, unless it is issued in fast *)
(* interrupt mode for shared registers that user's context does not hold.  *)
LEMMA LdmWrites ==
  ASSUME Inv, NEW list \in SUBSET Reg, NEW v \in Data, LDM_S(list, v), ~lost'
  PROVE  Arm!WriteAs(CPU_USER, list, v)
  <1> DEFINE m == cpu.mode
             user(r) == IF r \in list THEN v
                        ELSE IF m # CPU_USER /\ Copied(r, m, CPU_USER)
                             THEN cpu.context[m].regs[r]
                             ELSE cpu.context[CPU_USER].regs[r]
  <1>1. /\ m \in Mode /\ cpu'.mode = m /\ home' = home
        /\ \A x \in Mode, r \in Reg :
             cpu'.context[x].regs[r] =
               IF x = CPU_USER \/ (x = m /\ Copied(r, CPU_USER, x))
               THEN user(r) ELSE cpu.context[x].regs[r]
    BY LdmFacts DEF Inv, TypeOK, Cpu, LDM_S
  <1>2. home \in Mode /\ home # CPU_FASTINT /\ CPU_USER \in Mode
        /\ CPU_FASTINT \in Mode /\ CPU_USER # CPU_FASTINT
    BY DEF Inv, TypeOK, Mode, CPU_USER, CPU_FASTINT
  <1>3. m = CPU_FASTINT /\ home # CPU_USER => list \cap (8 .. 12) = {}
    BY DEF LDM_S
  <1>4. ASSUME NEW r \in Reg, m # CPU_USER
        PROVE  /\ Copied(r, CPU_USER, m) <=>
                    r < 8 \/ r = 15 \/ (r < 13 /\ m # CPU_FASTINT)
               /\ Copied(r, m, CPU_USER) <=>
                    r < 8 \/ r = 15 \/ (r < 13 /\ m # CPU_FASTINT)
    BY <1>1, <1>2, <1>4, CopiedRegs
  <1> HIDE DEF m, user
  <1>5. ASSUME NEW x \in Mode, NEW r \in Reg
        PROVE  cpu'.context[Holder(r, x)'].regs[r] =
                 IF r \in list /\ Arm!Shared(r, CPU_USER, x) THEN v ELSE View[x][r]
    <2> DEFINE h == Holder(r, x)
    <2>1. Holder(r, x)' = h /\ h \in Mode
      BY <1>1, HolderMode DEF Holder, m
    <2>2. View[x][r] = cpu.context[h].regs[r]
      BY ViewRegs
    <2>3. h = IF r < 8 \/ r = 15 THEN m
              ELSE IF r > 12 \/ x = CPU_FASTINT THEN x
              ELSE IF m = CPU_FASTINT THEN home ELSE m
      BY DEF Holder, m
    <2>4. Arm!Shared(r, CPU_USER, x) <=>
            \/ r < 8 \/ r = 15
            \/ r < 13 /\ x # CPU_FASTINT
            \/ x = CPU_USER
      <3>1. r \in 0 .. 15
        BY RegAssumption
      <3> QED
        BY <3>1 DEF Arm!Shared, Arm!FastInterrupt, CPU_FASTINT, CPU_USER, Mode
    <2>5. user(r) = IF r \in list THEN v
                    ELSE IF m # CPU_USER /\ Copied(r, m, CPU_USER)
                         THEN cpu.context[m].regs[r]
                         ELSE cpu.context[CPU_USER].regs[r]
      BY DEF user
    <2>6. cpu'.context[h].regs[r] =
            IF h = CPU_USER \/ (h = m /\ Copied(r, CPU_USER, h))
            THEN user(r) ELSE cpu.context[h].regs[r]
      BY <1>1, <2>1
    <2> HIDE DEF h
    <2>7. r \in Int /\ (r \in list /\ r > 7 /\ r < 13 => r \in list \cap (8 .. 12))
      BY RegAssumption
    <2>8. CASE r < 8 \/ r = 15
      BY <1>4, <2>1, <2>2, <2>3, <2>4, <2>5, <2>6, <2>7, <2>8
    <2>9. CASE ~(r < 8 \/ r = 15) /\ r > 12
      BY <1>4, <2>1, <2>2, <2>3, <2>4, <2>5, <2>6, <2>7, <2>9
    <2>10. CASE ~(r < 8 \/ r = 15) /\ ~(r > 12)
      BY <1>2, <1>3, <1>4, <2>1, <2>2, <2>3, <2>4, <2>5, <2>6, <2>7, <2>10
    <2> QED BY <2>8, <2>9, <2>10
  <1>6. View' = [x \in Mode |-> [r \in Reg |->
                   IF r \in list /\ Arm!Shared(r, CPU_USER, x)
                   THEN v ELSE View[x][r]]]
    BY <1>5 DEF View
  <1> QED BY <1>1, <1>6 DEF Arm!WriteAs, Arm!Mode, Mode, m
(* The contexts implement the ARM register file.                           *)
THEOREM ImplementsRegisterFile == Spec => ArmSpec
  <1>1. Init => Arm!Init
    <2> SUFFICES ASSUME Init PROVE Arm!Init
      OBVIOUS
    <2>1. Inv
      BY InitInv
    <2>2. cpu = InitCpu /\ cpu.mode = CPU_USER
      BY DEF Init, InitCpu
    <2>3. ASSUME NEW m \in Mode, NEW r \in Reg
          PROVE  cpu.context[Holder(r, m)].regs[r] = Zero
      BY <2>1, <2>2, HolderMode DEF InitCpu
    <2>4. View = [m \in Mode |-> [r \in Reg |-> Zero]]
      BY <2>3 DEF View
    <2> QED BY <2>2, <2>4 DEF Arm!Init, Arm!Mode, Arm!User, Mode, CPU_USER
  <1>2. Inv /\ [Next]_vars => [lost' \/ Arm!Next]_(Arm!vars)
    <2> SUFFICES ASSUME Inv, [Next]_vars, ~lost'
                 PROVE  Arm!Next \/ UNCHANGED Arm!vars
      OBVIOUS
    <2>1. ASSUME NEW r \in Reg, NEW v \in Data, Write(r, v) PROVE Arm!Next
      <3>1. Arm!WriteAs(cpu.mode, {r}, v) /\ {r} \in SUBSET Reg
        BY <2>1, WriteWrites
      <3> QED BY <3>1 DEF Arm!Next
    <2>2. ASSUME NEW f \in Flag, WriteS(f) PROVE UNCHANGED Arm!vars
      <3>1. /\ cpu'.mode = cpu.mode /\ home' = home
            /\ \A x \in Mode : cpu'.context[x].regs = cpu.context[x].regs
        BY <2>2, WriteSFacts DEF WriteS
      <3>2. ASSUME NEW m \in Mode, NEW r \in Reg
            PROVE  cpu'.context[Holder(r, m)'].regs[r]
                     = cpu.context[Holder(r, m)].regs[r]
        BY <3>1, HolderMode DEF Holder
      <3> QED BY <3>1, <3>2, SameView DEF Arm!vars
    <2>3. ASSUME NEW field \in Field, NEW flags \in Flag, NEW mask,
                 MSR_CPSR(field, flags, mask)
          PROVE  Arm!Next
      <3>1. View' = View
        BY <2>3, MsrEnters
      <3>2. cpu'.mode \in Mode
        BY <2>3, MsrFacts
      <3>3. Arm!Enter(cpu'.mode)
        BY <3>1 DEF Arm!Enter
      <3> QED BY <3>2, <3>3 DEF Arm!Next, Arm!Mode, Mode
    <2>4. ASSUME NEW list \in SUBSET Reg, NEW v \in Data, LDM_S(list, v)
          PROVE  Arm!Next
      <3>1. Arm!WriteAs(CPU_USER, list, v)
        BY <2>4, LdmWrites
      <3>2. CPU_USER = Arm!User
        BY DEF CPU_USER, Arm!User
      <3> QED BY <3>1, <3>2 DEF Arm!Next
    <2>5. CASE UNCHANGED vars
      BY <2>5 DEF vars, Arm!vars, View, Holder
    <2> QED BY <2>1, <2>2, <2>3, <2>4, <2>5 DEF Next
  <1> QED BY <1>1, <1>2, InitInv, InvStep, PTL DEF Spec, ArmSpec
=============================================================================
