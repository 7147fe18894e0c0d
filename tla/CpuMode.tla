------------------------------- MODULE CpuMode -------------------------------
(***************************************************************************)
(* A core's program on its register contexts: the code the JIT generates   *)
(* for instructions that write registers, for MSR CPSR and for LDM with    *)
(* the S bit.  Generated code reaches registers through ebp, which is kept *)
(* pointing at the current context by hand.                                *)
(***************************************************************************)
EXTENDS CpuContext

VARIABLES
  cpu,    \* processor<T>::mode and processor<T>::context
  ebp,    \* the mode whose context generated code works on
  broken, \* stopped for good by DebugBreak_ in loadcpsr
  home,   \* history: the mode fast interrupt mode was last entered from
  lost    \* history: the last step left r8-r12 behind (see Lost)

vars == <<cpu, ebp, broken, home, lost>>

Init == /\ cpu = InitCpu
        /\ ebp = CPU_USER
        /\ broken = FALSE
        /\ home = CPU_USER
        /\ lost = FALSE

(* loadcpsr copies eight registers on a switch from fast interrupt mode.   *)
(* That is right on the way back to the mode it was entered from, whose    *)
(* context still holds the other modes' r8-r12; any other mode gets what   *)
(* it last had.                                                            *)
Track(c) ==
  /\ home' = IF c.mode = CPU_FASTINT /\ cpu.mode # CPU_FASTINT
             THEN cpu.mode ELSE home
  /\ lost' = (cpu.mode = CPU_FASTINT /\ c.mode \notin {CPU_FASTINT, home})

-----------------------------------------------------------------------------
(* A data processing instruction or a load, without and with the S bit.    *)
Assign(c, m, list, v) ==
  [c EXCEPT !.context[m].regs = [r \in Reg |-> IF r \in list THEN v ELSE @[r]]]

Write(r, v) ==
  /\ ~broken
  /\ cpu' = Assign(cpu, ebp, {r}, v)
  /\ lost' = FALSE
  /\ UNCHANGED <<ebp, broken, home>>

WriteS(f) ==
  /\ ~broken
  /\ cpu' = [cpu EXCEPT !.context[ebp].x86_flags = f]
  /\ lost' = FALSE
  /\ UNCHANGED <<ebp, broken, home>>

(* MSR: loadcpsr returns the new current context, which goes to ebp.       *)
(* Mutant: ebp keeps pointing at the context of the mode that is left.     *)
MSR_CPSR_keep_ebp(field, flags, mask) ==
  /\ ~broken
  /\ cpu' = loadcpsr(cpu, field, flags, mask)
  /\ broken' = InvalidMode(field, mask)
  /\ Track(cpu')
  /\ UNCHANGED ebp
MSR_CPSR(field, flags, mask) ==
  /\ ~broken
  /\ cpu' = loadcpsr(cpu, field, flags, mask)
  /\ broken' = InvalidMode(field, mask)
  /\ ebp' = IF broken' THEN ebp ELSE cpu'.mode
  /\ Track(cpu')

(* LDM with the S bit loads user registers: ldm_switchuser enters user     *)
(* mode, the words go to the context it returned, ldm_switchback restores  *)
(* the saved mode field; ebp is not touched.                               *)
LDM_S(list, v) ==
  LET user == LoadMode(cpu, User)
      saved == cpu.context[ebp].field
  IN /\ ~broken
     /\ cpu' = LoadMode(Assign(user, user.mode, list, v), saved)
     /\ broken' = InvalidMode(saved, {"mode"})
     /\ lost' = (/\ cpu.mode = CPU_FASTINT
                 /\ home # CPU_USER
                 /\ list \cap (8 .. 12) # {})
     /\ UNCHANGED <<ebp, home>>

Next == \/ \E r \in Reg, v \in Data : Write(r, v)
        \/ \E f \in Flag : WriteS(f)
        \/ \E field \in Field, flags \in Flag, mask \in SUBSET Part \ {{}} :
             MSR_CPSR(field, flags, mask)
        \/ \E list \in SUBSET Reg \ {{}}, v \in Data : LDM_S(list, v)

Spec == Init /\ [][Next]_vars

-----------------------------------------------------------------------------
TypeOK == /\ cpu \in Cpu
          /\ ebp \in Mode
          /\ broken \in BOOLEAN
          /\ home \in Mode
          /\ lost \in BOOLEAN

(* Generated code works on the current context ("should be in sync with    *)
(* ebp", Processor.h:75), and its cpsr names that mode.                    *)
InSync == ~broken => ebp = cpu.mode /\ FieldAgrees(cpu)

-----------------------------------------------------------------------------
(* The context that holds register r as mode m sees it.  The shared r8-r12 *)
(* are in the context of the current mode, or in fast interrupt mode in    *)
(* the one that was left for it.                                           *)
Holder(r, m) ==
  IF r < 8 \/ r = 15 THEN cpu.mode
  ELSE IF r > 12 \/ m = CPU_FASTINT THEN m
  ELSE IF cpu.mode = CPU_FASTINT THEN home
  ELSE cpu.mode

View == [m \in Mode |-> [r \in Reg |-> cpu.context[Holder(r, m)].regs[r]]]

Arm == INSTANCE RegisterFile WITH current <- cpu.mode, view <- View

(* The copies are the ARM register file: every step of the program is a    *)
(* write that all modes sharing the register see or a switch that changes  *)
(* no register, but for the two ways to leave r8-r12 behind.               *)
ArmSpec == Arm!Init /\ [][lost' \/ Arm!Next]_(Arm!vars)
=============================================================================
