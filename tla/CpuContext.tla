------------------------------ MODULE CpuContext ------------------------------
(***************************************************************************)
(* The register contexts of one emulated core (processor<T>::context, one  *)
(* per privilege mode) and HLE<T>::loadcpsr, which switches between them.  *)
(* An ARM register shared by several modes exists once per context here:   *)
(* loadcpsr keeps the copies together by moving them at every switch.      *)
(*                                                                         *)
(* A context holds the registers of Reg, the mode field and the condition  *)
(* flags of its cpsr, and the flags the generated x86 code works with.     *)
(* The thumb bit, spsr (never copied) and bpre are left out.               *)
(***************************************************************************)
EXTENDS Integers

CONSTANTS Reg,   \* the registers looked at, numbered as in ARM
          Data,  \* register contents
          Field, \* mode fields the guest program writes to cpsr
          Flag,  \* values of the condition flags
          Zero, NoFlag \* initial contents (static storage)

ASSUME RegAssumption == Reg \subseteq 0 .. 15
ASSUME FieldAssumption == Field \subseteq 0 .. 31
ASSUME ZeroAssumption == Zero \in Data /\ NoFlag \in Flag

CPU_USER == 0
CPU_SUPERVISOR == 1
CPU_ABORT == 2
CPU_UNDEFINED == 3
CPU_INTERRUPT == 4
CPU_FASTINT == 5
Mode == 0 .. 5

(* Registers below this number are copied on a switch from or to a mode.   *)
(* Mutant: the fast interrupt mode banks as little as the others.          *)
mode_regs_uniform ==
  [m \in Mode |-> IF m = CPU_USER THEN 15 ELSE 13]
mode_regs ==
  [m \in Mode |-> IF m = CPU_USER THEN 15
                  ELSE IF m = CPU_FASTINT THEN 8 ELSE 13]

User == 16       \* 0x10
Fiq == 17        \* 0x11
Irq == 18        \* 0x12
Supervisor == 19 \* 0x13
Abort == 20      \* 0x14
Undefined == 27  \* 0x1B
System == 31     \* 0x1F
ModeField == {User, Fiq, Irq, Supervisor, Abort, Undefined, System}

cpumode(field) == CASE field = Fiq -> CPU_FASTINT
                    [] field = Irq -> CPU_INTERRUPT
                    [] field = Undefined -> CPU_UNDEFINED
                    [] field = Abort -> CPU_ABORT
                    [] field = Supervisor -> CPU_SUPERVISOR
                    [] OTHER -> CPU_USER

Context == [regs : [Reg -> Data], field : Field \cup ModeField \cup {0},
            flags : Flag, x86_flags : Flag]
Cpu == [mode : Mode, context : [Mode -> Context]]

(* Nothing initialises cpsr, so the mode field starts as 0, which names no *)
(* mode, while processor::mode starts as CPU_USER.                         *)
InitCpu ==
  [mode |-> CPU_USER,
   context |-> [m \in Mode |-> [regs |-> [r \in Reg |-> Zero], field |-> 0,
                                flags |-> NoFlag, x86_flags |-> NoFlag]]]

ctx(c) == c.context[c.mode]

-----------------------------------------------------------------------------
(* What a store to cpsr writes: any of its two parts, "mode" and "flags".  *)
Part == {"mode", "flags"}

SetCpsr(c, field, flags, mask) ==
  LET written == [regs |-> ctx(c).regs,
                  field |-> IF "mode" \in mask THEN field ELSE ctx(c).field,
                  flags |-> IF "flags" \in mask THEN flags ELSE ctx(c).flags,
                  x86_flags |-> IF "flags" \in mask THEN flags
                                ELSE ctx(c).x86_flags]
  IN [c EXCEPT !.context[c.mode] = written]

Copied(r, old, new) == r = 15 \/ (r < mode_regs[old] /\ r < mode_regs[new])

Registers(c, new) == [r \in Reg |-> IF Copied(r, c.mode, new)
                                    THEN ctx(c).regs[r]
                                    ELSE c.context[new].regs[r]]
(* Mutant: the copied cpsr is forgotten.                                   *)
SwitchKeepingCpsr(c, new) ==
  LET entered == [c.context[new] EXCEPT !.regs = Registers(c, new)]
  IN [mode |-> new, context |-> [c.context EXCEPT ![new] = entered]]
Switch(c, new) ==
  LET entered == [c.context[new] EXCEPT !.regs = Registers(c, new),
                                        !.field = ctx(c).field,
                                        !.flags = ctx(c).flags]
  IN [mode |-> new, context |-> [c.context EXCEPT ![new] = entered]]

(* The cpsr of the old context is written first, then duplicated.  A field *)
(* that names no mode ends in DebugBreak_, with the cpsr already written.  *)
loadcpsr(c, field, flags, mask) ==
  LET d == SetCpsr(c, field, flags, mask)
  IN IF "mode" \in mask /\ field \in ModeField /\ cpumode(field) # c.mode
     THEN Switch(d, cpumode(field)) ELSE d

LoadMode(c, field) == loadcpsr(c, field, NoFlag, {"mode"})
InvalidMode(field, mask) == "mode" \in mask /\ field \notin ModeField

(* The mode field of the current cpsr and processor::mode name the same    *)
(* mode, once the program has set the field (loadcpsr duplicates the old   *)
(* cpsr into the context it enters).                                       *)
FieldAgrees(c) == IF ctx(c).field \in ModeField
                  THEN cpumode(ctx(c).field) = c.mode
                  ELSE c.mode = CPU_USER
=============================================================================
