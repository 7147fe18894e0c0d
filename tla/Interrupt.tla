------------------------------ MODULE Interrupt ------------------------------
(***************************************************************************)
(* Interrupt delivery to one core (Core/Interrupt.h).  Any thread fires an *)
(* interrupt by a bit in signaled.  The core's own thread takes the bits   *)
(* at a branch of its program (poll_process) and runs the program's        *)
(* handler for each of them, synchronously on its own stack, with a copy   *)
(* of the context it interrupted.                                          *)
(*                                                                         *)
(* IME, IE and IF are words of the core's register page: only its own      *)
(* thread stores to them, from the interrupted program or from a handler.  *)
(* (IF is the source's name, reserved in TLA+, hence the REG_ here.)       *)
(* One step is what that thread does between two accesses to signaled or   *)
(* between two instructions of the program.                                *)
(***************************************************************************)
EXTENDS CpuContext, FiniteSets

CONSTANTS Core,           \* "ARM9" or "ARM7", which poll differently
          MAX_INTERRUPTS, \* interrupts are 0 .. MAX_INTERRUPTS - 1
          Return          \* 0xEFEF0000, a branch to which ends a handler

ASSUME CoreAssumption == Core \in {"ARM9", "ARM7"}
ASSUME InterruptAssumption == MAX_INTERRUPTS \in 1 .. 32
ASSUME ReturnAssumption == Return \in Data

Interrupts == 0 .. MAX_INTERRUPTS - 1
MaxOwed == 2 \* bound of the history: one bit in signaled, one in intr

VARIABLES
  signaled, \* interrupt<T>::signaled
  inside,   \* interrupt<T>::inside
  REG_IME, REG_IE, REG_IF, \* words of the register page
  VBLK,     \* bit 0 of DISPSTAT, always the ARM9's
  pc,       \* "run" the program, "scan" the bits, "handler", "broken"
  intr,     \* bits of poll_process's intr at and above its mask
  backup,   \* what its stack keeps meanwhile: the context and ebp
  cpu, ebp, \* see CpuMode
  owed,     \* history: how often fired and not dispatched since, up to MaxOwed
  start     \* history: backup and mode as they were when the poll began

registers == <<REG_IME, REG_IE, REG_IF, VBLK>>
context == <<cpu, ebp>>
history == <<owed, start>>
vars == <<signaled, inside, registers, pc, intr, backup, context, history>>

Frame == [context |-> ctx(cpu), ebp |-> ebp]

Init == /\ signaled = {}
        /\ inside = FALSE
        /\ REG_IME = FALSE /\ REG_IE = {} /\ REG_IF = {} /\ VBLK = FALSE
        /\ pc = "run"
        /\ intr = {}
        /\ cpu = InitCpu
        /\ ebp = CPU_USER
        /\ backup = Frame
        /\ owed = [n \in Interrupts |-> 0]
        /\ start = [frame |-> Frame, mode |-> CPU_USER]

-----------------------------------------------------------------------------
(* From any thread: the other core's fifo handlers or the host interface.  *)
(* Mutant: the bit of the next interrupt is set.                           *)
fire_next(n) ==
  /\ signaled' = signaled \cup {n + 1}
  /\ VBLK' = (VBLK \/ n = 0)
  /\ owed' = [owed EXCEPT ![n] = IF @ < MaxOwed THEN @ + 1 ELSE @]
  /\ UNCHANGED <<inside, REG_IME, REG_IE, REG_IF, pc, intr, backup, context, start>>
fire(n) ==
  /\ signaled' = signaled \cup {n}
  /\ VBLK' = (VBLK \/ n = 0)
  /\ owed' = [owed EXCEPT ![n] = IF @ < MaxOwed THEN @ + 1 ELSE @]
  /\ UNCHANGED <<inside, REG_IME, REG_IE, REG_IF, pc, intr, backup, context, start>>

(* The core's program, interrupted or handler, between two branches.       *)
Program == pc \in {"run", "handler"}

store32(ime, ie, if, vblk) ==
  /\ Program
  /\ REG_IME' = ime /\ REG_IE' = ie /\ REG_IF' = if /\ VBLK' = vblk
  /\ UNCHANGED <<signaled, inside, pc, intr, backup, context, history>>

Write(r, v) ==
  /\ Program
  /\ cpu' = [cpu EXCEPT !.context[ebp].regs[r] = v]
  /\ UNCHANGED <<signaled, inside, registers, pc, intr, backup, ebp, history>>

MSR_CPSR(field) ==
  /\ Program
  /\ cpu' = LoadMode(cpu, field)
  /\ IF InvalidMode(field, {"mode"})
     THEN pc' = "broken" /\ UNCHANGED ebp
     ELSE UNCHANGED pc /\ ebp' = cpu'.mode
  /\ UNCHANGED <<signaled, inside, registers, intr, backup, history>>

-----------------------------------------------------------------------------
(* poll_process up to its loop, on every branch and at a page's end:       *)
(* inside a handler, or with IME clear, it returns at once; else it takes  *)
(* the bits by an exchange.                                                *)
Poll(bits, left) ==
  /\ Program
  /\ REG_IME
  /\ intr' = bits
  /\ signaled' = left
  /\ pc' = "scan"
  /\ start' = [frame |-> Frame, mode |-> cpu.mode]
  /\ UNCHANGED <<inside, registers, backup, context, owed>>
Taken == IF Core = "ARM7" THEN signaled \cap REG_IE ELSE signaled
(* Mutant: a handler's branches poll too.                                  *)
poll_process_nested == Poll(Taken, {})
(* Mutant: the early return comes after the exchange.                      *)
poll_process_late ==
  \/ ~inside /\ Poll(Taken, {})
  \/ /\ inside
     /\ signaled' = {}
     /\ UNCHANGED <<inside, registers, pc, intr, backup, context, history>>
poll_process == ~inside /\ Poll(Taken, {})

(* Mutant: the loop tests intr alone.                                      *)
NextBitUnmasked(n) == /\ n \in intr
                      /\ \A k \in intr : n <= k

(* The loop finds the next bit that is enabled by now and passes over the  *)
(* lower ones.  switch_and_invoke_old then calls the handler, whose        *)
(* address the program left in its working stack; the invoke stub sets its *)
(* link register.                                                          *)
NextBit(n) == /\ n \in intr \cap REG_IE
              /\ \A k \in intr \cap REG_IE : n <= k

switch_and_invoke_old(n, addr) ==
  LET irq == LoadMode(cpu, Irq)
  IN /\ pc = "scan"
     /\ NextBit(n)
     /\ intr' = {k \in intr : k > n}
     /\ REG_IF' = {n}
     /\ backup' = Frame
     /\ cpu' = [irq EXCEPT !.context[irq.mode].regs =
                  [r \in Reg |-> IF r = 15 THEN addr
                                ELSE IF r = 14 THEN Return ELSE @[r]]]
     /\ ebp' = irq.mode
     /\ inside' = TRUE
     /\ pc' = "handler"
     /\ owed' = [owed EXCEPT ![n] = @ - 1]
     /\ UNCHANGED <<signaled, REG_IME, REG_IE, VBLK, start>>

(* The handler branches to the return address 0xEFEF0000; the invoke stub  *)
(* pops ebp, then the interrupted mode and context are restored.           *)
(* Mutant: the context is put back into whatever mode the handler left.    *)
HandlerReturnsInMode ==
  /\ pc = "handler"
  /\ inside' = FALSE
  /\ ebp' = backup.ebp
  /\ cpu' = [cpu EXCEPT !.context[cpu.mode] = backup.context]
  /\ pc' = "scan"
  /\ UNCHANGED <<signaled, registers, intr, backup, history>>
(* Mutant: inside stays set.                                               *)
HandlerReturnsInside ==
  LET c == LoadMode(cpu, backup.context.field)
  IN /\ pc = "handler"
     /\ ebp' = backup.ebp
     /\ IF InvalidMode(backup.context.field, {"mode"})
        THEN /\ cpu' = c
             /\ pc' = "broken"
        ELSE /\ cpu' = [c EXCEPT !.context[c.mode] = backup.context]
             /\ pc' = "scan"
     /\ UNCHANGED <<signaled, inside, registers, intr, backup, history>>
HandlerReturns ==
  LET c == LoadMode(cpu, backup.context.field)
  IN /\ pc = "handler"
     /\ inside' = FALSE
     /\ ebp' = backup.ebp
     /\ IF InvalidMode(backup.context.field, {"mode"})
        THEN /\ cpu' = c
             /\ pc' = "broken"
        ELSE /\ cpu' = [c EXCEPT !.context[c.mode] = backup.context]
             /\ pc' = "scan"
     /\ UNCHANGED <<signaled, registers, intr, backup, history>>

(* No enabled bit is left; the branch goes on.                             *)
PollReturns ==
  /\ pc = "scan"
  /\ intr \cap REG_IE = {}
  /\ intr' = {}
  /\ pc' = "run"
  /\ UNCHANGED <<signaled, inside, registers, backup, context, history>>

-----------------------------------------------------------------------------
Store ==
  \/ \E b \in BOOLEAN : \/ store32(b, REG_IE, REG_IF, VBLK)
                       \/ store32(REG_IME, REG_IE, REG_IF, b)
  \/ \E S \in SUBSET Interrupts : \/ store32(REG_IME, S, REG_IF, VBLK)
                                  \/ store32(REG_IME, REG_IE, S, VBLK)

Dispatch == \E n \in Interrupts, addr \in Data : switch_and_invoke_old(n, addr)

Next == \/ \E n \in Interrupts : fire(n)
        \/ Store
        \/ \E r \in Reg, v \in Data : Write(r, v)
        \/ \E field \in Field : MSR_CPSR(field)
        \/ poll_process \/ Dispatch \/ HandlerReturns \/ PollReturns

Spec == Init /\ [][Next]_vars

(* The core's thread is scheduled, its program goes on branching and its   *)
(* handlers return.                                                        *)
FairSpec == /\ Spec
            /\ WF_vars(poll_process)
            /\ WF_vars(Dispatch)
            /\ WF_vars(HandlerReturns)
            /\ WF_vars(PollReturns)

-----------------------------------------------------------------------------
Pending == signaled \cup intr
FrameType == [context : Context, ebp : Mode]

TypeOK == /\ signaled \in SUBSET Interrupts
          /\ inside \in BOOLEAN
          /\ REG_IME \in BOOLEAN
          /\ REG_IE \in SUBSET Interrupts
          /\ REG_IF \in SUBSET Interrupts
          /\ VBLK \in BOOLEAN
          /\ pc \in {"run", "scan", "handler", "broken"}
          /\ intr \in SUBSET Interrupts
          /\ backup \in FrameType
          /\ cpu \in Cpu
          /\ ebp \in Mode
          /\ owed \in [Interrupts -> 0 .. MaxOwed]
          /\ start \in [frame : FrameType, mode : Mode]

(* Whatever modes a handler visits and whatever it writes, the interrupted *)
(* program finds its mode, its context and ebp as they were when it was    *)
(* interrupted, after every handler and so after the poll.                 *)
ContextRestored == pc = "scan" => cpu.mode = start.mode /\ Frame = start.frame

(* Handlers and interrupted program alike work on the current context, and *)
(* its cpsr names their mode ("in order to not desync ebp", line 121).     *)
InSync == Program => ebp = cpu.mode /\ FieldAgrees(cpu)

(* A handler is started only for an interrupt that is enabled at that very *)
(* moment, and at most once for each time that it was fired.               *)
DispatchJustified ==
  [][pc = "scan" /\ pc' = "handler"
       => \E n \in REG_IE : REG_IF' = {n} /\ owed[n] > 0]_vars

(* An enabled pending interrupt, fired at whatever moment of a poll or of  *)
(* a handler, stays pending until its handler is started.                  *)
KeptIfEnabled ==
  [][\A n \in Pending \ Pending' :
       \/ n \notin REG_IE
       \/ pc' = "handler" /\ REG_IF' = {n}]_vars

(* The strengthening: at most one handler runs, its backup is the frame    *)
(* the poll began with, that frame can be returned to or names no mode,    *)
(* and every pending bit has been fired since its handler was started,     *)
(* twice if it is pending twice.                                           *)
Phases == /\ pc # "broken" => (inside <=> pc = "handler")
          /\ pc = "run" => intr = {}

FrameKept == pc = "handler" => backup = start.frame

StartAgrees ==
  pc \in {"scan", "handler"} =>
    /\ start.frame.ebp = start.mode
    /\ IF start.frame.context.field \in ModeField
       THEN cpumode(start.frame.context.field) = start.mode
       ELSE start.mode = CPU_USER

PendingOwed == /\ \A n \in Pending : owed[n] > 0
               /\ \A n \in signaled \cap intr : owed[n] > 1

IInv == /\ TypeOK /\ ContextRestored /\ InSync
        /\ Phases /\ FrameKept /\ StartAgrees /\ PendingOwed

(* An interrupt that stays open is served: the next poll takes it, and the *)
(* poll that took it starts its handler, after those of lower numbers.     *)
Open(n) == REG_IME /\ n \in REG_IE /\ pc # "broken"
Served ==
  \A n \in Interrupts :
    /\ n \in signaled ~> n \in intr \/ ~Open(n)
    /\ n \in intr ~> (pc = "handler" /\ REG_IF = {n}) \/ ~Open(n)
=============================================================================
