---------------------------- MODULE Translation ----------------------------
(***************************************************************************)
(* Generated code against the instruction set.  A page of the guest is     *)
(* translated by Codegen and entered, by a branch, at any of its           *)
(* instructions; host runs the generated code and arm is the guest that    *)
(* the code stands for (ArmSemantics).                                     *)
(*                                                                         *)
(* A page is a short sequence of decoded instructions, the last ones of    *)
(* the page: what compile_instruction does depends on the two neighbours   *)
(* and on nothing further away.                                            *)
(*                                                                         *)
(* The generator is not right for every instruction.  Astray and Promised  *)
(* list what it gets wrong; sound, kept and live follow what may still be  *)
(* relied on, so that the properties say where code is right.              *)
(***************************************************************************)
EXTENDS Codegen, ArmSemantics

CONSTANTS Pages,        \* Sequences of decoded instructions.
          Values(_),    \* Of the registers R1 and R2, for a page.
          Amounts,      \* Of R3, a shift's amount, where it is used.
          Flags         \* The guest's flags at the entry.

VARIABLES page, pc, host, arm,
          kept,         \* The flags for which x86_flags is the guest's.
          live,         \* The flags for which the host's register is.
          sound         \* FALSE after an instruction that goes astray.
tvars == <<page, pc, host, arm, kept, live, sound>>

AllFlags == {"n", "z", "c", "v"}
NoFlags == Flag(FALSE, FALSE, FALSE, FALSE)

\* The first state of a page.  The host's flags are junk.
PageBase == 2 * PageSize
Guest(r1, r2, r3) ==
    [i \in 0 .. 14 |-> CASE i = 0 -> 24 [] i = 1 -> r1 [] i = 2 -> r2 [] i = 3 -> r3
                         [] i > 3 -> 16 + 8 * i]
HostAt(r, f, bits) ==
    [r |-> [i \in 0 .. 15 |-> IF i = 15 THEN PageBase + 4 + (bits % 2) ELSE r[i]],
     user |-> [i \in 0 .. 15 |-> 200 + i], x |-> f, f |-> Flag(~f.n, ~f.z, ~f.c, ~f.v),
     eax |-> 5, ecx |-> 6, edx |-> 7, esi |-> 8, bpre |-> 0, spsr |-> 90,
     control_register |-> 33, cpsr |-> "priv", stack |-> <<>>, log |-> <<>>,
     skip |-> 0, jump |-> -1, broken |-> FALSE]
ArmAt(r, f) ==
    [r |-> r, user |-> [i \in 0 .. 15 |-> 200 + i], f |-> f, log |-> <<>>, jump |-> -1,
     spsr |-> 90, control_register |-> 33, prefix |-> 0, page |-> PageBase]
Init ==
    /\ page = <<>>
    /\ pc = 0
    /\ host = HostAt(Guest(0, 0, 0), NoFlags, 2)
    /\ arm = ArmAt(Guest(0, 0, 0), NoFlags)
    /\ kept = AllFlags
    /\ live = AllFlags
    /\ sound = TRUE

------------------------------------------------------------------------------
\* What an instruction reads and sets.

SetsFlags(c) == c.inst[1] \in Compared \/ (c.s /\ c.inst[1] \notin {"LDM", "STM"})
InCondition(cond) ==
    CASE cond \in {0, 1} -> {"z"}    [] cond \in {2, 3} -> {"c"}
      [] cond \in {4, 5} -> {"n"}    [] cond \in {6, 7} -> {"v"}
      [] cond \in {8, 9} -> {"c", "z"}   [] cond \in {10, 11} -> {"n", "v"}
      [] cond \in {12, 13} -> {"n", "z", "v"}   [] cond \in {AL, NV} -> {}
\* HI and LS are tested with the carry inverted, which stays so.
Inverted(cond) == IF cond \in {8, 9} THEN {"c"} ELSE {}

\* The next instruction sets the flags anew without having read them, so they
\* need not be saved.  That it may be skipped, or set none (LDM and STM for
\* the user's registers), is forgotten.
Elided(k) ==
    /\ k < Len(page)
    /\ page[k + 1].s
    /\ page[k + 1].inst[1] \notin {"ADC", "SBC"}
    /\ page[k + 1].shift # "RRX"

\* The host's register when the condition is tested: either the flags that the
\* instruction before left there or x86_flags.
FromHost(k) == k > 1 /\ SetsFlags(page[k - 1]) /\ ~Elided(k)
Tested(k) == IF FromHost(k) THEN live ELSE kept
Fed(k) ==
    LET c == page[k]
        carry == CASE c.inst = <<"SBC", "I">> \/ c.inst[1] = "RSC" ->
                        Tested(k) \ Inverted(c.cond)
                   \* The shifter's carry takes the place of the tested flag.
                   [] c.inst = <<"SBC", "R">> ->
                        IF FromHost(k) \/ c.cond # AL THEN {} ELSE kept
                   [] c.inst[1] = "ADC" \/ c.shift = "RRX" -> kept
                   [] OTHER -> AllFlags
    IN  InCondition(c.cond) \subseteq Tested(k) /\ "c" \in carry

\* The flags that are right after c has set them.
Plain(c) == c.shift = "LSL" /\ c.imm = 0
Promised(c) ==
    LET name == c.inst[1]
        form == c.inst[2]
        nz == {"n", "z"}
        carry == IF Plain(c) THEN {} ELSE {"c"}
    IN  CASE name \in {"CMP", "CMN"} -> AllFlags
          [] name = "TST" -> nz
          [] name = "TEQ" -> IF form = "R" THEN nz ELSE {}
          [] name \in {"AND", "EOR", "ORR", "BIC"} ->
               (CASE form = "I" -> nz [] form = "R" -> nz \cup carry [] form = "RR" -> {})
          [] name = "MOV" ->
               (CASE form = "I" -> nz
                  [] form = "RR" -> (IF c.shift \in {"LSR", "ROR"} THEN nz
                                     ELSE IF c.shift = "ASR" THEN nz \cup {"c"} ELSE {})
                  [] form = "R" /\ c.imm = 0 -> IF c.rd = c.rm THEN {} ELSE nz
                  [] form = "R" /\ c.imm # 0 -> IF c.shift = "ROR" THEN {"c"} ELSE nz \cup {"c"})
          [] name = "MVN" -> IF form = "R" THEN carry ELSE {}
          [] name = "ADD" -> IF form = "I" /\ c.rd # c.rn /\ c.imm = 0 THEN {} ELSE AllFlags
          [] name = "SUB" -> IF form = "I" /\ c.rd # c.rn /\ c.imm = 0 THEN {} ELSE nz \cup {"v"}
          [] name = "RSB" -> IF form = "I" /\ c.imm # 0 THEN {} ELSE nz \cup {"v"}
          [] name = "RSC" -> nz
          [] name = "ADC" -> IF form = "I" /\ c.rd # c.rn THEN nz ELSE AllFlags
          [] name = "SBC" -> AllFlags
          [] name \in {"MUL", "MLA"} -> nz
          [] name \in {"UMLAL", "SMLAL"} -> {"n"}
          [] name \in {"UMULL", "SMULL"} -> {}

\* Instructions whose code does something else, and the ones that the
\* instruction set leaves open.
Astray(c) ==
    LET name == c.inst[1]
        form == c.inst[2]
        based == c.rn \in Registers(c)
    IN  \/ name = "CLZ" /\ c.rd = c.rm
        \/ name = "RSB" /\ form = "I" /\ c.imm # 0 /\ c.rn # c.rd
        \/ name = "ORR" /\ form = "RR" /\ c.rn # c.rd
        \/ name \in {"MOV", "ORR"} /\ form = "RR" /\ c.shift = "LSL" /\ arm.r[c.rs] >= W
        \/ name = "MOV" /\ c.rd = c.rm /\ c.shift = "RRX"
        \/ name = "BLX" /\ c.rm = 14
        \/ name = "STM" /\ form = "W" /\ based /\ Below(c, c.rn) > 0
        \/ name = "LDM" /\ form = "W" /\ based
        \/ c.inst[2] = "SPSR" /\ name # "MRS" /\ c.rn \notin {0, 15}
        \/ Len(c.inst) = 3 /\ c.rn = 15 /\ c.inst[3] # "P"
        \/ Len(c.inst) = 3 /\ form = "R" /\ name # "LDR" /\ (~c.u \/ c.shift = "RRX")

------------------------------------------------------------------------------
\* A branch into a translated page, but for two kinds of instructions.  The
\* code of one that follows one that sets the flags takes them from the host's
\* register, which the function that jumps here does not fill (HLE.cpp), and
\* the second half of a Thumb call needs the first.
ExpectsFlags(p, k) ==
    LET c == AtIndex(p, k)
    IN  c.updated /\ ~c.look
        /\ (c.cond \notin {AL, NV} \/ c.inst[1] \in {"SBC", "RSC"})
Halved(p, k) == k > 1 /\ p[k - 1].inst[1] = "BPRE"
UsesAmount(p) == \E k \in 1 .. Len(p) : p[k].inst[2] = "RR" \/ p[k].inst[1] \in {"MLA", "UMLAL"}
Enter ==
    /\ pc = 0
    /\ \E p \in Pages :
         /\ page' = p
         /\ pc' \in {k \in 1 .. Len(p) : ~ExpectsFlags(p, k) /\ ~Halved(p, k)}
         /\ \E r1 \in Values(p), r2 \in Values(p), f \in Flags,
               r3 \in IF UsesAmount(p) THEN Amounts ELSE {3} :
              /\ host' = HostAt(Guest(r1, r2, r3), f, p[1].bits)
              /\ arm' = ArmAt(Guest(r1, r2, r3), f)
    /\ UNCHANGED <<kept, live, sound>>

\* The code of the next instruction, and the instruction.
Step ==
    LET c == page[pc]
        executed == Holds(arm.f, c.cond)
    IN  /\ pc \in 1 .. Len(page)
        /\ host' = Run(host, compile_instruction(AtIndex(page, pc)))
        /\ arm' = Obey(arm, AtIndex(page, pc))
        /\ sound' = (sound /\ Fed(pc) /\ ~(executed /\ Astray(c)))
        /\ IF executed /\ SetsFlags(c)
           THEN live' = Promised(c) /\ kept' = IF Elided(pc) THEN {} ELSE Promised(c)
           ELSE live' = Tested(pc) \ Inverted(c.cond) /\ UNCHANGED kept
        /\ pc' = IF arm'.jump # -1 \/ host'.broken THEN Len(page) + 2 ELSE pc + 1
        /\ UNCHANGED page

\* Past the last instruction, into the next page.
Leave ==
    /\ page # <<>>
    /\ pc = Len(page) + 1
    /\ host' = Run(host, epilogue)
    /\ arm' = [arm EXCEPT !.jump = PageBase + PageSize + ThumbBit(page[1])]
    /\ pc' = pc + 1
    /\ UNCHANGED <<page, kept, live, sound>>

Next == Enter \/ Step \/ Leave
Spec == Init /\ [][Next]_tvars

------------------------------------------------------------------------------
Claimed == sound /\ ~host.broken

\* The guest's registers, the user's banked ones and the status and control
\* registers are the instruction set's, whatever operand forms, aliases of
\* registers, shifts and conditions the page has and wherever it is entered:
\* the flags that reach an instruction's condition or carry, by x86_flags or
\* left in the host's register, are the right ones (compile_instruction).
RegistersAgree ==
    Claimed => /\ \A i \in 0 .. 14 : host.r[i] = arm.r[i]
               /\ \A i \in Banked : host.user[i] = arm.user[i]
               /\ host.spsr = arm.spsr
               /\ host.control_register = arm.control_register

\* Loads, stores, block transfers and calls happen in the guest's order at the
\* guest's addresses with its data, and a branch, a load of R15 or the end of
\* the page leads where the guest goes.
AccessesAgree == Claimed => host.log = arm.log /\ host.jump = arm.jump

\* x86_flags is the guest's flags, as far as the last instruction that set
\* them promises them: an update is left out only when the next instruction
\* sets them again.
FlagsAgree == Claimed => \A flag \in kept : host.x[flag] = arm.f[flag]

\* Between instructions and at a jump the host's stack is empty: it holds
\* nothing but the return into the runner.
StackBalanced == ~host.broken => host.stack = <<>>
==============================================================================
