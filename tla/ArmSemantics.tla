---------------------------- MODULE ArmSemantics ----------------------------
(***************************************************************************)
(* The reference for generated code: what the architecture says that an    *)
(* instruction does to the guest's registers, flags and memory.  It is     *)
(* written from the instruction set and has no counterpart in the source.  *)
(* Memory, the coprocessor's and the status register's effects are logged  *)
(* in the order they happen, as the host machine logs them.                *)
(***************************************************************************)
EXTENDS X86

Address(a, c) == a.page + c.at * 2 ^ c.bits
\* R15 reads two instructions ahead; where it is a base, as a word's address.
Reg(a, c, n) == IF n = 15 THEN (Address(a, c) + 2 ^ (c.bits + 1)) % M ELSE a.r[n]
Base(a, c) == IF c.rn = 15 THEN 4 * (Reg(a, c, 15) \div 4) ELSE a.r[c.rn]
ThumbBit(c) == IF c.bits = 1 THEN 1 ELSE 0
SetReg(a, n, v) == IF n = 15 THEN [a EXCEPT !.jump = v] ELSE [a EXCEPT !.r[n] = v]
Logged(a, entry) == [a EXCEPT !.log = Append(@, entry)]

BitOf(v, i) == (v \div 2 ^ i) % 2 = 1
ShiftedBy(kind, v, n, carry) ==
    CASE n = 0 -> [v |-> v, c |-> carry]
      [] n > 0 /\ kind = "LSL" ->
           [v |-> IF n < W THEN (v * 2 ^ n) % M ELSE 0, c |-> n <= W /\ BitOf(v, W - n)]
      [] n > 0 /\ kind = "LSR" ->
           [v |-> IF n < W THEN v \div 2 ^ n ELSE 0, c |-> n <= W /\ BitOf(v, n - 1)]
      [] n > 0 /\ kind = "ASR" ->
           [v |-> (Signed(v) \div 2 ^ (IF n < W THEN n ELSE W)) % M,
            c |-> IF n <= W THEN BitOf(v, n - 1) ELSE Negative(v)]
      [] n > 0 /\ kind = "ROR" ->
           [v |-> (v \div 2 ^ (n % W)) + ((v * 2 ^ (W - (n % W))) % M),
            c |-> BitOf(v, (n - 1) % W)]
ShiftedReg(a, c) ==
    LET v == Reg(a, c, c.rm)
    IN  IF c.shift = "RRX"
        THEN [v |-> (v \div 2) + Num(a.f.c) * (M \div 2), c |-> v % 2 = 1]
        ELSE ShiftedBy(c.shift, v, c.imm, a.f.c)
Operand(a, c) ==
    CASE c.inst[2] = "I" -> [v |-> c.imm % M, c |-> a.f.c]
      [] c.inst[2] = "R" -> ShiftedReg(a, c)
      [] c.inst[2] = "RR" -> ShiftedBy(c.shift, a.r[c.rm], a.r[c.rs], a.f.c)

AddWithCarry(p, q, k) ==
    LET v == (p + q + k) % M
    IN  [v |-> v, f |-> Flag(Negative(v), v = 0, p + q + k >= M,
                             Signed(p) + Signed(q) + k # Signed(v))]
Not1(v) == M - 1 - v
Arithmetic == {"ADD", "ADC", "SUB", "SBC", "RSB", "RSC", "CMP", "CMN"}
Compared == {"TST", "TEQ", "CMP", "CMN"}
Computed(a, c) ==
    LET n == IF c.inst[2] = "I" THEN Base(a, c) ELSE Reg(a, c, c.rn)
        o == Operand(a, c).v
        k == Num(a.f.c)
    IN  CASE c.inst[1] \in {"ADD", "CMN"} -> AddWithCarry(n, o, 0)
          [] c.inst[1] = "ADC" -> AddWithCarry(n, o, k)
          [] c.inst[1] \in {"SUB", "CMP"} -> AddWithCarry(n, Not1(o), 1)
          [] c.inst[1] = "SBC" -> AddWithCarry(n, Not1(o), k)
          [] c.inst[1] = "RSB" -> AddWithCarry(o, Not1(n), 1)
          [] c.inst[1] = "RSC" -> AddWithCarry(o, Not1(n), k)
          [] c.inst[1] \notin Arithmetic ->
               LET v == CASE c.inst[1] \in {"AND", "TST"} -> n & o
                          [] c.inst[1] \in {"EOR", "TEQ"} -> n ^^ o
                          [] c.inst[1] = "ORR" -> n | o
                          [] c.inst[1] = "BIC" -> n & Not1(o)
                          [] c.inst[1] = "MOV" -> o
                          [] c.inst[1] = "MVN" -> Not1(o)
               IN  [v |-> v, f |-> Flag(Negative(v), v = 0, Operand(a, c).c, a.f.v)]
DataOperation(a, c) ==
    LET result == Computed(a, c)
        b == IF c.s \/ c.inst[1] \in Compared THEN [a EXCEPT !.f = result.f] ELSE a
    IN  CASE c.inst[1] \in Compared -> b
          [] c.inst[1] \notin Compared /\ c.rd # 15 -> SetReg(b, c.rd, result.v)
          [] c.inst[1] \notin Compared /\ c.rd = 15 ->
               SetReg(b, 15, 2 * (result.v \div 2) + ThumbBit(c))

LeadingZeros(v) == CHOOSE n \in 0 .. W : /\ n < W => BitOf(v, W - 1 - n)
                                         /\ \A i \in 0 .. n - 1 : ~BitOf(v, W - 1 - i)
Product(a, c) ==
    LET long == c.inst[1] \in {"UMULL", "UMLAL", "SMULL", "SMLAL"}
        signed == c.inst[1] \in {"SMULL", "SMLAL"}
        p == IF signed THEN Signed(a.r[c.rm]) * Signed(a.r[c.rs]) ELSE a.r[c.rm] * a.r[c.rs]
        v == (p + (CASE c.inst[1] = "MLA" -> a.r[c.rn]
                     [] c.inst[1] \in {"UMLAL", "SMLAL"} -> a.r[c.rd] + M * a.r[c.rn]
                     [] OTHER -> 0)) % (M * M)
        b == IF long THEN [a EXCEPT !.r[c.rd] = v % M, !.r[c.rn] = v \div M]
                     ELSE [a EXCEPT !.r[c.rd] = v % M]
        top == IF long THEN v \div M ELSE v % M
    IN  IF ~c.s THEN b
        ELSE [b EXCEPT !.f.n = Negative(top), !.f.z = (v % (IF long THEN M * M ELSE M) = 0)]

------------------------------------------------------------------------------
\* Transfers.  An index is P (add first), W (and keep), none (add afterwards).
Size(c) == CASE c.inst[1] \in {"LDR", "STR"} -> "32"
             [] c.inst[1] \in {"LDRB", "STRB"} -> "8u"
             [] c.inst[1] \in {"LDRX", "STRX"} ->
                  (CASE c.ext = "H" -> "16u" [] c.ext = "SH" -> "16s" [] c.ext = "SB" -> "8u")
Offset(a, c) ==
    IF c.inst[2] = "I" THEN c.imm ELSE IF c.u THEN ShiftedReg(a, c).v ELSE -ShiftedReg(a, c).v
Transfer(a, c) ==
    LET moved == (Base(a, c) + Offset(a, c)) % M
        where == IF c.inst[3] = "" THEN Base(a, c) ELSE moved
        b == IF c.inst[3] = "P" THEN a ELSE SetReg(a, c.rn, moved)
        v == IF c.inst[1] = "LDRX" /\ c.ext = "SB" THEN Extended(Content(where), W \div 4)
             ELSE Loaded(Size(c), where)
    IN  IF c.inst[1] \in {"LDR", "LDRB", "LDRX"}
        THEN SetReg(Logged(b, <<"load", Size(c), where>>), c.rd, v)
        ELSE Logged(b, <<"store", Size(c), where, Reg(a, c, c.rd)>>)
SwapTransfer(a, c) ==
    LET size == IF c.inst[1] = "SWP" THEN "32" ELSE "8u"
        at == a.r[c.rn]
    IN  SetReg(Logged(Logged(a, <<"load", size, at>>), <<"store", size, at, a.r[c.rm]>>),
               c.rd, Loaded(size, at))

Registers(c) == {i \in 0 .. 15 : BitOf(c.imm, i)}
Below(c, i) == Cardinality({j \in Registers(c) : j < i})
Block(a, c) ==
    LET n == Cardinality(Registers(c))
        start == (a.r[c.rn] + (CASE c.mode = "IA" -> 0 [] c.mode = "IB" -> 4
                                 [] c.mode = "DA" -> 4 - 4 * n [] c.mode = "DB" -> -4 * n)) % M
        final == (a.r[c.rn] + (IF c.mode \in {"IA", "IB"} THEN 4 * n ELSE -4 * n)) % M
        b == IF c.inst[2] = "W" THEN [a EXCEPT !.r[c.rn] = final] ELSE a
        Item(i) == Content((start + 4 * Below(c, i)) % M)
        \* A base that is not the first to be stored is stored as updated.
        Stored(i) == IF Below(c, i) = 0 THEN a.r[i] ELSE b.r[i]
        InUser(i) == c.s /\ i \in Banked
    IN  IF c.inst[1] = "STM"
        THEN Logged(b, IF n = 1 THEN <<"store", "32", start, a.r[CHOOSE i \in Registers(c) : TRUE]>>
                       ELSE <<"store_array", start, n,
                              [k \in 1 .. n |-> Stored(CHOOSE i \in Registers(c) :
                                                         Below(c, i) = k - 1)]>>)
        ELSE [Logged(b, IF n = 1 /\ ~c.s THEN <<"load", "32", start>>
                        ELSE <<"load_array", start, n>>) EXCEPT
               !.r = [i \in DOMAIN @ |-> IF i \in Registers(c) /\ ~InUser(i) /\ i # 15
                                         THEN Item(i) ELSE @[i]],
               !.user = [i \in DOMAIN @ |-> IF i \in Registers(c) /\ InUser(i)
                                            THEN Item(i) ELSE @[i]],
               !.jump = IF 15 \in Registers(c) THEN Item(15) ELSE @]

------------------------------------------------------------------------------
\* Branches; the first half of a Thumb branch with link sets the prefix.
Linked(a, c) == [a EXCEPT !.r[14] = Address(a, c) + 2 ^ c.bits + ThumbBit(c)]
BranchTo(a, c) ==
    LET target == IF c.bits = 1 THEN a.prefix + c.imm ELSE Address(a, c) + c.imm
    IN  CASE c.inst[1] = "B" -> [a EXCEPT !.jump = (Address(a, c) + c.imm + ThumbBit(c)) % M]
          [] c.inst[1] = "BL" -> [Linked(a, c) EXCEPT !.jump = (target + ThumbBit(c)) % M]
          [] c.inst[1] = "BLX_I" -> [Linked(a, c) EXCEPT !.jump = 4 * ((target % M) \div 4)]
          [] c.inst[1] = "BX" -> [a EXCEPT !.jump = Reg(a, c, c.rm)]
          [] c.inst[1] = "BLX" -> [Linked(a, c) EXCEPT !.jump = Reg(a, c, c.rm)]
          [] c.inst[1] = "BPRE" -> [a EXCEPT !.prefix = Address(a, c) + c.imm]

\* The status registers' bytes selected by rn, and the coprocessor's.
Byte(v, k) == (v \div 2 ^ (k * (W \div 4))) % 2 ^ (W \div 4)
Merged(old, new, n) ==
    MapThenSumSet(LAMBDA k : (IF BitOf(n, k) THEN Byte(new, k) ELSE Byte(old, k))
                             * 2 ^ (k * (W \div 4)), 0 .. 3)
Status(a, c) ==
    LET v == IF c.inst[1] = "MSR_I" THEN c.imm % M ELSE a.r[c.rm]
    IN  CASE c.inst = <<"MRS", "SPSR">> -> SetReg(a, c.rd, a.spsr)
          [] c.inst = <<"MRS", "CPSR">> -> SetReg(Logged(a, <<"storecpsr">>), c.rd, 1)
          [] c.inst[1] # "MRS" /\ c.inst[2] = "SPSR" ->
               [a EXCEPT !.spsr = Merged(@, v, c.rn)]
          [] c.inst[1] # "MRS" /\ c.inst[2] = "CPSR" /\ c.rn # 0 ->
               Logged(a, <<"loadcpsr", v, Merged(0, M - 1, c.rn)>>)
          [] c.inst[1] # "MRS" /\ c.inst[2] = "CPSR" /\ c.rn = 0 -> a
Coprocessor(a, c) ==
    CASE c.inst[1] = "MRC" -> SetReg(a, c.rd, IF c.rn = 1 THEN a.control_register ELSE 96)
      [] c.inst[1] = "MCR" /\ c.rn = 1 -> [a EXCEPT !.control_register = a.r[c.rd]]
      [] c.inst[1] = "MCR" /\ c.rn = 9 /\ c.rm = 1 ->
           Logged(a, <<"remap_tcm", a.r[c.rd], c.cp_op2>>)
      [] OTHER -> a

------------------------------------------------------------------------------
Holds(f, cond) ==
    CASE cond = 0 -> f.z          [] cond = 1 -> ~f.z
      [] cond = 2 -> f.c          [] cond = 3 -> ~f.c
      [] cond = 4 -> f.n          [] cond = 5 -> ~f.n
      [] cond = 6 -> f.v          [] cond = 7 -> ~f.v
      [] cond = 8 -> f.c /\ ~f.z  [] cond = 9 -> ~f.c \/ f.z
      [] cond = 10 -> f.n = f.v   [] cond = 11 -> f.n # f.v
      [] cond = 12 -> ~f.z /\ f.n = f.v   [] cond = 13 -> f.z \/ f.n # f.v
      [] cond \in {14, 15} -> TRUE
Obey(a, c) ==
    CASE ~Holds(a.f, c.cond) -> a
      [] Holds(a.f, c.cond) /\ Len(c.inst) = 3 -> Transfer(a, c)
      [] Holds(a.f, c.cond) /\ c.inst[1] \in {"STM", "LDM"} -> Block(a, c)
      [] Holds(a.f, c.cond) /\ c.inst[1] \in {"SWP", "SWPB"} -> SwapTransfer(a, c)
      [] Holds(a.f, c.cond) /\ c.inst[1] \in {"B", "BL", "BLX", "BLX_I", "BX", "BPRE"} ->
           BranchTo(a, c)
      [] Holds(a.f, c.cond) /\ c.inst[1] \in {"MRS", "MSR_I", "MSR_R"} -> Status(a, c)
      [] Holds(a.f, c.cond) /\ c.inst[1] \in {"MRC", "MCR"} -> Coprocessor(a, c)
      [] Holds(a.f, c.cond) /\ c.inst[1] = "CLZ" -> SetReg(a, c.rd, LeadingZeros(a.r[c.rm]))
      [] Holds(a.f, c.cond) /\ c.inst[1] \in {"MUL", "MLA", "UMULL", "UMLAL", "SMULL", "SMLAL"} ->
           Product(a, c)
      [] Holds(a.f, c.cond) /\ c.inst[1] = "SWI" -> Logged(a, <<"swi", c.imm>>)
      [] Holds(a.f, c.cond) /\ c.inst[1] = "PLD" -> a
      [] OTHER -> DataOperation(a, c)
==============================================================================
