------------------------------- MODULE Decoder -------------------------------
(***************************************************************************)
(* The disassembler (Disassembler.h, Disassembler.cpp): one ARM word or    *)
(* Thumb halfword becomes an operation and the operands it names.  A       *)
(* disassembler object is used for word after word and keeps its context   *)
(* c; decode clears the flags and the shift only, so what a handler does   *)
(* not set is what an earlier word left there.  Such a field is Stale      *)
(* here.  The flag S_CONSUMING is left out: nothing reads it.              *)
(*                                                                         *)
(* An operation of INST::CODE is a pair: its name and its form.  A word is *)
(* the pair of its halves.  Words are decoded at address 0, as compile     *)
(* does (branch targets are relative).                                     *)
(***************************************************************************)
EXTENDS Integers, Sequences

CONSTANTS Highs, Lows, Thumbs     \* Halves of ARM words; Thumb halfwords.
Halfword == 0 .. 65535
ASSUME HalvesAreHalfwords ==
    Highs \subseteq Halfword /\ Lows \subseteq Halfword /\ Thumbs \subseteq Halfword
VARIABLES isa, ctx                \* IS_ARM or IS_THUMB; the context.
vars == <<isa, ctx>>

Bits(op, first, n) ==
    IF first >= 16 THEN (op.hi \div 2 ^ (first - 16)) % 2 ^ n
                   ELSE (op.lo \div 2 ^ first) % 2 ^ n
Low24(op) == 65536 * Bits(op, 16, 8) + op.lo      \* bits 23..0
Bit(op, i) == Bits(op, i, 1) = 1
decode_reg(op, first) == Bits(op, first, 4)
decode_regt(op, first) == Bits(op, first, 3)
SignExtend(v, n) == IF v >= 2 ^ (n - 1) THEN v - 2 ^ n ELSE v
_rotr(v, r) == IF r = 0 THEN v ELSE v \div 2 ^ r + (v % 2 ^ r) * 2 ^ (32 - r)

DataOps == <<"AND", "EOR", "SUB", "RSB", "ADD", "ADC", "SBC", "RSC",
             "TST", "TEQ", "CMP", "CMN", "ORR", "MOV", "BIC", "MVN">>
Shifts == <<"LSL", "LSR", "ASR", "ROR">>
ExtendModes == <<"INVALID", "H", "SB", "SH">>
AddressingModes == <<"DA", "IA", "DB", "IB">>
AL == 14
NV == 15

Stale == -(2 ^ 30)      \* No operand has this value.
StaleContext ==
    [op |-> [hi |-> 0, lo |-> 0], inst |-> <<"UD", "">>, cond |-> AL,
     s |-> FALSE, u |-> FALSE, shift |-> "LSL",
     ext |-> "", mode |-> "", imm |-> Stale,
     rd |-> Stale, rn |-> Stale, rm |-> Stale, rs |-> Stale,
     cp_num |-> Stale, cp_op1 |-> Stale, cp_op2 |-> Stale]

Inst(c, name, form) == [c EXCEPT !.inst = <<name, form>>]
inst_ud(c) == Inst(c, "UD", "")
inst_unknown(c) == Inst(c, "UNKNOWN", "")
SBit(c) == [c EXCEPT !.s = @ \/ Bit(c.op, 20)]

\* decode_shift: an immediate of 0 means 32, or RRX instead of ROR.
decode_shift(c) ==
    LET kind == Shifts[Bits(c.op, 5, 2) + 1]
        n    == Bits(c.op, 7, 5)
    IN  [c EXCEPT !.shift = IF n = 0 /\ kind = "ROR" THEN "RRX" ELSE kind,
                  !.imm = IF n = 0 /\ kind \in {"LSR", "ASR"} THEN 32 ELSE n]

decode_shift_reg(c) ==
    [c EXCEPT !.shift = Shifts[Bits(c.op, 5, 2) + 1],
              !.rs = decode_reg(c.op, 8)]

decode_addressingmode2(c) ==
    [c EXCEPT !.rn = decode_reg(c.op, 16), !.rd = decode_reg(c.op, 12),
              !.imm = IF Bit(c.op, 23) THEN Bits(c.op, 0, 12)
                                       ELSE -Bits(c.op, 0, 12),
              !.u = @ \/ Bit(c.op, 23)]

\* A load or store: its form, and its index, P (bit 24) and W (bit 21).
Indexed(c, name, form) ==
    [c EXCEPT !.inst = <<name, form,
        <<"", "W", "P", "PW">>[2 * Bits(c.op, 24, 1) + Bits(c.op, 21, 1) + 1]>>]
Transfer(c, form) ==
    Indexed(c, <<"STR", "LDR", "STRB", "LDRB">>
                   [2 * Bits(c.op, 22, 1) + Bits(c.op, 20, 1) + 1], form)

decode_instruction_NV(c) ==
    IF /\ ~Bit(c.op, 27) /\ Bit(c.op, 26) /\ Bit(c.op, 24)
       /\ Bits(c.op, 20, 3) = 5
    THEN LET d == decode_addressingmode2(c)
         IN  IF d.rd # 15 THEN inst_ud(d)
             ELSE Inst(d, "PLD", IF Bit(c.op, 25) THEN "I" ELSE "R")
    ELSE inst_ud(c)

decode_misc(c) ==
    LET sub_op == Bits(c.op, 21, 2)
        kind   == Bits(c.op, 4, 3)
        psr    == IF sub_op < 2 THEN "CPSR" ELSE "SPSR"
    IN  CASE Bit(c.op, 7) -> inst_ud(c)
          [] ~Bit(c.op, 7) /\ kind = 0 ->
               IF c.rs # 0 THEN inst_unknown(c)
               ELSE IF sub_op \in {0, 2}
                    THEN IF c.rn # 15 THEN inst_unknown(c) ELSE Inst(c, "MRS", psr)
                    ELSE IF c.rd # 15 THEN inst_unknown(c)
                         ELSE Inst(c, "MSR_R", psr)
          [] ~Bit(c.op, 7) /\ kind = 1 ->
               IF c.rn # 15 \/ c.rs # 15 THEN inst_unknown(c)
               ELSE IF sub_op = 1
                    THEN IF c.rd # 15 THEN inst_unknown(c) ELSE Inst(c, "BX", "")
                    ELSE IF sub_op = 3 THEN Inst(c, "CLZ", "") ELSE inst_ud(c)
          [] ~Bit(c.op, 7) /\ kind = 3 ->
               IF sub_op # 1 THEN inst_ud(c)
               ELSE IF c.rn # 15 \/ c.rd # 15 \/ c.rs # 15 THEN inst_unknown(c)
               ELSE Inst(c, "BLX", "")
          [] ~Bit(c.op, 7) /\ kind = 7 ->
               IF sub_op # 1 THEN inst_ud(c)
               ELSE IF c.cond # AL THEN inst_unknown(c)
               ELSE Inst([c EXCEPT !.imm = Bits(c.op, 0, 4)
                                         + 16 * Bits(c.op, 8, 8)
                                         + 4096 * Bits(c.op, 16, 4)],
                         "DEBUG", "")
          [] ~Bit(c.op, 7) /\ kind \in {2, 4, 5, 6} -> inst_ud(c)
decode_misc2(c) == decode_misc([c EXCEPT !.rs = decode_reg(c.op, 8)])

inst_ldrd(c) == Indexed(c, "LDRD", IF Bit(c.op, 22) THEN "RI" ELSE "R")

\* Mutant: the registers are where the data operations have them.
decode_00000_mula_unswapped(c) ==
    LET d == SBit([c EXCEPT !.rs = decode_reg(c.op, 8)])
    IN  IF Bit(c.op, 22) THEN inst_ud(c)
        ELSE IF Bit(c.op, 21) THEN Inst(d, "MLA", "R")
        ELSE IF d.rd # 0 THEN inst_unknown(d) ELSE Inst(d, "MUL", "R")
decode_00000_mula(c) ==
    LET d == SBit([c EXCEPT !.rs = decode_reg(c.op, 8),
                            !.rn = decode_reg(c.op, 12),
                            !.rd = decode_reg(c.op, 16)])
    IN  IF Bit(c.op, 22) THEN inst_ud(c)
        ELSE IF Bit(c.op, 21) THEN Inst(d, "MLA", "R")
        ELSE IF d.rn # 0 THEN inst_unknown(d) ELSE Inst(d, "MUL", "R")

decode_00001_mulal(c) ==
    Inst(SBit([c EXCEPT !.rs = decode_reg(c.op, 8)]),
         <<"UMULL", "UMLAL", "SMULL", "SMLAL">>[Bits(c.op, 21, 2) + 1], "")

decode_00010_swap(c) ==
    CASE Bits(c.op, 20, 3) = 0 -> Inst(c, "SWP", "")
      [] Bits(c.op, 20, 3) = 4 -> Inst(c, "SWPB", "")
      [] Bits(c.op, 20, 3) \notin {0, 4} -> inst_ud(c)

decode_000_mulswap(c) ==
    CASE Bits(c.op, 23, 2) = 0 -> decode_00000_mula(c)
      [] Bits(c.op, 23, 2) = 1 -> decode_00001_mulal(c)
      [] Bits(c.op, 23, 2) = 2 -> decode_00010_swap(c)
      [] Bits(c.op, 23, 2) = 3 -> inst_ud(c)

decode_000_mul_extraloadstore(c) ==
    LET imm == 16 * Bits(c.op, 8, 4) + c.rm
        ext == ExtendModes[Bits(c.op, 5, 2) + 1]
        d   == [c EXCEPT !.imm = IF Bit(c.op, 23) THEN imm ELSE -imm,
                         !.u = @ \/ Bit(c.op, 23), !.ext = ext]
        name == IF Bit(c.op, 20) THEN "LDRX" ELSE "STRX"
    IN  CASE ext = "INVALID" -> decode_000_mulswap(d)
          [] ext = "SB" /\ ~Bit(c.op, 20) -> inst_ldrd(d)
          [] ext # "INVALID" /\ (ext = "SB" => Bit(c.op, 20)) ->
               IF Bit(c.op, 22) THEN Indexed(d, name, "I")
               ELSE Indexed([d EXCEPT !.imm = 0, !.shift = "LSL"], name, "R")

\* The sixteen data operations.  Without S, a test is another instruction.
Data(c, form, untested) ==
    LET opcode == Bits(c.op, 21, 4)
    IN  IF opcode \in 8 .. 11 /\ ~Bit(c.op, 20) THEN untested
        ELSE Inst(c, DataOps[opcode + 1], form)

decode_000_regs(c) ==
    IF Bit(c.op, 7) THEN decode_000_mul_extraloadstore(c)
    ELSE LET d == decode_shift_reg(SBit(c)) IN Data(d, "RR", decode_misc(d))
decode_000_imms(c) ==
    LET d == decode_shift(SBit(c)) IN Data(d, "R", decode_misc2(d))
decode_000_data_reg(c) ==
    LET d == [c EXCEPT !.rn = decode_reg(c.op, 16), !.rd = decode_reg(c.op, 12),
                       !.rm = decode_reg(c.op, 0)]
    IN  IF Bit(c.op, 4) THEN decode_000_regs(d) ELSE decode_000_imms(d)

MSR_I(c) ==
    CASE Bits(c.op, 21, 4) \in {8, 10} -> inst_ud(c)
      [] Bits(c.op, 21, 4) = 9 ->
           IF c.rd # 15 THEN inst_unknown(c) ELSE Inst(c, "MSR_I", "CPSR")
      [] Bits(c.op, 21, 4) = 11 ->
           IF c.rd # 0 THEN inst_unknown(c) ELSE Inst(c, "MSR_I", "SPSR")
decode_001_data_imm(c) ==
    LET d == SBit([c EXCEPT !.rn = decode_reg(c.op, 16), !.rd = decode_reg(c.op, 12),
                            !.imm = _rotr(Bits(c.op, 0, 8), 2 * Bits(c.op, 8, 4))])
    IN  Data(d, "I", MSR_I(d))

decode_010_loadstore_imm(c) == Transfer(decode_addressingmode2(c), "I")
decode_011_loadstore_reg(c) ==
    IF Bit(c.op, 4) THEN inst_ud(c)
    ELSE Transfer(decode_shift([c EXCEPT !.u = @ \/ Bit(c.op, 23),
                                         !.rn = decode_reg(c.op, 16),
                                         !.rd = decode_reg(c.op, 12),
                                         !.rm = decode_reg(c.op, 0)]), "R")

decode_100_loadstoremultiple(c) ==
    Inst([c EXCEPT !.rn = decode_reg(c.op, 16), !.imm = Bits(c.op, 0, 16),
                   !.s = @ \/ Bit(c.op, 22),
                   !.mode = AddressingModes[Bits(c.op, 23, 2) + 1]],
         <<"STM", "LDM">>[Bits(c.op, 20, 1) + 1], IF Bit(c.op, 21) THEN "W" ELSE "")

decode_101_branch(c) ==
    Inst([c EXCEPT !.imm = 4 * SignExtend(Low24(c.op), 24) + 8],
         IF Bit(c.op, 24) THEN "BL" ELSE "B", "")

decode_swi(c) == Inst([c EXCEPT !.imm = Low24(c.op)], "SWI", "")
\* Mutant: a register transfer counts on its first opcode having been decoded.
decode_coproc_without_op1(c) ==
    LET d == [c EXCEPT !.rn = decode_reg(c.op, 16), !.rd = decode_reg(c.op, 12),
                       !.cp_num = decode_reg(c.op, 8), !.rm = decode_reg(c.op, 0),
                       !.cp_op2 = Bits(c.op, 5, 3)]
    IN  IF ~Bit(c.op, 4) THEN inst_ud(d)
        ELSE Inst(d, IF Bit(c.op, 20) THEN "MRC" ELSE "MCR", "")
decode_coproc(c) ==
    LET d == [c EXCEPT !.rn = decode_reg(c.op, 16), !.rd = decode_reg(c.op, 12),
                       !.cp_num = decode_reg(c.op, 8), !.rm = decode_reg(c.op, 0),
                       !.cp_op2 = Bits(c.op, 5, 3)]
    IN  IF Bit(c.op, 4)
        THEN Inst([d EXCEPT !.cp_op1 = Bits(c.op, 21, 3)],
                  IF Bit(c.op, 20) THEN "MRC" ELSE "MCR", "")
        ELSE inst_ud([d EXCEPT !.cp_op1 = Bits(c.op, 20, 4)])

decode_instruction(c) ==
    IF c.cond = NV THEN decode_instruction_NV(c)
    ELSE CASE Bits(c.op, 25, 3) = 0 -> decode_000_data_reg(c)
           [] Bits(c.op, 25, 3) = 1 -> decode_001_data_imm(c)
           [] Bits(c.op, 25, 3) = 2 -> decode_010_loadstore_imm(c)
           [] Bits(c.op, 25, 3) = 3 -> decode_011_loadstore_reg(c)
           [] Bits(c.op, 25, 3) = 4 -> decode_100_loadstoremultiple(c)
           [] Bits(c.op, 25, 3) = 5 -> decode_101_branch(c)
           [] Bits(c.op, 25, 3) = 6 -> inst_ud(c)
           [] Bits(c.op, 25, 3) = 7 ->
                IF Bit(c.op, 24) THEN decode_swi(c) ELSE decode_coproc(c)

\* decode: the context of the word before, with flags and shift cleared.
Cleared(c, op) == [c EXCEPT !.op = op, !.s = FALSE, !.u = FALSE, !.shift = "LSL"]
decode_arm(c, op) ==
    decode_instruction([Cleared(c, op) EXCEPT !.cond = Bits(op, 28, 4)])

------------------------------------------------------------------------------
\* Thumb halfwords; op.lo is the halfword.  Every operation is the one of an
\* ARM instruction.

decode_t000(c) ==
    LET rn  == decode_regt(c.op, 3)
        rm  == decode_regt(c.op, 6)
        n   == Bits(c.op, 6, 5)
        kind == Bits(c.op, 11, 2)
        d   == [c EXCEPT !.s = TRUE, !.rd = decode_regt(c.op, 0), !.rn = rn,
                         !.imm = 0, !.shift = "LSL"]
    IN  IF kind < 3
        THEN Inst([d EXCEPT !.rm = rn, !.shift = Shifts[kind + 1],
                            !.imm = IF kind # 0 /\ n = 0 THEN 32 ELSE n], "MOV", "R")
        ELSE Inst([d EXCEPT !.rm = rm, !.imm = IF Bit(c.op, 10) THEN rm ELSE 0],
                  IF Bit(c.op, 9) THEN "SUB" ELSE "ADD",
                  IF Bit(c.op, 10) THEN "I" ELSE "R")

decode_t001(c) ==
    Inst([c EXCEPT !.imm = Bits(c.op, 0, 8), !.rd = decode_regt(c.op, 8),
                   !.rn = decode_regt(c.op, 8), !.s = TRUE],
         <<"MOV", "CMP", "ADD", "SUB">>[Bits(c.op, 11, 2) + 1], "I")

decode_t0101_loadstore_reg(c) ==
    LET kind == Bits(c.op, 9, 3)
        d == [c EXCEPT !.rd = decode_regt(c.op, 0), !.rn = decode_regt(c.op, 3),
                       !.rm = decode_regt(c.op, 6), !.shift = "LSL", !.imm = 0,
                       !.u = TRUE]
    IN  IF kind = 3 THEN inst_ud(d)
        ELSE [d EXCEPT
               !.inst = <<<<"STR", "STRX", "STRB", "", "LDR", "LDRX", "LDRB", "LDRX">>
                            [kind + 1], "R", "P">>,
               !.ext = CASE kind \in {1, 5} -> "H" [] kind = 7 -> "SH"
                         [] kind \notin {1, 5, 7} -> c.ext]

\* Mutant: the offset of a byte access is scaled, too.
decode_t011_scaled(c) ==
    [c EXCEPT !.inst = <<<<"STR", "LDR", "STRB", "LDRB">>[Bits(c.op, 11, 2) + 1], "I", "P">>,
              !.rd = decode_regt(c.op, 0), !.rn = decode_regt(c.op, 3),
              !.imm = 4 * Bits(c.op, 6, 5), !.u = TRUE]
LoadStoreAt(c, name, rd, rn, imm) ==
    [c EXCEPT !.inst = <<name, "I", "P">>, !.rd = rd, !.rn = rn, !.imm = imm,
              !.u = TRUE]
decode_t01001_loadliteral(c) ==
    LoadStoreAt(c, "LDR", decode_regt(c.op, 8), 15, 4 * Bits(c.op, 0, 8))
decode_t011(c) ==
    LoadStoreAt(c, <<"STR", "LDR", "STRB", "LDRB">>[Bits(c.op, 11, 2) + 1],
                decode_regt(c.op, 0), decode_regt(c.op, 3),
                IF Bit(c.op, 12) THEN Bits(c.op, 6, 5) ELSE 4 * Bits(c.op, 6, 5))
decode_t1001_loadstore_stack(c) ==
    LoadStoreAt(c, IF Bit(c.op, 11) THEN "LDR" ELSE "STR",
                decode_regt(c.op, 8), 13, 4 * Bits(c.op, 0, 8))
decode_t100(c) ==
    IF Bit(c.op, 12) THEN decode_t1001_loadstore_stack(c)
    ELSE [LoadStoreAt(c, IF Bit(c.op, 11) THEN "LDRX" ELSE "STRX",
                      decode_regt(c.op, 0), decode_regt(c.op, 3),
                      2 * Bits(c.op, 6, 5)) EXCEPT !.ext = "H"]

decode_t010001_sdata_b(c) ==
    LET rd == decode_regt(c.op, 0) + 8 * Bits(c.op, 7, 1)
        d  == [c EXCEPT !.rm = decode_reg(c.op, 3), !.rd = rd,
                        !.imm = 0, !.shift = "LSL"]
    IN  CASE Bits(c.op, 8, 2) = 0 -> Inst([d EXCEPT !.rn = rd], "ADD", "R")
          [] Bits(c.op, 8, 2) = 1 -> Inst([d EXCEPT !.rn = rd], "CMP", "R")
          [] Bits(c.op, 8, 2) = 2 -> Inst(d, "MOV", "R")
          [] Bits(c.op, 8, 2) = 3 ->
               IF decode_regt(c.op, 0) # 0 THEN inst_unknown(d)
               ELSE Inst(d, IF Bit(c.op, 7) THEN "BLX" ELSE "BX", "")

decode_t010000_dataproc(c) ==
    LET kind == Bits(c.op, 6, 4)
        low  == decode_regt(c.op, 0)
        high == decode_regt(c.op, 3)
        d    == [c EXCEPT !.rd = low, !.rn = high, !.shift = "LSL", !.imm = 0,
                          !.s = TRUE]
    IN  CASE kind \in {2, 3, 4, 7} ->
               Inst([d EXCEPT !.rm = low, !.rs = high,
                              !.shift = CASE kind = 2 -> "LSL" [] kind = 3 -> "LSR"
                                          [] kind = 4 -> "ASR" [] kind = 7 -> "ROR"],
                    "MOV", "RR")
          [] kind = 9 -> Inst(d, "RSB", "I")
          [] kind = 11 -> inst_ud(d)
          [] kind = 13 -> Inst([d EXCEPT !.rm = high, !.rs = low], "MUL", "R")
          [] kind = 15 -> Inst([d EXCEPT !.rm = high], "MVN", "R")
          [] kind \in {0, 1, 5, 6, 8, 10, 12, 14} ->
               Inst([d EXCEPT !.rn = low, !.rm = high], DataOps[kind + 1], "R")

decode_t010(c) ==
    CASE Bit(c.op, 12) -> decode_t0101_loadstore_reg(c)
      [] ~Bit(c.op, 12) /\ Bit(c.op, 11) -> decode_t01001_loadliteral(c)
      [] Bits(c.op, 10, 3) = 1 -> decode_t010001_sdata_b(c)
      [] Bits(c.op, 10, 3) = 0 -> decode_t010000_dataproc(c)

decode_t1011_misc(c) ==
    LET kind == Bits(c.op, 8, 4)
        d    == [c EXCEPT !.imm = Bits(c.op, 0, 8)]
    IN  CASE kind = 0 ->
               Inst([d EXCEPT !.imm = 4 * Bits(c.op, 0, 7), !.rd = 13, !.rn = 13],
                    IF Bit(c.op, 7) THEN "SUB" ELSE "ADD", "I")
          [] kind \in {4, 5} ->
               Inst([d EXCEPT !.imm = @ + (IF kind = 5 THEN 2 ^ 14 ELSE 0),
                              !.mode = "DB", !.rn = 13], "STM", "W")
          [] kind \in {12, 13} ->
               Inst([d EXCEPT !.imm = @ + (IF kind = 13 THEN 2 ^ 15 ELSE 0),
                              !.mode = "IA", !.rn = 13], "LDM", "W")
          [] kind = 14 -> Inst(d, "BKPT", "")
          [] kind \notin {0, 4, 5, 12, 13, 14} -> inst_ud(d)

decode_t1010_add_sp_pc(c) ==
    Inst([c EXCEPT !.rd = decode_regt(c.op, 8), !.imm = 4 * Bits(c.op, 0, 8),
                   !.rn = IF Bit(c.op, 11) THEN 13 ELSE 15], "ADD", "I")

decode_t1101_bcond_swi(c) ==
    LET d == [c EXCEPT !.cond = Bits(c.op, 8, 4)]
    IN  CASE d.cond = AL -> inst_ud(d)
          [] d.cond = NV -> Inst([d EXCEPT !.imm = Bits(c.op, 0, 8)], "SWI", "")
          [] d.cond \notin {AL, NV} ->
               Inst([d EXCEPT !.imm = 2 * SignExtend(Bits(c.op, 0, 8), 8) + 4], "B", "")

decode_t1100_loadstore_multiple(c) ==
    Inst([c EXCEPT !.rn = decode_regt(c.op, 8), !.imm = Bits(c.op, 0, 8),
                   !.mode = "IA"], IF Bit(c.op, 11) THEN "LDM" ELSE "STM", "W")

decode_t111(c) ==
    LET imm == Bits(c.op, 0, 11)
        kind == Bits(c.op, 11, 2)
    IN  IF kind = 1 /\ Bit(c.op, 0) THEN inst_ud([c EXCEPT !.imm = imm])
        ELSE Inst([c EXCEPT !.imm = CASE kind = 0 -> 2 * SignExtend(imm, 11) + 4
                                      [] kind = 2 -> 4096 * SignExtend(imm, 11) + 4
                                      [] kind \in {1, 3} -> 2 * imm],
                  <<"B", "BLX_I", "BPRE", "BL">>[kind + 1], "")

decode_instruction_thumb(c) ==
    LET d == [c EXCEPT !.inst = <<"DEBUG", "">>, !.cond = AL, !.imm = 0]
        kind == Bits(c.op, 13, 3)
    IN  CASE kind = 0 -> decode_t000(d)
          [] kind = 1 -> decode_t001(d)
          [] kind = 2 -> decode_t010(d)
          [] kind = 3 -> decode_t011(d)
          [] kind = 4 -> decode_t100(d)
          [] kind = 5 -> IF Bit(d.op, 12) THEN decode_t1011_misc(d)
                         ELSE decode_t1010_add_sp_pc(d)
          [] kind = 6 -> IF Bit(d.op, 12) THEN decode_t1101_bcond_swi(d)
                         ELSE decode_t1100_loadstore_multiple(d)
          [] kind = 7 -> decode_t111(d)
decode_thumb(c, op) == decode_instruction_thumb(Cleared(c, op))

------------------------------------------------------------------------------
\* get_str: what the format string of an operation shows, besides its name.
Formats(inst) ==
    LET name == inst[1]
        form == inst[2]
        Shift == CASE form = "I" -> {"imm"} [] form = "R" -> {"rm", "imm"}
                   [] form = "RR" -> {"rm", "rs"}
    IN  CASE name \in {"MOV", "MVN"} -> {"rd"} \cup Shift
          [] name \in {"TST", "TEQ", "CMP", "CMN"} -> {"rn"} \cup Shift
          [] name \in {"AND", "EOR", "SUB", "RSB", "ADD", "ADC", "SBC", "RSC",
                       "ORR", "BIC"} -> {"rd", "rn"} \cup Shift
          [] name \in {"STR", "LDR", "STRB", "LDRB"} -> {"rd", "rn"} \cup Shift
          [] name \in {"STRX", "LDRX"} ->
               {"rd", "rn", "ext"} \cup (IF form = "R" THEN {"rm"} ELSE {"imm"})
          [] name = "LDRD" ->
               {"rd", "rn"} \cup (IF inst = <<"LDRD", "RI", "">> THEN {"imm"} ELSE {})
          [] name \in {"STM", "LDM"} -> {"mode", "rn", "imm"}
          [] name = "MSR_I" -> {"rn", "imm"}
          [] name = "MSR_R" -> {"rn", "rm"}
          [] name = "MRS" -> {"rd"}
          [] name = "CLZ" -> {"rd", "rm"}
          [] name \in {"BX", "BLX"} -> {"rm"}
          [] name \in {"BKPT", "SWI", "B", "BL", "BPRE", "BLX_I"} -> {"imm"}
          [] name \in {"MRC", "MCR"} ->
               {"cp_num", "cp_op1", "rd", "rn", "rm", "cp_op2"}
          [] name = "MUL" -> {"rd", "rm", "rs"}
          [] name \in {"MLA", "UMULL", "SMULL", "SMLAL"} -> {"rd", "rn", "rm", "rs"}
          [] name = "UMLAL" -> {"rd", "rn", "rm"}
          [] name \in {"SWP", "SWPB"} -> {"rd", "rm", "rn"}
          [] name = "PLD" -> {"rn"} \cup (IF form = "I" THEN {"imm"} ELSE {})
          [] name \in {"UD", "DEBUG", "UNKNOWN"} -> {}

------------------------------------------------------------------------------
Init == isa = "none" /\ ctx = StaleContext
DecodeArm ==
    /\ isa = "none"
    /\ \E hi \in Highs, lo \in Lows : ctx' = decode_arm(ctx, [hi |-> hi, lo |-> lo])
    /\ isa' = "arm"
DecodeThumb ==
    /\ isa = "none"
    /\ \E lo \in Thumbs : ctx' = decode_thumb(ctx, [hi |-> 0, lo |-> lo])
    /\ isa' = "thumb"
Next == DecodeArm \/ DecodeThumb
Spec == Init /\ [][Next]_vars
==============================================================================
