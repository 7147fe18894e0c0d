-------------------------- MODULE DecoderReference --------------------------
(***************************************************************************)
(* What the decoder should yield.  For ARM words, the encodings of the     *)
(* ARMv5TE architecture as a table of bit patterns, in the order in which  *)
(* they take precedence.  For Thumb halfwords, the ARM word that the       *)
(* architecture gives as their equivalent: decoding that must yield the    *)
(* same operation with the same operands.                                  *)
(***************************************************************************)
EXTENDS Decoder

X == 2      \* A bit that a pattern leaves open.

\* An encoding: bits 27..20 and 7..4, and a condition on register fields.
Row(name, high, low) == [name |-> name, high |-> high, low |-> low]
Table == <<
  Row("MUL",    <<0,0,0,0,0,0,0,X>>, <<1,0,0,1>>),
  Row("MLA",    <<0,0,0,0,0,0,1,X>>, <<1,0,0,1>>),
  Row("MULL",   <<0,0,0,0,1,X,X,X>>, <<1,0,0,1>>),
  Row("SWP",    <<0,0,0,1,0,0,0,0>>, <<1,0,0,1>>),
  Row("SWPB",   <<0,0,0,1,0,1,0,0>>, <<1,0,0,1>>),
  Row("UD",     <<0,0,0,X,X,X,X,X>>, <<1,0,0,1>>),
  Row("LDRD",   <<0,0,0,X,X,X,X,0>>, <<1,1,0,1>>),
  Row("STRD",   <<0,0,0,X,X,X,X,0>>, <<1,1,1,1>>),
  Row("STRX",   <<0,0,0,X,X,X,X,0>>, <<1,0,1,1>>),
  Row("LDRX",   <<0,0,0,X,X,X,X,1>>, <<1,X,X,1>>),
  Row("MRS",    <<0,0,0,1,0,X,0,0>>, <<0,0,0,0>>),
  Row("MSR_R",  <<0,0,0,1,0,X,1,0>>, <<0,0,0,0>>),
  Row("BX",     <<0,0,0,1,0,0,1,0>>, <<0,0,0,1>>),
  Row("CLZ",    <<0,0,0,1,0,1,1,0>>, <<0,0,0,1>>),
  Row("BLX",    <<0,0,0,1,0,0,1,0>>, <<0,0,1,1>>),
  Row("BKPT",   <<0,0,0,1,0,0,1,0>>, <<0,1,1,1>>),
  Row("DSP",    <<0,0,0,1,0,X,X,0>>, <<0,1,0,1>>),
  Row("DSP",    <<0,0,0,1,0,X,X,0>>, <<1,X,X,0>>),
  Row("UD",     <<0,0,0,1,0,X,X,0>>, <<X,X,X,X>>),
  Row("Data_R", <<0,0,0,X,X,X,X,X>>, <<X,X,X,0>>),
  Row("Data_RR",<<0,0,0,X,X,X,X,X>>, <<0,X,X,1>>),
  Row("MSR_I",  <<0,0,1,1,0,X,1,0>>, <<X,X,X,X>>),
  Row("UD",     <<0,0,1,1,0,X,0,0>>, <<X,X,X,X>>),
  Row("Data_I", <<0,0,1,X,X,X,X,X>>, <<X,X,X,X>>),
  Row("LS_I",   <<0,1,0,X,X,X,X,X>>, <<X,X,X,X>>),
  Row("LS_R",   <<0,1,1,X,X,X,X,X>>, <<X,X,X,0>>),
  Row("UD",     <<0,1,1,X,X,X,X,X>>, <<X,X,X,1>>),
  Row("STM",    <<1,0,0,X,X,X,X,0>>, <<X,X,X,X>>),
  Row("LDM",    <<1,0,0,X,X,X,X,1>>, <<X,X,X,X>>),
  Row("B",      <<1,0,1,0,X,X,X,X>>, <<X,X,X,X>>),
  Row("BL",     <<1,0,1,1,X,X,X,X>>, <<X,X,X,X>>),
  Row("LDC",    <<1,1,0,X,X,X,X,X>>, <<X,X,X,X>>),
  Row("CDP",    <<1,1,1,0,X,X,X,X>>, <<X,X,X,0>>),
  Row("MRC",    <<1,1,1,0,X,X,X,1>>, <<X,X,X,1>>),
  Row("MCR",    <<1,1,1,0,X,X,X,0>>, <<X,X,X,1>>),
  Row("SWI",    <<1,1,1,1,X,X,X,X>>, <<X,X,X,X>>) >>

Matches(op, row) ==
    /\ \A i \in 1 .. 8 : row.high[i] \in {X, Bits(op, 28 - i, 1)}
    /\ \A i \in 1 .. 4 : row.low[i] \in {X, Bits(op, 8 - i, 1)}
Encoding(op) ==
    Table[CHOOSE k \in DOMAIN Table :
            Matches(op, Table[k]) /\ \A j \in 1 .. k - 1 : ~Matches(op, Table[j])].name

\* Fields that should be zero or one have the architecture's value.
Regular(op) ==
    CASE Encoding(op) = "MUL" -> decode_reg(op, 12) = 0
      [] Encoding(op) = "MRS" -> decode_reg(op, 16) = 15 /\ decode_reg(op, 8) = 0
      [] Encoding(op) = "MSR_R" -> decode_reg(op, 12) = 15 /\ decode_reg(op, 8) = 0
      [] Encoding(op) = "MSR_I" -> decode_reg(op, 12) = 15
      [] Encoding(op) = "CLZ" -> decode_reg(op, 16) = 15 /\ decode_reg(op, 8) = 15
      [] Encoding(op) \in {"BX", "BLX"} ->
           \A first \in {8, 12, 16} : decode_reg(op, first) = 15
      [] Encoding(op) = "BKPT" -> Bits(op, 28, 4) = AL
      [] OTHER -> TRUE

\* The fields of an operand: where the architecture has the registers.
Operand(op, f) ==
    CASE f = "rn" -> IF Encoding(op) = "MLA" THEN Bits(op, 12, 4) ELSE Bits(op, 16, 4)
      [] f = "rd" -> IF Encoding(op) \in {"MUL", "MLA"} THEN Bits(op, 16, 4)
                     ELSE Bits(op, 12, 4)
      [] f = "rs" -> Bits(op, 8, 4)
      [] f = "rm" -> Bits(op, 0, 4)

Index(op) == IF Bit(op, 24) THEN IF Bit(op, 21) THEN "PW" ELSE "P"
                            ELSE IF Bit(op, 21) THEN "W" ELSE ""
Psr(op) == IF Bit(op, 22) THEN "SPSR" ELSE "CPSR"
LS(op) == IF Bit(op, 22) THEN IF Bit(op, 20) THEN "LDRB" ELSE "STRB"
                         ELSE IF Bit(op, 20) THEN "LDR" ELSE "STR"

\* The operation the architecture defines.
Architecture(op) ==
    LET e == Encoding(op)
        data == DataOps[Bits(op, 21, 4) + 1]
    IN  CASE e = "MUL" -> <<"MUL", "R">>
          [] e = "MLA" -> <<"MLA", "R">>
          [] e = "MULL" -> <<<<"UMULL", "UMLAL", "SMULL", "SMLAL">>[Bits(op, 21, 2) + 1], "">>
          [] e = "LDRD" -> <<"LDRD", IF Bit(op, 22) THEN "RI" ELSE "R", Index(op)>>
          [] e \in {"STRX", "LDRX"} -> <<e, IF Bit(op, 22) THEN "I" ELSE "R", Index(op)>>
          [] e \in {"MRS", "MSR_R", "MSR_I"} -> <<e, Psr(op)>>
          [] e = "BKPT" -> <<"DEBUG", "">>
          [] e = "Data_R" -> <<data, "R">>
          [] e = "Data_RR" -> <<data, "RR">>
          [] e = "Data_I" -> <<data, "I">>
          [] e = "LS_I" -> <<LS(op), "I", Index(op)>>
          [] e = "LS_R" -> <<LS(op), "R", Index(op)>>
          [] e \in {"STM", "LDM"} -> <<e, IF Bit(op, 21) THEN "W" ELSE "">>
          [] OTHER -> <<e, "">>

\* Undefined, or an instruction that the emulator lacks.
Undefined == {"UD", "DSP", "LDC", "CDP"}
\* Instructions it takes for something else.
Misread(op) == Encoding(op) = "STRD" \/ (Encoding(op) = "MSR_I" /\ Bit(op, 22))

(***************************************************************************)
(* A word with a condition is decoded to the operation, the index form and *)
(* the registers of the architecture, and words with wrong fixed fields,   *)
(* undefined words and the instructions that the emulator lacks are        *)
(* rejected as UD or UNKNOWN (decode_instruction, Disassembler.h).         *)
(***************************************************************************)
ArmAgrees ==
    isa = "arm" /\ ctx.cond # NV /\ ~Misread(ctx.op) =>
        IF Encoding(ctx.op) \in Undefined \/ ~Regular(ctx.op)
        THEN ctx.inst \in {<<"UD", "">>, <<"UNKNOWN", "">>}
        ELSE /\ ctx.inst = Architecture(ctx.op)
             /\ \A f \in Formats(ctx.inst) \cap {"rd", "rn", "rm", "rs"} :
                  ctx[f] = Operand(ctx.op, f)

\* The ARM word with condition AL, bits 27..20, rn, rd and the low twelve bits.
Arm(high, rn, rd, low) == [hi |-> 4096 * AL + 16 * high + rn, lo |-> 4096 * rd + low]

\* The equivalent ARM word of a Thumb halfword that is not a branch.
Equivalent(op) ==
    LET r0 == Bits(op, 0, 3)
        r3 == Bits(op, 3, 3)
        r6 == Bits(op, 6, 3)
        r8 == Bits(op, 8, 3)
        imm5 == Bits(op, 6, 5)
        imm8 == Bits(op, 0, 8)
        h0 == r0 + 8 * Bits(op, 7, 1)
        h3 == Bits(op, 3, 4)
        Shifted(kind) == Arm(27, 0, r0, 256 * r3 + 32 * kind + 16 + r0)
        Half(high, imm) == Arm(high, r3, r0, 256 * (imm \div 16) + 176 + (imm % 16))
        pick == Bits(op, 11, 2)
    IN  CASE Bits(op, 13, 3) = 0 /\ pick < 3 ->
               Arm(27, 0, r0, 128 * imm5 + 32 * pick + r3)
          [] Bits(op, 13, 3) = 0 /\ pick = 3 ->
               Arm(<<9, 5, 41, 37>>[Bits(op, 9, 2) + 1], r3, r0, r6)
          [] Bits(op, 13, 3) = 1 -> Arm(<<59, 53, 41, 37>>[pick + 1], r8, r8, imm8)
          [] Bits(op, 10, 6) = 16 ->
              (CASE Bits(op, 6, 4) \in {2, 3, 4} -> Shifted(Bits(op, 6, 4) - 2)
                 [] Bits(op, 6, 4) = 7 -> Shifted(3)
                 [] Bits(op, 6, 4) = 9 -> Arm(39, r3, r0, 0)
                 [] Bits(op, 6, 4) = 13 -> Arm(1, r0, 0, 256 * r0 + 144 + r3)
                 [] Bits(op, 6, 4) = 15 -> Arm(31, 0, r0, r3)
                 [] OTHER -> Arm(2 * Bits(op, 6, 4) + 1, r0, r0, r3))
          [] Bits(op, 10, 6) = 17 ->
               Arm(<<8, 21, 26, 18>>[Bits(op, 8, 2) + 1],
                   IF Bits(op, 8, 2) = 3 THEN 15 ELSE h0,
                   IF Bits(op, 8, 2) = 3 THEN 15 ELSE h0,
                   IF Bits(op, 8, 2) = 3 THEN 3840 + (IF Bit(op, 7) THEN 48 ELSE 16) + h3
                   ELSE h3)
          [] Bits(op, 11, 5) = 9 -> Arm(89, 15, r8, 4 * imm8)
          [] Bits(op, 12, 4) = 5 ->
              (CASE Bits(op, 9, 3) \in {0, 2, 4, 6} ->
                      Arm(<<120, 124, 121, 125>>[Bits(op, 10, 2) + 1], r3, r0, r6)
                 [] Bits(op, 9, 3) = 1 -> Arm(24, r3, r0, 176 + r6)
                 [] Bits(op, 9, 3) = 3 -> Arm(25, r3, r0, 208 + r6)
                 [] Bits(op, 9, 3) = 5 -> Arm(25, r3, r0, 176 + r6)
                 [] Bits(op, 9, 3) = 7 -> Arm(25, r3, r0, 240 + r6))
          [] Bits(op, 13, 3) = 3 ->
               Arm(<<88, 89, 92, 93>>[pick + 1], r3, r0,
                   IF Bit(op, 12) THEN imm5 ELSE 4 * imm5)
          [] Bits(op, 12, 4) = 8 -> Half(IF Bit(op, 11) THEN 29 ELSE 28, 2 * imm5)
          [] Bits(op, 12, 4) = 9 -> Arm(IF Bit(op, 11) THEN 89 ELSE 88, 13, r8, 4 * imm8)
          [] Bits(op, 12, 4) = 10 ->
               Arm(40, IF Bit(op, 11) THEN 13 ELSE 15, r8, 3840 + imm8)
          [] Bits(op, 8, 8) = 176 ->
               Arm(IF Bit(op, 7) THEN 36 ELSE 40, 13, 13, 3840 + Bits(op, 0, 7))
          [] Bits(op, 9, 7) = 90 -> Arm(146, 13, 4 * Bits(op, 8, 1), imm8)
          [] Bits(op, 9, 7) = 94 -> Arm(139, 13, 8 * Bits(op, 8, 1), imm8)
          [] Bits(op, 12, 4) = 12 -> Arm(IF Bit(op, 11) THEN 139 ELSE 138, r8, 0, imm8)
          [] Bits(op, 8, 8) = 223 -> Arm(240, 0, 0, imm8)
          [] OTHER -> Arm(112, 0, 0, 16)      \* undefined in ARM, too

\* What the pieces of a Thumb branch add to the address of the instruction.
BranchOffset(op) ==
    CASE Bits(op, 12, 4) = 13 -> 2 * SignExtend(Bits(op, 0, 8), 8) + 4
      [] Bits(op, 11, 5) = 28 -> 2 * SignExtend(Bits(op, 0, 11), 11) + 4
      [] Bits(op, 11, 5) = 30 -> 4096 * SignExtend(Bits(op, 0, 11), 11) + 4
      [] Bits(op, 11, 5) \in {29, 31} -> 2 * Bits(op, 0, 11)

IsBranch(op) ==
    \/ Bits(op, 13, 3) = 7
    \/ Bits(op, 12, 4) = 13 /\ Bits(op, 8, 4) \notin {AL, NV}

\* LDRSB (register), CMN and BKPT, which are not decoded, and a BX or BLX
\* with bits that should be zero.
Unsupported(op) ==
    \/ Bits(op, 9, 7) = 43
    \/ Bits(op, 6, 10) = 267
    \/ Bits(op, 8, 8) = 190
    \/ Bits(op, 8, 8) = 71 /\ Bits(op, 0, 3) # 0

(***************************************************************************)
(* A Thumb halfword is decoded to what its ARM equivalent is decoded to,   *)
(* with the same registers, immediate, shift, index form and S bit, and a  *)
(* branch to the architecture's offset (decode_instruction_thumb,          *)
(* Disassembler.h; the S bit of CMP apart, which high registers lack).     *)
(***************************************************************************)
ThumbAgrees ==
    isa = "thumb" =>
        LET arm == decode_arm(StaleContext, Equivalent(ctx.op))
        IN  CASE IsBranch(ctx.op) ->
                   \/ ctx.inst = <<"UD", "">> /\ Bits(ctx.op, 11, 5) = 29 /\ Bit(ctx.op, 0)
                   \/ /\ ctx.inst[1] = IF Bits(ctx.op, 12, 4) = 13 THEN "B"
                         ELSE <<"B", "BLX_I", "BPRE", "BL">>[Bits(ctx.op, 11, 2) + 1]
                      /\ ctx.imm = BranchOffset(ctx.op)
              [] ~IsBranch(ctx.op) /\ Unsupported(ctx.op) ->
                   ctx.inst[1] \in {"UD", "UNKNOWN", "BKPT"}
              [] ~IsBranch(ctx.op) /\ ~Unsupported(ctx.op) ->
                   /\ ctx.inst = arm.inst
                   /\ ctx.inst[2] \in {"R", "RR"} => ctx.shift = arm.shift
                   /\ \A f \in Formats(ctx.inst) : ctx[f] = arm[f]
                   /\ ctx.inst[1] \notin {"CMP", "UD"} => ctx.s = arm.s
                   /\ ctx.inst[1] \in {"STR", "LDR", "STRB", "LDRB", "STRX", "LDRX"}
                        => ctx.u = arm.u

(***************************************************************************)
(* Whatever the words before left in the context, an operand that the      *)
(* operation's text shows was decoded from this word (the handlers of      *)
(* Disassembler.h set fields one by one; nothing resets the others).       *)
(***************************************************************************)
NothingStale ==
    isa # "none" => \A f \in Formats(ctx.inst) : ctx[f] # StaleContext[f]
==============================================================================
