---------------------------- MODULE DecoderProofs ----------------------------
(***************************************************************************)
(* The decoder for every ARM word and every Thumb halfword: the texts show *)
(* nothing stale, and ARM words are decoded as the architecture's table    *)
(* says.  First the arithmetic of bit fields; then what each row of the    *)
(* table asks of the bits, and which row is the first to match; then one   *)
(* lemma for each handler, along the calls of decode_instruction; last the *)
(* same, without the table, for the Thumb handlers.                        *)
(***************************************************************************)
EXTENDS DecoderReference, TLAPS

\* ARM words, as pairs of halves.
Word == [hi : Halfword, lo : Halfword]

\* The powers of two by which the fields of a word are cut are positive.
LEMMA Powers ==
  ASSUME NEW n \in 0 .. 32
  PROVE  2 ^ n \in Nat /\ 2 ^ n > 0
<1> DEFINE P(k) == 2 ^ k \in Nat /\ 2 ^ k > 0
<1>1. P(0) /\ P(1) /\ P(2) BY SMT
<1>2. P(3) /\ P(4) /\ P(5) BY SMT
<1>3. P(6) /\ P(7) /\ P(8) BY SMT
<1>4. P(9) /\ P(10) /\ P(11) BY SMT
<1>5. P(12) /\ P(13) /\ P(14) BY SMT
<1>6. P(15) /\ P(16) /\ P(17) BY SMT
<1>7. P(18) /\ P(19) /\ P(20) BY SMT
<1>8. P(21) /\ P(22) /\ P(23) BY SMT
<1>9. P(24) /\ P(25) /\ P(26) BY SMT
<1>10. P(27) /\ P(28) /\ P(29) BY SMT
<1>11. P(30) /\ P(31) /\ P(32) BY SMT
<1> HIDE DEF P
<1>12. P(n) BY <1>1, <1>2, <1>3, <1>4, <1>5, <1>6, <1>7, <1>8, <1>9, <1>10, <1>11
<1> QED BY <1>12 DEF P

\* A shifted and masked number is below the mask.
LEMMA Remainder ==
  ASSUME NEW x \in Nat, NEW k \in Nat, NEW m \in Nat, k > 0, m > 0
  PROVE  (x \div k) % m \in 0 .. m - 1
<1> DEFINE y == x \div k
<1>1. y \in Int BY SMT
<1> HIDE DEF y
<1>2. y % m \in 0 .. m - 1 BY SMT, <1>1
<1> QED BY <1>2 DEF y

\* The halves of a word are natural numbers.
LEMMA WordHalves ==
  ASSUME NEW op \in Word
  PROVE  op.hi \in Nat /\ op.lo \in Nat
<1>1. op.hi \in Halfword /\ op.lo \in Halfword BY DEF Word
<1>2. Halfword \subseteq Nat BY DEF Halfword
<1> QED BY Zenon, <1>1, <1>2

\* A field of n bits is a number below 2 ^ n.
LEMMA BitsRange ==
  ASSUME NEW op \in Word, NEW first \in 0 .. 31, NEW n \in 0 .. 16
  PROVE  Bits(op, first, n) \in 0 .. 2 ^ n - 1
<1> DEFINE P(k) == 2 ^ k
<1>1. \A k \in 0 .. 32 : P(k) \in Nat /\ P(k) > 0 BY Powers
<1>2. Bits(op, first, n) = IF first >= 16 THEN (op.hi \div P(first - 16)) % P(n)
                                          ELSE (op.lo \div P(first)) % P(n)
  BY Zenon DEF Bits
<1> HIDE DEF P
<1>3. n \in 0 .. 32 /\ first \in 0 .. 32 OBVIOUS
<1>4. CASE first >= 16
  <2>1. first - 16 \in 0 .. 32 BY <1>4
  <2> QED BY Zenon, <1>1, <1>2, <1>3, <1>4, <2>1, WordHalves, Remainder DEF P
<1>5. CASE ~(first >= 16)
  BY Zenon, <1>1, <1>2, <1>3, <1>5, WordHalves, Remainder DEF P
<1> QED BY <1>4, <1>5

\* The ranges of the fields the decoder takes from a word.
LEMMA Ranges ==
  ASSUME NEW op \in Word, NEW first \in 0 .. 31
  PROVE  /\ Bits(op, first, 1) \in 0 .. 1
         /\ Bits(op, first, 2) \in 0 .. 3
         /\ Bits(op, first, 3) \in 0 .. 7
         /\ Bits(op, first, 4) \in 0 .. 15
         /\ Bits(op, first, 5) \in 0 .. 31
         /\ Bits(op, first, 7) \in Nat
         /\ Bits(op, first, 8) \in Nat /\ Bits(op, first, 8) < 256
         /\ Bits(op, first, 11) \in Nat /\ Bits(op, first, 11) < 2048
         /\ Bits(op, first, 12) \in Nat /\ Bits(op, first, 12) < 4096
         /\ Bits(op, first, 16) \in Nat /\ Bits(op, first, 16) < 65536
<1> DEFINE P(k) == 2 ^ k
           B(n) == Bits(op, first, n)
<1>1. P(1) = 2 /\ P(2) = 4 /\ P(3) = 8 /\ P(4) = 16 BY SMT
<1>2. P(5) = 32 /\ P(7) = 128 /\ P(8) = 256 BY SMT
<1>3. P(11) = 2048 /\ P(12) = 4096 /\ P(16) = 65536 BY SMT
<1>4. \A n \in 0 .. 16 : B(n) \in 0 .. P(n) - 1 BY Zenon, BitsRange
<1> HIDE DEF P, B
<1>5. /\ B(1) \in 0 .. 1 /\ B(2) \in 0 .. 3 /\ B(3) \in 0 .. 7 /\ B(4) \in 0 .. 15
      /\ B(5) \in 0 .. 31 /\ B(7) \in Nat /\ B(8) \in Nat /\ B(8) < 256
  BY SMT, <1>1, <1>2, <1>4
<1>6. B(11) \in 0 .. P(11) - 1 /\ B(12) \in 0 .. P(12) - 1 /\ B(16) \in 0 .. P(16) - 1
  BY SMT, <1>4
<1>7. B(11) \in Nat /\ B(11) < 2048 /\ B(12) \in Nat /\ B(12) < 4096 BY SMT, <1>3, <1>6
<1>8. B(16) \in Nat /\ B(16) < 65536 BY SMT, <1>3, <1>6
<1> QED BY SMT, <1>5, <1>7, <1>8 DEF B

\* A register number is a natural number below 16.
LEMMA Registers ==
  ASSUME NEW op \in Word, NEW first \in 0 .. 31
  PROVE  decode_reg(op, first) \in 0 .. 15 /\ decode_regt(op, first) \in 0 .. 7
<1>1. Bits(op, first, 4) \in 0 .. 15 BY SMT, Ranges
<1>2. Bits(op, first, 3) \in 0 .. 7 BY SMT, Ranges
<1> QED BY Zenon, <1>1, <1>2 DEF decode_reg, decode_regt

\* The rotation by which an immediate operand is made yields a natural number.
LEMMA RotrNat ==
  ASSUME NEW v \in Nat, NEW r \in 0 .. 31
  PROVE  _rotr(v, r) \in Nat
<1> DEFINE k == 2 ^ r
           m == 2 ^ (32 - r)
<1>1. k \in Nat /\ k > 0
  <2>1. r \in 0 .. 32 OBVIOUS
  <2> QED BY Zenon, <2>1, Powers
<1>2. m \in Nat
  <2>1. 32 - r \in 0 .. 32 OBVIOUS
  <2> QED BY Zenon, <2>1, Powers
<1>3. _rotr(v, r) = IF r = 0 THEN v ELSE v \div k + (v % k) * m BY Zenon DEF _rotr
<1> HIDE DEF k, m
<1>4. v \div k \in Nat /\ v % k \in Nat BY SMT, <1>1
<1> DEFINE a == v % k
<1> HIDE DEF a
<1>5. a * m \in Nat BY SMT, <1>2, <1>4 DEF a
<1> QED BY <1>3, <1>4, <1>5 DEF a

\* Sign extension from the widths of the branch offsets.
LEMMA SignExtends ==
  ASSUME NEW v \in Nat
  PROVE  /\ SignExtend(v, 8) \in Int /\ SignExtend(v, 8) >= -128
         /\ SignExtend(v, 11) \in Int /\ SignExtend(v, 11) >= -1024
         /\ SignExtend(v, 24) \in Int /\ SignExtend(v, 24) >= -8388608
<1> DEFINE P(k) == 2 ^ k
<1>1. P(8 - 1) = 128 /\ P(8) = 256 /\ P(11 - 1) = 1024 /\ P(11) = 2048 BY SMT
<1>2. P(24 - 1) = 8388608 /\ P(24) = 16777216 BY SMT
<1>3. \A n : SignExtend(v, n) = IF v >= P(n - 1) THEN v - P(n) ELSE v
  BY Zenon DEF SignExtend
<1> HIDE DEF P
<1> QED BY SMT, <1>1, <1>2, <1>3
Floor == -(2 ^ 27)     \* Below every immediate operand.

\* No immediate operand can be mistaken for the mark of a stale one.
LEMMA StaleIsSmall == Floor \in Int /\ Floor < 0 /\ Stale < Floor
BY SMT DEF Stale, Floor

\* A field shows nothing that an earlier word left in it.
Fresh(d, f) == d[f] # StaleContext[f]
Shown(d) == \A f \in Formats(d.inst) : Fresh(d, f)

\* An operand that was set from a word is not stale.
LEMMA FreshFields ==
  ASSUME NEW d
  PROVE  /\ d.rd \in Nat => Fresh(d, "rd")
         /\ d.rn \in Nat => Fresh(d, "rn")
         /\ d.rm \in Nat => Fresh(d, "rm")
         /\ d.rs \in Nat => Fresh(d, "rs")
         /\ d.cp_num \in Nat => Fresh(d, "cp_num")
         /\ d.cp_op1 \in Nat => Fresh(d, "cp_op1")
         /\ d.cp_op2 \in Nat => Fresh(d, "cp_op2")
         /\ d.imm \in Int /\ d.imm >= Floor => Fresh(d, "imm")
         /\ d.ext # "" => Fresh(d, "ext")
         /\ d.mode # "" => Fresh(d, "mode")
<1>1. /\ StaleContext["rd"] = Stale /\ StaleContext["rn"] = Stale
      /\ StaleContext["rm"] = Stale /\ StaleContext["rs"] = Stale
      /\ StaleContext["cp_num"] = Stale /\ StaleContext["cp_op1"] = Stale
      /\ StaleContext["cp_op2"] = Stale /\ StaleContext["imm"] = Stale
      /\ StaleContext["ext"] = "" /\ StaleContext["mode"] = ""
  BY DEF StaleContext
<1>2. \A x \in Int : x >= Floor => x # Stale BY SMT, StaleIsSmall
<1>3. \A x \in Nat : x # Stale BY SMT, StaleIsSmall
<1> QED BY <1>1, <1>2, <1>3 DEF Fresh

Moves == {"MOV", "MVN"}
Tests == {"TST", "TEQ", "CMP", "CMN"}
Arithmetic == {"AND", "EOR", "SUB", "RSB", "ADD", "ADC", "SBC", "RSC", "ORR", "BIC"}
Transfers == {"STR", "LDR", "STRB", "LDRB"}

\* What the text of an operation shows, by its name and its form.
LEMMA FormatsOfShift ==
  ASSUME NEW i
  PROVE  /\ i[1] \in Moves /\ i[2] = "I" => Formats(i) = {"rd", "imm"}
         /\ i[1] \in Moves /\ i[2] = "R" => Formats(i) = {"rd", "rm", "imm"}
         /\ i[1] \in Moves /\ i[2] = "RR" => Formats(i) = {"rd", "rm", "rs"}
         /\ i[1] \in Tests /\ i[2] = "I" => Formats(i) = {"rn", "imm"}
         /\ i[1] \in Tests /\ i[2] = "R" => Formats(i) = {"rn", "rm", "imm"}
         /\ i[1] \in Tests /\ i[2] = "RR" => Formats(i) = {"rn", "rm", "rs"}
         /\ i[1] \in Arithmetic /\ i[2] = "I" => Formats(i) = {"rd", "rn", "imm"}
         /\ i[1] \in Arithmetic /\ i[2] = "R" => Formats(i) = {"rd", "rn", "rm", "imm"}
         /\ i[1] \in Arithmetic /\ i[2] = "RR" => Formats(i) = {"rd", "rn", "rm", "rs"}
         /\ i[1] \in Transfers /\ i[2] = "I" => Formats(i) = {"rd", "rn", "imm"}
         /\ i[1] \in Transfers /\ i[2] = "R" => Formats(i) = {"rd", "rn", "rm", "imm"}
         /\ i[1] \in Transfers /\ i[2] = "RR" => Formats(i) = {"rd", "rn", "rm", "rs"}
<1>1. ASSUME i[1] \in Moves, i[2] = "I" PROVE Formats(i) = {"rd", "imm"}
  BY ZenonT(20), <1>1 DEF Formats, Moves
<1>2. ASSUME i[1] \in Moves, i[2] = "R" PROVE Formats(i) = {"rd", "rm", "imm"}
  BY ZenonT(20), <1>2 DEF Formats, Moves
<1>3. ASSUME i[1] \in Moves, i[2] = "RR" PROVE Formats(i) = {"rd", "rm", "rs"}
  BY ZenonT(20), <1>3 DEF Formats, Moves
<1>4. ASSUME i[1] \in Tests, i[2] = "I" PROVE Formats(i) = {"rn", "imm"}
  BY ZenonT(20), <1>4 DEF Formats, Tests
<1>5. ASSUME i[1] \in Tests, i[2] = "R" PROVE Formats(i) = {"rn", "rm", "imm"}
  BY ZenonT(20), <1>5 DEF Formats, Tests
<1>6. ASSUME i[1] \in Tests, i[2] = "RR" PROVE Formats(i) = {"rn", "rm", "rs"}
  BY ZenonT(20), <1>6 DEF Formats, Tests
<1>7. ASSUME i[1] \in Arithmetic, i[2] = "I" PROVE Formats(i) = {"rd", "rn", "imm"}
  BY ZenonT(20), <1>7 DEF Formats, Arithmetic
<1>8. ASSUME i[1] \in Arithmetic, i[2] = "R" PROVE Formats(i) = {"rd", "rn", "rm", "imm"}
  BY ZenonT(20), <1>8 DEF Formats, Arithmetic
<1>9. ASSUME i[1] \in Arithmetic, i[2] = "RR" PROVE Formats(i) = {"rd", "rn", "rm", "rs"}
  BY ZenonT(20), <1>9 DEF Formats, Arithmetic
<1>10. ASSUME i[1] \in Transfers, i[2] = "I" PROVE Formats(i) = {"rd", "rn", "imm"}
  BY ZenonT(20), <1>10 DEF Formats, Transfers
<1>11. ASSUME i[1] \in Transfers, i[2] = "R" PROVE Formats(i) = {"rd", "rn", "rm", "imm"}
  BY ZenonT(20), <1>11 DEF Formats, Transfers
<1>12. ASSUME i[1] \in Transfers, i[2] = "RR" PROVE Formats(i) = {"rd", "rn", "rm", "rs"}
  BY ZenonT(20), <1>12 DEF Formats, Transfers
<1> QED BY Zenon, <1>1, <1>2, <1>3, <1>4, <1>5, <1>6, <1>7, <1>8, <1>9, <1>10, <1>11, <1>12

\* The same for the operations that neither compute nor transfer a register.
LEMMA FormatsOfOthers ==
  ASSUME NEW i
  PROVE  /\ i[1] \in {"STRX", "LDRX"} /\ i[2] = "R" => Formats(i) = {"rd", "rn", "ext", "rm"}
         /\ i[1] \in {"STRX", "LDRX"} /\ i[2] = "I" => Formats(i) = {"rd", "rn", "ext", "imm"}
         /\ i[1] \in {"STM", "LDM"} => Formats(i) = {"mode", "rn", "imm"}
         /\ i[1] = "MSR_I" => Formats(i) = {"rn", "imm"}
         /\ i[1] = "MSR_R" => Formats(i) = {"rn", "rm"}
         /\ i[1] = "MRS" => Formats(i) = {"rd"}
         /\ i[1] = "CLZ" => Formats(i) = {"rd", "rm"}
         /\ i[1] \in {"BX", "BLX"} => Formats(i) = {"rm"}
         /\ i[1] \in {"BKPT", "SWI", "B", "BL", "BPRE", "BLX_I"} => Formats(i) = {"imm"}
         /\ i[1] \in {"MRC", "MCR"} => Formats(i) = {"cp_num", "cp_op1", "rd", "rn", "rm", "cp_op2"}
         /\ i[1] = "MUL" => Formats(i) = {"rd", "rm", "rs"}
         /\ i[1] \in {"MLA", "UMULL", "SMULL", "SMLAL"} => Formats(i) = {"rd", "rn", "rm", "rs"}
         /\ i[1] = "UMLAL" => Formats(i) = {"rd", "rn", "rm"}
         /\ i[1] \in {"SWP", "SWPB"} => Formats(i) = {"rd", "rm", "rn"}
         /\ i[1] = "PLD" /\ i[2] = "I" => Formats(i) = {"rn", "imm"}
         /\ i[1] = "PLD" /\ i[2] # "I" => Formats(i) = {"rn"}
         /\ i[1] \in {"UD", "DEBUG", "UNKNOWN"} => Formats(i) = {}
         /\ i[1] = "LDRD" => Formats(i) \subseteq {"rd", "rn", "imm"}
<1>1. ASSUME i[1] \in {"STRX", "LDRX"}, i[2] = "R" PROVE Formats(i) = {"rd", "rn", "ext", "rm"}
  BY ZenonT(20), <1>1 DEF Formats
<1>2. ASSUME i[1] \in {"STRX", "LDRX"}, i[2] = "I" PROVE Formats(i) = {"rd", "rn", "ext", "imm"}
  BY ZenonT(20), <1>2 DEF Formats
<1>3. ASSUME i[1] \in {"STM", "LDM"} PROVE Formats(i) = {"mode", "rn", "imm"}
  BY ZenonT(20), <1>3 DEF Formats
<1>4. ASSUME i[1] = "MSR_I" PROVE Formats(i) = {"rn", "imm"}
  BY ZenonT(20), <1>4 DEF Formats
<1>5. ASSUME i[1] = "MSR_R" PROVE Formats(i) = {"rn", "rm"}
  BY ZenonT(20), <1>5 DEF Formats
<1>6. ASSUME i[1] = "MRS" PROVE Formats(i) = {"rd"}
  BY ZenonT(20), <1>6 DEF Formats
<1>7. ASSUME i[1] = "CLZ" PROVE Formats(i) = {"rd", "rm"}
  BY ZenonT(20), <1>7 DEF Formats
<1>8. ASSUME i[1] \in {"BX", "BLX"} PROVE Formats(i) = {"rm"}
  BY ZenonT(20), <1>8 DEF Formats
<1>9. ASSUME i[1] \in {"BKPT", "SWI", "B", "BL", "BPRE", "BLX_I"} PROVE Formats(i) = {"imm"}
  BY ZenonT(20), <1>9 DEF Formats
<1>10. ASSUME i[1] \in {"MRC", "MCR"} PROVE Formats(i) = {"cp_num", "cp_op1", "rd", "rn", "rm", "cp_op2"}
  BY ZenonT(20), <1>10 DEF Formats
<1>11. ASSUME i[1] = "MUL" PROVE Formats(i) = {"rd", "rm", "rs"}
  BY ZenonT(20), <1>11 DEF Formats
<1>12. ASSUME i[1] \in {"MLA", "UMULL", "SMULL", "SMLAL"} PROVE Formats(i) = {"rd", "rn", "rm", "rs"}
  BY ZenonT(20), <1>12 DEF Formats
<1>13. ASSUME i[1] = "UMLAL" PROVE Formats(i) = {"rd", "rn", "rm"}
  BY ZenonT(20), <1>13 DEF Formats
<1>14. ASSUME i[1] \in {"SWP", "SWPB"} PROVE Formats(i) = {"rd", "rm", "rn"}
  BY ZenonT(20), <1>14 DEF Formats
<1>15. ASSUME i[1] = "PLD", i[2] = "I" PROVE Formats(i) = {"rn", "imm"}
  BY ZenonT(20), <1>15 DEF Formats
<1>16. ASSUME i[1] = "PLD", i[2] # "I" PROVE Formats(i) = {"rn"}
  BY ZenonT(20), <1>16 DEF Formats
<1>17. ASSUME i[1] \in {"UD", "DEBUG", "UNKNOWN"} PROVE Formats(i) = {}
  BY ZenonT(20), <1>17 DEF Formats
<1>18. ASSUME i[1] = "LDRD" PROVE Formats(i) \subseteq {"rd", "rn", "imm"}
  BY ZenonT(20), <1>18 DEF Formats
<1> QED BY Zenon, <1>1, <1>2, <1>3, <1>4, <1>5, <1>6, <1>7, <1>8, <1>9, <1>10, <1>11, <1>12, <1>13, <1>14, <1>15, <1>16, <1>17, <1>18
------------------------------------------------------------------------------
\* A bit is 1 or 0.
LEMMA BitValues ==
  ASSUME NEW op \in Word, NEW i \in 0 .. 31
  PROVE  (Bits(op, i, 1) = 1 <=> Bit(op, i)) /\ (Bits(op, i, 1) = 0 <=> ~Bit(op, i))
<1>1. Bits(op, i, 1) \in 0 .. 1 BY SMT, Ranges
<1> QED BY <1>1 DEF Bit

\* The fields by which decode_instruction chooses, bit by bit.
LEMMA Fields ==
  ASSUME NEW op \in Word
  PROVE  /\ Bits(op, 25, 3) = Bits(op, 25, 1) + 2 * Bits(op, 26, 1) + 4 * Bits(op, 27, 1)
         /\ Bits(op, 20, 3) = Bits(op, 20, 1) + 2 * Bits(op, 21, 1) + 4 * Bits(op, 22, 1)
         /\ Bits(op, 21, 4) = Bits(op, 21, 1) + 2 * Bits(op, 22, 1) + 4 * Bits(op, 23, 1) + 8 * Bits(op, 24, 1)
         /\ Bits(op, 23, 2) = Bits(op, 23, 1) + 2 * Bits(op, 24, 1)
         /\ Bits(op, 21, 2) = Bits(op, 21, 1) + 2 * Bits(op, 22, 1)
         /\ Bits(op, 4, 3) = Bits(op, 4, 1) + 2 * Bits(op, 5, 1) + 4 * Bits(op, 6, 1)
         /\ Bits(op, 5, 2) = Bits(op, 5, 1) + 2 * Bits(op, 6, 1)
<1> DEFINE P(k) == 2 ^ k
           hi == op.hi
           lo == op.lo
           B(i) == Bits(op, i, 1)
<1>1. hi \in Nat /\ lo \in Nat BY WordHalves
<1>2. P(1) = 2 /\ P(2) = 4 /\ P(3) = 8 /\ P(4) = 16 /\ P(5) = 32 /\ P(6) = 64 BY SMT
<1>3. P(7) = 128 /\ P(8) = 256 /\ P(9) = 512 /\ P(10) = 1024 /\ P(11) = 2048 BY SMT
<1>4. \A first, n : Bits(op, first, n) = IF first >= 16 THEN (hi \div P(first - 16)) % P(n)
                                                      ELSE (lo \div P(first)) % P(n)
  BY Zenon DEF Bits
<1> HIDE DEF P, hi, lo
<1>5. /\ Bits(op, 25, 3) = (hi \div 512) % 8
      /\ Bits(op, 20, 3) = (hi \div 16) % 8
      /\ Bits(op, 21, 4) = (hi \div 32) % 16
      /\ Bits(op, 23, 2) = (hi \div 128) % 4
      /\ Bits(op, 21, 2) = (hi \div 32) % 4
      /\ Bits(op, 4, 3) = (lo \div 16) % 8
      /\ Bits(op, 5, 2) = (lo \div 32) % 4
  BY SMT, <1>2, <1>3, <1>4
<1>6. /\ B(20) = (hi \div 16) % 2 /\ B(21) = (hi \div 32) % 2
      /\ B(22) = (hi \div 64) % 2 /\ B(23) = (hi \div 128) % 2
      /\ B(24) = (hi \div 256) % 2 /\ B(25) = (hi \div 512) % 2
      /\ B(26) = (hi \div 1024) % 2 /\ B(27) = (hi \div 2048) % 2
      /\ B(4) = (lo \div 16) % 2 /\ B(5) = (lo \div 32) % 2 /\ B(6) = (lo \div 64) % 2
  BY SMT, <1>2, <1>3, <1>4
<1>7. (hi \div 512) % 8 = ((hi \div 512) % 2) + 2 * ((hi \div 1024) % 2) + 4 * ((hi \div 2048) % 2)
  BY SMT, <1>1
<1>8. (hi \div 16) % 8 = ((hi \div 16) % 2) + 2 * ((hi \div 32) % 2) + 4 * ((hi \div 64) % 2)
  BY SMT, <1>1
<1>9. (lo \div 16) % 8 = ((lo \div 16) % 2) + 2 * ((lo \div 32) % 2) + 4 * ((lo \div 64) % 2)
  BY SMT, <1>1
<1>10. (hi \div 128) % 4 = ((hi \div 128) % 2) + 2 * ((hi \div 256) % 2)
  BY SMT, <1>1
<1>11. (hi \div 32) % 4 = ((hi \div 32) % 2) + 2 * ((hi \div 64) % 2)
  BY SMT, <1>1
<1>12. (lo \div 32) % 4 = ((lo \div 32) % 2) + 2 * ((lo \div 64) % 2)
  BY SMT, <1>1
<1>13. (hi \div 32) % 16 = ((hi \div 32) % 2) + 2 * ((hi \div 64) % 2) + 4 * ((hi \div 128) % 2) + 8 * ((hi \div 256) % 2)
  BY SMTT(60), <1>1
<1> HIDE DEF B
<1>14. /\ Bits(op, 25, 3) = B(25) + 2 * B(26) + 4 * B(27)
       /\ Bits(op, 20, 3) = B(20) + 2 * B(21) + 4 * B(22)
       /\ Bits(op, 21, 4) = B(21) + 2 * B(22) + 4 * B(23) + 8 * B(24)
       /\ Bits(op, 23, 2) = B(23) + 2 * B(24)
       /\ Bits(op, 21, 2) = B(21) + 2 * B(22)
       /\ Bits(op, 4, 3) = B(4) + 2 * B(5) + 4 * B(6)
       /\ Bits(op, 5, 2) = B(5) + 2 * B(6)
  BY SMT, <1>5, <1>6, <1>7, <1>8, <1>9, <1>10, <1>11, <1>12, <1>13
<1> QED BY Zenon, <1>14 DEF B

\* The same as conditions on single bits.
LEMMA FieldBits ==
  ASSUME NEW op \in Word
  PROVE  /\ Bits(op, 25, 3) = 0 <=> ~Bit(op, 27) /\ ~Bit(op, 26) /\ ~Bit(op, 25)
         /\ Bits(op, 25, 3) = 1 <=> ~Bit(op, 27) /\ ~Bit(op, 26) /\ Bit(op, 25)
         /\ Bits(op, 25, 3) = 2 <=> ~Bit(op, 27) /\ Bit(op, 26) /\ ~Bit(op, 25)
         /\ Bits(op, 25, 3) = 3 <=> ~Bit(op, 27) /\ Bit(op, 26) /\ Bit(op, 25)
         /\ Bits(op, 25, 3) = 4 <=> Bit(op, 27) /\ ~Bit(op, 26) /\ ~Bit(op, 25)
         /\ Bits(op, 25, 3) = 5 <=> Bit(op, 27) /\ ~Bit(op, 26) /\ Bit(op, 25)
         /\ Bits(op, 25, 3) = 6 <=> Bit(op, 27) /\ Bit(op, 26) /\ ~Bit(op, 25)
         /\ Bits(op, 25, 3) = 7 <=> Bit(op, 27) /\ Bit(op, 26) /\ Bit(op, 25)
         /\ Bits(op, 20, 3) = 0 <=> ~Bit(op, 22) /\ ~Bit(op, 21) /\ ~Bit(op, 20)
         /\ Bits(op, 20, 3) = 4 <=> Bit(op, 22) /\ ~Bit(op, 21) /\ ~Bit(op, 20)
         /\ Bits(op, 20, 3) = 5 <=> Bit(op, 22) /\ ~Bit(op, 21) /\ Bit(op, 20)
         /\ Bits(op, 23, 2) = 0 <=> ~Bit(op, 24) /\ ~Bit(op, 23)
         /\ Bits(op, 23, 2) = 1 <=> ~Bit(op, 24) /\ Bit(op, 23)
         /\ Bits(op, 23, 2) = 2 <=> Bit(op, 24) /\ ~Bit(op, 23)
         /\ Bits(op, 23, 2) = 3 <=> Bit(op, 24) /\ Bit(op, 23)
         /\ Bits(op, 21, 2) = 0 <=> ~Bit(op, 22) /\ ~Bit(op, 21)
         /\ Bits(op, 21, 2) = 1 <=> ~Bit(op, 22) /\ Bit(op, 21)
         /\ Bits(op, 21, 2) = 2 <=> Bit(op, 22) /\ ~Bit(op, 21)
         /\ Bits(op, 21, 2) = 3 <=> Bit(op, 22) /\ Bit(op, 21)
         /\ Bits(op, 4, 3) = 0 <=> ~Bit(op, 6) /\ ~Bit(op, 5) /\ ~Bit(op, 4)
         /\ Bits(op, 4, 3) = 1 <=> ~Bit(op, 6) /\ ~Bit(op, 5) /\ Bit(op, 4)
         /\ Bits(op, 4, 3) = 2 <=> ~Bit(op, 6) /\ Bit(op, 5) /\ ~Bit(op, 4)
         /\ Bits(op, 4, 3) = 3 <=> ~Bit(op, 6) /\ Bit(op, 5) /\ Bit(op, 4)
         /\ Bits(op, 4, 3) = 4 <=> Bit(op, 6) /\ ~Bit(op, 5) /\ ~Bit(op, 4)
         /\ Bits(op, 4, 3) = 5 <=> Bit(op, 6) /\ ~Bit(op, 5) /\ Bit(op, 4)
         /\ Bits(op, 4, 3) = 6 <=> Bit(op, 6) /\ Bit(op, 5) /\ ~Bit(op, 4)
         /\ Bits(op, 4, 3) = 7 <=> Bit(op, 6) /\ Bit(op, 5) /\ Bit(op, 4)
         /\ Bits(op, 5, 2) = 0 <=> ~Bit(op, 6) /\ ~Bit(op, 5)
         /\ Bits(op, 5, 2) = 1 <=> ~Bit(op, 6) /\ Bit(op, 5)
         /\ Bits(op, 5, 2) = 2 <=> Bit(op, 6) /\ ~Bit(op, 5)
         /\ Bits(op, 5, 2) = 3 <=> Bit(op, 6) /\ Bit(op, 5)
         /\ Bits(op, 21, 4) = 8 <=> Bit(op, 24) /\ ~Bit(op, 23) /\ ~Bit(op, 22) /\ ~Bit(op, 21)
         /\ Bits(op, 21, 4) = 9 <=> Bit(op, 24) /\ ~Bit(op, 23) /\ ~Bit(op, 22) /\ Bit(op, 21)
         /\ Bits(op, 21, 4) = 10 <=> Bit(op, 24) /\ ~Bit(op, 23) /\ Bit(op, 22) /\ ~Bit(op, 21)
         /\ Bits(op, 21, 4) = 11 <=> Bit(op, 24) /\ ~Bit(op, 23) /\ Bit(op, 22) /\ Bit(op, 21)
<1> DEFINE B(i) == Bits(op, i, 1)
<1>1. \A i \in 0 .. 31 : B(i) \in 0 .. 1 /\ (B(i) = 1 <=> Bit(op, i))
  BY SMT, Ranges, BitValues
<1>2. /\ Bits(op, 25, 3) = B(25) + 2 * B(26) + 4 * B(27)
      /\ Bits(op, 20, 3) = B(20) + 2 * B(21) + 4 * B(22)
      /\ Bits(op, 21, 4) = B(21) + 2 * B(22) + 4 * B(23) + 8 * B(24)
      /\ Bits(op, 23, 2) = B(23) + 2 * B(24)
      /\ Bits(op, 21, 2) = B(21) + 2 * B(22)
      /\ Bits(op, 4, 3) = B(4) + 2 * B(5) + 4 * B(6)
      /\ Bits(op, 5, 2) = B(5) + 2 * B(6)
  BY Zenon, Fields
<1> HIDE DEF B
<1>3. /\ Bits(op, 25, 3) = 0 <=> ~Bit(op, 27) /\ ~Bit(op, 26) /\ ~Bit(op, 25)
      /\ Bits(op, 25, 3) = 1 <=> ~Bit(op, 27) /\ ~Bit(op, 26) /\ Bit(op, 25)
      /\ Bits(op, 25, 3) = 2 <=> ~Bit(op, 27) /\ Bit(op, 26) /\ ~Bit(op, 25)
      /\ Bits(op, 25, 3) = 3 <=> ~Bit(op, 27) /\ Bit(op, 26) /\ Bit(op, 25)
      /\ Bits(op, 25, 3) = 4 <=> Bit(op, 27) /\ ~Bit(op, 26) /\ ~Bit(op, 25)
      /\ Bits(op, 25, 3) = 5 <=> Bit(op, 27) /\ ~Bit(op, 26) /\ Bit(op, 25)
      /\ Bits(op, 25, 3) = 6 <=> Bit(op, 27) /\ Bit(op, 26) /\ ~Bit(op, 25)
      /\ Bits(op, 25, 3) = 7 <=> Bit(op, 27) /\ Bit(op, 26) /\ Bit(op, 25)
  BY SMT, <1>1, <1>2
<1>4. /\ Bits(op, 20, 3) = 0 <=> ~Bit(op, 22) /\ ~Bit(op, 21) /\ ~Bit(op, 20)
      /\ Bits(op, 20, 3) = 4 <=> Bit(op, 22) /\ ~Bit(op, 21) /\ ~Bit(op, 20)
      /\ Bits(op, 20, 3) = 5 <=> Bit(op, 22) /\ ~Bit(op, 21) /\ Bit(op, 20)
  BY SMT, <1>1, <1>2
<1>5. /\ Bits(op, 23, 2) = 0 <=> ~Bit(op, 24) /\ ~Bit(op, 23)
      /\ Bits(op, 23, 2) = 1 <=> ~Bit(op, 24) /\ Bit(op, 23)
      /\ Bits(op, 23, 2) = 2 <=> Bit(op, 24) /\ ~Bit(op, 23)
      /\ Bits(op, 23, 2) = 3 <=> Bit(op, 24) /\ Bit(op, 23)
  BY SMT, <1>1, <1>2
<1>6. /\ Bits(op, 21, 2) = 0 <=> ~Bit(op, 22) /\ ~Bit(op, 21)
      /\ Bits(op, 21, 2) = 1 <=> ~Bit(op, 22) /\ Bit(op, 21)
      /\ Bits(op, 21, 2) = 2 <=> Bit(op, 22) /\ ~Bit(op, 21)
      /\ Bits(op, 21, 2) = 3 <=> Bit(op, 22) /\ Bit(op, 21)
  BY SMT, <1>1, <1>2
<1>7. /\ Bits(op, 4, 3) = 0 <=> ~Bit(op, 6) /\ ~Bit(op, 5) /\ ~Bit(op, 4)
      /\ Bits(op, 4, 3) = 1 <=> ~Bit(op, 6) /\ ~Bit(op, 5) /\ Bit(op, 4)
      /\ Bits(op, 4, 3) = 2 <=> ~Bit(op, 6) /\ Bit(op, 5) /\ ~Bit(op, 4)
      /\ Bits(op, 4, 3) = 3 <=> ~Bit(op, 6) /\ Bit(op, 5) /\ Bit(op, 4)
      /\ Bits(op, 4, 3) = 4 <=> Bit(op, 6) /\ ~Bit(op, 5) /\ ~Bit(op, 4)
      /\ Bits(op, 4, 3) = 5 <=> Bit(op, 6) /\ ~Bit(op, 5) /\ Bit(op, 4)
      /\ Bits(op, 4, 3) = 6 <=> Bit(op, 6) /\ Bit(op, 5) /\ ~Bit(op, 4)
      /\ Bits(op, 4, 3) = 7 <=> Bit(op, 6) /\ Bit(op, 5) /\ Bit(op, 4)
  BY SMT, <1>1, <1>2
<1>8. /\ Bits(op, 5, 2) = 0 <=> ~Bit(op, 6) /\ ~Bit(op, 5)
      /\ Bits(op, 5, 2) = 1 <=> ~Bit(op, 6) /\ Bit(op, 5)
      /\ Bits(op, 5, 2) = 2 <=> Bit(op, 6) /\ ~Bit(op, 5)
      /\ Bits(op, 5, 2) = 3 <=> Bit(op, 6) /\ Bit(op, 5)
  BY SMT, <1>1, <1>2
<1>9. /\ Bits(op, 21, 4) = 8 <=> Bit(op, 24) /\ ~Bit(op, 23) /\ ~Bit(op, 22) /\ ~Bit(op, 21)
      /\ Bits(op, 21, 4) = 9 <=> Bit(op, 24) /\ ~Bit(op, 23) /\ ~Bit(op, 22) /\ Bit(op, 21)
      /\ Bits(op, 21, 4) = 10 <=> Bit(op, 24) /\ ~Bit(op, 23) /\ Bit(op, 22) /\ ~Bit(op, 21)
      /\ Bits(op, 21, 4) = 11 <=> Bit(op, 24) /\ ~Bit(op, 23) /\ Bit(op, 22) /\ Bit(op, 21)
  BY SMT, <1>1, <1>2
<1> QED BY Zenon, <1>3, <1>4, <1>5, <1>6, <1>7, <1>8, <1>9

\* A row of the table of encodings compares twelve bits of the word.
LEMMA MatchesBits ==
  ASSUME NEW op, NEW row
  PROVE  Matches(op, row) <=>
           /\ row.high[1] \in {X, Bits(op, 27, 1)} /\ row.high[2] \in {X, Bits(op, 26, 1)}
           /\ row.high[3] \in {X, Bits(op, 25, 1)} /\ row.high[4] \in {X, Bits(op, 24, 1)}
           /\ row.high[5] \in {X, Bits(op, 23, 1)} /\ row.high[6] \in {X, Bits(op, 22, 1)}
           /\ row.high[7] \in {X, Bits(op, 21, 1)} /\ row.high[8] \in {X, Bits(op, 20, 1)}
           /\ row.low[1] \in {X, Bits(op, 7, 1)} /\ row.low[2] \in {X, Bits(op, 6, 1)}
           /\ row.low[3] \in {X, Bits(op, 5, 1)} /\ row.low[4] \in {X, Bits(op, 4, 1)}
<1> DEFINE B(i) == Bits(op, i, 1)
           High(i) == row.high[i] \in {X, B(28 - i)}
           Low(i) == row.low[i] \in {X, B(8 - i)}
<1>1. Matches(op, row) <=> (\A i \in 1 .. 8 : High(i)) /\ (\A i \in 1 .. 4 : Low(i))
  BY Zenon DEF Matches
<1>2. /\ High(1) <=> row.high[1] \in {X, B(27)}
      /\ High(2) <=> row.high[2] \in {X, B(26)}
      /\ High(3) <=> row.high[3] \in {X, B(25)}
      /\ High(4) <=> row.high[4] \in {X, B(24)}
      /\ High(5) <=> row.high[5] \in {X, B(23)}
      /\ High(6) <=> row.high[6] \in {X, B(22)}
      /\ High(7) <=> row.high[7] \in {X, B(21)}
      /\ High(8) <=> row.high[8] \in {X, B(20)}
  <2> HIDE DEF B
  <2> QED OBVIOUS
<1>3. /\ Low(1) <=> row.low[1] \in {X, B(7)}
      /\ Low(2) <=> row.low[2] \in {X, B(6)}
      /\ Low(3) <=> row.low[3] \in {X, B(5)}
      /\ Low(4) <=> row.low[4] \in {X, B(4)}
  <2> HIDE DEF B
  <2> QED OBVIOUS
<1> HIDE DEF High, Low
<1>4. /\ (\A i \in 1 .. 8 : High(i)) <=> High(1) /\ High(2) /\ High(3) /\ High(4)
                                       /\ High(5) /\ High(6) /\ High(7) /\ High(8)
      /\ (\A i \in 1 .. 4 : Low(i)) <=> Low(1) /\ Low(2) /\ Low(3) /\ Low(4)
  BY SMT
<1> HIDE DEF B
<1>5. Matches(op, row) <=>
        /\ row.high[1] \in {X, B(27)} /\ row.high[2] \in {X, B(26)}
        /\ row.high[3] \in {X, B(25)} /\ row.high[4] \in {X, B(24)}
        /\ row.high[5] \in {X, B(23)} /\ row.high[6] \in {X, B(22)}
        /\ row.high[7] \in {X, B(21)} /\ row.high[8] \in {X, B(20)}
        /\ row.low[1] \in {X, B(7)} /\ row.low[2] \in {X, B(6)}
        /\ row.low[3] \in {X, B(5)} /\ row.low[4] \in {X, B(4)}
  BY Zenon, <1>1, <1>2, <1>3, <1>4
<1> QED BY Zenon, <1>5 DEF B

\* The rows of the table, as conditions on the bits of the word.
LEMMA Rows ==
  ASSUME NEW op \in Word
  PROVE  /\ Matches(op, Table[1]) <=> ~Bit(op, 27) /\ ~Bit(op, 26) /\ ~Bit(op, 25)
              /\ ~Bit(op, 24) /\ ~Bit(op, 23) /\ ~Bit(op, 22) /\ ~Bit(op, 21)
              /\ Bit(op, 7) /\ ~Bit(op, 6) /\ ~Bit(op, 5) /\ Bit(op, 4)
         /\ Matches(op, Table[2]) <=> ~Bit(op, 27) /\ ~Bit(op, 26) /\ ~Bit(op, 25)
              /\ ~Bit(op, 24) /\ ~Bit(op, 23) /\ ~Bit(op, 22) /\ Bit(op, 21)
              /\ Bit(op, 7) /\ ~Bit(op, 6) /\ ~Bit(op, 5) /\ Bit(op, 4)
         /\ Matches(op, Table[3]) <=> ~Bit(op, 27) /\ ~Bit(op, 26) /\ ~Bit(op, 25)
              /\ ~Bit(op, 24) /\ Bit(op, 23) /\ Bit(op, 7) /\ ~Bit(op, 6) /\ ~Bit(op, 5)
              /\ Bit(op, 4)
         /\ Matches(op, Table[4]) <=> ~Bit(op, 27) /\ ~Bit(op, 26) /\ ~Bit(op, 25) /\ Bit(op, 24)
              /\ ~Bit(op, 23) /\ ~Bit(op, 22) /\ ~Bit(op, 21) /\ ~Bit(op, 20)
              /\ Bit(op, 7) /\ ~Bit(op, 6) /\ ~Bit(op, 5) /\ Bit(op, 4)
         /\ Matches(op, Table[5]) <=> ~Bit(op, 27) /\ ~Bit(op, 26) /\ ~Bit(op, 25) /\ Bit(op, 24)
              /\ ~Bit(op, 23) /\ Bit(op, 22) /\ ~Bit(op, 21) /\ ~Bit(op, 20)
              /\ Bit(op, 7) /\ ~Bit(op, 6) /\ ~Bit(op, 5) /\ Bit(op, 4)
         /\ Matches(op, Table[6]) <=> ~Bit(op, 27) /\ ~Bit(op, 26) /\ ~Bit(op, 25) /\ Bit(op, 7)
              /\ ~Bit(op, 6) /\ ~Bit(op, 5) /\ Bit(op, 4)
         /\ Matches(op, Table[7]) <=> ~Bit(op, 27) /\ ~Bit(op, 26) /\ ~Bit(op, 25)
              /\ ~Bit(op, 20) /\ Bit(op, 7) /\ Bit(op, 6) /\ ~Bit(op, 5) /\ Bit(op, 4)
         /\ Matches(op, Table[8]) <=> ~Bit(op, 27) /\ ~Bit(op, 26) /\ ~Bit(op, 25)
              /\ ~Bit(op, 20) /\ Bit(op, 7) /\ Bit(op, 6) /\ Bit(op, 5) /\ Bit(op, 4)
         /\ Matches(op, Table[9]) <=> ~Bit(op, 27) /\ ~Bit(op, 26) /\ ~Bit(op, 25)
              /\ ~Bit(op, 20) /\ Bit(op, 7) /\ ~Bit(op, 6) /\ Bit(op, 5) /\ Bit(op, 4)
         /\ Matches(op, Table[10]) <=> ~Bit(op, 27) /\ ~Bit(op, 26) /\ ~Bit(op, 25)
              /\ Bit(op, 20) /\ Bit(op, 7) /\ Bit(op, 4)
         /\ Matches(op, Table[11]) <=> ~Bit(op, 27) /\ ~Bit(op, 26) /\ ~Bit(op, 25)
              /\ Bit(op, 24) /\ ~Bit(op, 23) /\ ~Bit(op, 21) /\ ~Bit(op, 20)
              /\ ~Bit(op, 7) /\ ~Bit(op, 6) /\ ~Bit(op, 5) /\ ~Bit(op, 4)
         /\ Matches(op, Table[12]) <=> ~Bit(op, 27) /\ ~Bit(op, 26) /\ ~Bit(op, 25)
              /\ Bit(op, 24) /\ ~Bit(op, 23) /\ Bit(op, 21) /\ ~Bit(op, 20)
              /\ ~Bit(op, 7) /\ ~Bit(op, 6) /\ ~Bit(op, 5) /\ ~Bit(op, 4)
         /\ Matches(op, Table[13]) <=> ~Bit(op, 27) /\ ~Bit(op, 26) /\ ~Bit(op, 25)
              /\ Bit(op, 24) /\ ~Bit(op, 23) /\ ~Bit(op, 22) /\ Bit(op, 21)
              /\ ~Bit(op, 20) /\ ~Bit(op, 7) /\ ~Bit(op, 6) /\ ~Bit(op, 5) /\ Bit(op, 4)
         /\ Matches(op, Table[14]) <=> ~Bit(op, 27) /\ ~Bit(op, 26) /\ ~Bit(op, 25)
              /\ Bit(op, 24) /\ ~Bit(op, 23) /\ Bit(op, 22) /\ Bit(op, 21)
              /\ ~Bit(op, 20) /\ ~Bit(op, 7) /\ ~Bit(op, 6) /\ ~Bit(op, 5) /\ Bit(op, 4)
         /\ Matches(op, Table[15]) <=> ~Bit(op, 27) /\ ~Bit(op, 26) /\ ~Bit(op, 25)
              /\ Bit(op, 24) /\ ~Bit(op, 23) /\ ~Bit(op, 22) /\ Bit(op, 21)
              /\ ~Bit(op, 20) /\ ~Bit(op, 7) /\ ~Bit(op, 6) /\ Bit(op, 5) /\ Bit(op, 4)
         /\ Matches(op, Table[16]) <=> ~Bit(op, 27) /\ ~Bit(op, 26) /\ ~Bit(op, 25)
              /\ Bit(op, 24) /\ ~Bit(op, 23) /\ ~Bit(op, 22) /\ Bit(op, 21)
              /\ ~Bit(op, 20) /\ ~Bit(op, 7) /\ Bit(op, 6) /\ Bit(op, 5) /\ Bit(op, 4)
         /\ Matches(op, Table[17]) <=> ~Bit(op, 27) /\ ~Bit(op, 26) /\ ~Bit(op, 25)
              /\ Bit(op, 24) /\ ~Bit(op, 23) /\ ~Bit(op, 20) /\ ~Bit(op, 7)
              /\ Bit(op, 6) /\ ~Bit(op, 5) /\ Bit(op, 4)
         /\ Matches(op, Table[18]) <=> ~Bit(op, 27) /\ ~Bit(op, 26) /\ ~Bit(op, 25)
              /\ Bit(op, 24) /\ ~Bit(op, 23) /\ ~Bit(op, 20) /\ Bit(op, 7)
              /\ ~Bit(op, 4)
         /\ Matches(op, Table[19]) <=> ~Bit(op, 27) /\ ~Bit(op, 26) /\ ~Bit(op, 25)
              /\ Bit(op, 24) /\ ~Bit(op, 23) /\ ~Bit(op, 20)
         /\ Matches(op, Table[20]) <=> ~Bit(op, 27) /\ ~Bit(op, 26) /\ ~Bit(op, 25)
              /\ ~Bit(op, 4)
         /\ Matches(op, Table[21]) <=> ~Bit(op, 27) /\ ~Bit(op, 26) /\ ~Bit(op, 25)
              /\ ~Bit(op, 7) /\ Bit(op, 4)
         /\ Matches(op, Table[22]) <=> ~Bit(op, 27) /\ ~Bit(op, 26) /\ Bit(op, 25) /\ Bit(op, 24)
              /\ ~Bit(op, 23) /\ Bit(op, 21) /\ ~Bit(op, 20)
         /\ Matches(op, Table[23]) <=> ~Bit(op, 27) /\ ~Bit(op, 26) /\ Bit(op, 25) /\ Bit(op, 24)
              /\ ~Bit(op, 23) /\ ~Bit(op, 21) /\ ~Bit(op, 20)
         /\ Matches(op, Table[24]) <=> ~Bit(op, 27) /\ ~Bit(op, 26) /\ Bit(op, 25)
         /\ Matches(op, Table[25]) <=> ~Bit(op, 27) /\ Bit(op, 26) /\ ~Bit(op, 25)
         /\ Matches(op, Table[26]) <=> ~Bit(op, 27) /\ Bit(op, 26) /\ Bit(op, 25) /\ ~Bit(op, 4)
         /\ Matches(op, Table[27]) <=> ~Bit(op, 27) /\ Bit(op, 26) /\ Bit(op, 25) /\ Bit(op, 4)
         /\ Matches(op, Table[28]) <=> Bit(op, 27) /\ ~Bit(op, 26) /\ ~Bit(op, 25)
              /\ ~Bit(op, 20)
         /\ Matches(op, Table[29]) <=> Bit(op, 27) /\ ~Bit(op, 26) /\ ~Bit(op, 25) /\ Bit(op, 20)
         /\ Matches(op, Table[30]) <=> Bit(op, 27) /\ ~Bit(op, 26) /\ Bit(op, 25) /\ ~Bit(op, 24)
         /\ Matches(op, Table[31]) <=> Bit(op, 27) /\ ~Bit(op, 26) /\ Bit(op, 25) /\ Bit(op, 24)
         /\ Matches(op, Table[32]) <=> Bit(op, 27) /\ Bit(op, 26) /\ ~Bit(op, 25)
         /\ Matches(op, Table[33]) <=> Bit(op, 27) /\ Bit(op, 26) /\ Bit(op, 25) /\ ~Bit(op, 24)
              /\ ~Bit(op, 4)
         /\ Matches(op, Table[34]) <=> Bit(op, 27) /\ Bit(op, 26) /\ Bit(op, 25) /\ ~Bit(op, 24)
              /\ Bit(op, 20) /\ Bit(op, 4)
         /\ Matches(op, Table[35]) <=> Bit(op, 27) /\ Bit(op, 26) /\ Bit(op, 25) /\ ~Bit(op, 24)
              /\ ~Bit(op, 20) /\ Bit(op, 4)
         /\ Matches(op, Table[36]) <=> Bit(op, 27) /\ Bit(op, 26) /\ Bit(op, 25) /\ Bit(op, 24)
<1> DEFINE B(i) == Bits(op, i, 1)
<1>0. \A i \in 0 .. 31 : (B(i) = 1 <=> Bit(op, i)) /\ (B(i) = 0 <=> ~Bit(op, i))
  BY BitValues
<1> HIDE DEF B
<1>1. Matches(op, Table[1]) <=> ~Bit(op, 27) /\ ~Bit(op, 26) /\ ~Bit(op, 25)
        /\ ~Bit(op, 24) /\ ~Bit(op, 23) /\ ~Bit(op, 22) /\ ~Bit(op, 21) /\ Bit(op, 7)
        /\ ~Bit(op, 6) /\ ~Bit(op, 5) /\ Bit(op, 4)
  <2>1. Table[1] = Row("MUL", <<0,0,0,0,0,0,0,X>>, <<1,0,0,1>>) BY DEF Table
  <2> QED BY <1>0, <2>1, MatchesBits DEF Row, X, B
<1>2. Matches(op, Table[2]) <=> ~Bit(op, 27) /\ ~Bit(op, 26) /\ ~Bit(op, 25)
        /\ ~Bit(op, 24) /\ ~Bit(op, 23) /\ ~Bit(op, 22) /\ Bit(op, 21) /\ Bit(op, 7)
        /\ ~Bit(op, 6) /\ ~Bit(op, 5) /\ Bit(op, 4)
  <2>1. Table[2] = Row("MLA", <<0,0,0,0,0,0,1,X>>, <<1,0,0,1>>) BY DEF Table
  <2> QED BY <1>0, <2>1, MatchesBits DEF Row, X, B
<1>3. Matches(op, Table[3]) <=> ~Bit(op, 27) /\ ~Bit(op, 26) /\ ~Bit(op, 25)
        /\ ~Bit(op, 24) /\ Bit(op, 23) /\ Bit(op, 7) /\ ~Bit(op, 6) /\ ~Bit(op, 5)
        /\ Bit(op, 4)
  <2>1. Table[3] = Row("MULL", <<0,0,0,0,1,X,X,X>>, <<1,0,0,1>>) BY DEF Table
  <2> QED BY <1>0, <2>1, MatchesBits DEF Row, X, B
<1>4. Matches(op, Table[4]) <=> ~Bit(op, 27) /\ ~Bit(op, 26) /\ ~Bit(op, 25)
        /\ Bit(op, 24) /\ ~Bit(op, 23) /\ ~Bit(op, 22) /\ ~Bit(op, 21) /\ ~Bit(op, 20)
        /\ Bit(op, 7) /\ ~Bit(op, 6) /\ ~Bit(op, 5) /\ Bit(op, 4)
  <2>1. Table[4] = Row("SWP", <<0,0,0,1,0,0,0,0>>, <<1,0,0,1>>) BY DEF Table
  <2> QED BY <1>0, <2>1, MatchesBits DEF Row, X, B
<1>5. Matches(op, Table[5]) <=> ~Bit(op, 27) /\ ~Bit(op, 26) /\ ~Bit(op, 25)
        /\ Bit(op, 24) /\ ~Bit(op, 23) /\ Bit(op, 22) /\ ~Bit(op, 21) /\ ~Bit(op, 20)
        /\ Bit(op, 7) /\ ~Bit(op, 6) /\ ~Bit(op, 5) /\ Bit(op, 4)
  <2>1. Table[5] = Row("SWPB", <<0,0,0,1,0,1,0,0>>, <<1,0,0,1>>) BY DEF Table
  <2> QED BY <1>0, <2>1, MatchesBits DEF Row, X, B
<1>6. Matches(op, Table[6]) <=> ~Bit(op, 27) /\ ~Bit(op, 26) /\ ~Bit(op, 25)
        /\ Bit(op, 7) /\ ~Bit(op, 6) /\ ~Bit(op, 5) /\ Bit(op, 4)
  <2>1. Table[6] = Row("UD", <<0,0,0,X,X,X,X,X>>, <<1,0,0,1>>) BY DEF Table
  <2> QED BY <1>0, <2>1, MatchesBits DEF Row, X, B
<1>7. Matches(op, Table[7]) <=> ~Bit(op, 27) /\ ~Bit(op, 26) /\ ~Bit(op, 25)
        /\ ~Bit(op, 20) /\ Bit(op, 7) /\ Bit(op, 6) /\ ~Bit(op, 5) /\ Bit(op, 4)
  <2>1. Table[7] = Row("LDRD", <<0,0,0,X,X,X,X,0>>, <<1,1,0,1>>) BY DEF Table
  <2> QED BY <1>0, <2>1, MatchesBits DEF Row, X, B
<1>8. Matches(op, Table[8]) <=> ~Bit(op, 27) /\ ~Bit(op, 26) /\ ~Bit(op, 25)
        /\ ~Bit(op, 20) /\ Bit(op, 7) /\ Bit(op, 6) /\ Bit(op, 5) /\ Bit(op, 4)
  <2>1. Table[8] = Row("STRD", <<0,0,0,X,X,X,X,0>>, <<1,1,1,1>>) BY DEF Table
  <2> QED BY <1>0, <2>1, MatchesBits DEF Row, X, B
<1>9. Matches(op, Table[9]) <=> ~Bit(op, 27) /\ ~Bit(op, 26) /\ ~Bit(op, 25)
        /\ ~Bit(op, 20) /\ Bit(op, 7) /\ ~Bit(op, 6) /\ Bit(op, 5) /\ Bit(op, 4)
  <2>1. Table[9] = Row("STRX", <<0,0,0,X,X,X,X,0>>, <<1,0,1,1>>) BY DEF Table
  <2> QED BY <1>0, <2>1, MatchesBits DEF Row, X, B
<1>10. Matches(op, Table[10]) <=> ~Bit(op, 27) /\ ~Bit(op, 26) /\ ~Bit(op, 25)
        /\ Bit(op, 20) /\ Bit(op, 7) /\ Bit(op, 4)
  <2>1. Table[10] = Row("LDRX", <<0,0,0,X,X,X,X,1>>, <<1,X,X,1>>) BY DEF Table
  <2> QED BY <1>0, <2>1, MatchesBits DEF Row, X, B
<1>11. Matches(op, Table[11]) <=> ~Bit(op, 27) /\ ~Bit(op, 26) /\ ~Bit(op, 25)
        /\ Bit(op, 24) /\ ~Bit(op, 23) /\ ~Bit(op, 21) /\ ~Bit(op, 20) /\ ~Bit(op, 7)
        /\ ~Bit(op, 6) /\ ~Bit(op, 5) /\ ~Bit(op, 4)
  <2>1. Table[11] = Row("MRS", <<0,0,0,1,0,X,0,0>>, <<0,0,0,0>>) BY DEF Table
  <2> QED BY <1>0, <2>1, MatchesBits DEF Row, X, B
<1>12. Matches(op, Table[12]) <=> ~Bit(op, 27) /\ ~Bit(op, 26) /\ ~Bit(op, 25)
        /\ Bit(op, 24) /\ ~Bit(op, 23) /\ Bit(op, 21) /\ ~Bit(op, 20) /\ ~Bit(op, 7)
        /\ ~Bit(op, 6) /\ ~Bit(op, 5) /\ ~Bit(op, 4)
  <2>1. Table[12] = Row("MSR_R", <<0,0,0,1,0,X,1,0>>, <<0,0,0,0>>) BY DEF Table
  <2> QED BY <1>0, <2>1, MatchesBits DEF Row, X, B
<1>13. Matches(op, Table[13]) <=> ~Bit(op, 27) /\ ~Bit(op, 26) /\ ~Bit(op, 25)
        /\ Bit(op, 24) /\ ~Bit(op, 23) /\ ~Bit(op, 22) /\ Bit(op, 21) /\ ~Bit(op, 20)
        /\ ~Bit(op, 7) /\ ~Bit(op, 6) /\ ~Bit(op, 5) /\ Bit(op, 4)
  <2>1. Table[13] = Row("BX", <<0,0,0,1,0,0,1,0>>, <<0,0,0,1>>) BY DEF Table
  <2> QED BY <1>0, <2>1, MatchesBits DEF Row, X, B
<1>14. Matches(op, Table[14]) <=> ~Bit(op, 27) /\ ~Bit(op, 26) /\ ~Bit(op, 25)
        /\ Bit(op, 24) /\ ~Bit(op, 23) /\ Bit(op, 22) /\ Bit(op, 21) /\ ~Bit(op, 20)
        /\ ~Bit(op, 7) /\ ~Bit(op, 6) /\ ~Bit(op, 5) /\ Bit(op, 4)
  <2>1. Table[14] = Row("CLZ", <<0,0,0,1,0,1,1,0>>, <<0,0,0,1>>) BY DEF Table
  <2> QED BY <1>0, <2>1, MatchesBits DEF Row, X, B
<1>15. Matches(op, Table[15]) <=> ~Bit(op, 27) /\ ~Bit(op, 26) /\ ~Bit(op, 25)
        /\ Bit(op, 24) /\ ~Bit(op, 23) /\ ~Bit(op, 22) /\ Bit(op, 21) /\ ~Bit(op, 20)
        /\ ~Bit(op, 7) /\ ~Bit(op, 6) /\ Bit(op, 5) /\ Bit(op, 4)
  <2>1. Table[15] = Row("BLX", <<0,0,0,1,0,0,1,0>>, <<0,0,1,1>>) BY DEF Table
  <2> QED BY <1>0, <2>1, MatchesBits DEF Row, X, B
<1>16. Matches(op, Table[16]) <=> ~Bit(op, 27) /\ ~Bit(op, 26) /\ ~Bit(op, 25)
        /\ Bit(op, 24) /\ ~Bit(op, 23) /\ ~Bit(op, 22) /\ Bit(op, 21) /\ ~Bit(op, 20)
        /\ ~Bit(op, 7) /\ Bit(op, 6) /\ Bit(op, 5) /\ Bit(op, 4)
  <2>1. Table[16] = Row("BKPT", <<0,0,0,1,0,0,1,0>>, <<0,1,1,1>>) BY DEF Table
  <2> QED BY <1>0, <2>1, MatchesBits DEF Row, X, B
<1>17. Matches(op, Table[17]) <=> ~Bit(op, 27) /\ ~Bit(op, 26) /\ ~Bit(op, 25)
        /\ Bit(op, 24) /\ ~Bit(op, 23) /\ ~Bit(op, 20) /\ ~Bit(op, 7) /\ Bit(op, 6)
        /\ ~Bit(op, 5) /\ Bit(op, 4)
  <2>1. Table[17] = Row("DSP", <<0,0,0,1,0,X,X,0>>, <<0,1,0,1>>) BY DEF Table
  <2> QED BY <1>0, <2>1, MatchesBits DEF Row, X, B
<1>18. Matches(op, Table[18]) <=> ~Bit(op, 27) /\ ~Bit(op, 26) /\ ~Bit(op, 25)
        /\ Bit(op, 24) /\ ~Bit(op, 23) /\ ~Bit(op, 20) /\ Bit(op, 7) /\ ~Bit(op, 4)
  <2>1. Table[18] = Row("DSP", <<0,0,0,1,0,X,X,0>>, <<1,X,X,0>>) BY DEF Table
  <2> QED BY <1>0, <2>1, MatchesBits DEF Row, X, B
<1>19. Matches(op, Table[19]) <=> ~Bit(op, 27) /\ ~Bit(op, 26) /\ ~Bit(op, 25)
        /\ Bit(op, 24) /\ ~Bit(op, 23) /\ ~Bit(op, 20)
  <2>1. Table[19] = Row("UD", <<0,0,0,1,0,X,X,0>>, <<X,X,X,X>>) BY DEF Table
  <2> QED BY <1>0, <2>1, MatchesBits DEF Row, X, B
<1>20. Matches(op, Table[20]) <=> ~Bit(op, 27) /\ ~Bit(op, 26) /\ ~Bit(op, 25)
        /\ ~Bit(op, 4)
  <2>1. Table[20] = Row("Data_R", <<0,0,0,X,X,X,X,X>>, <<X,X,X,0>>) BY DEF Table
  <2> QED BY <1>0, <2>1, MatchesBits DEF Row, X, B
<1>21. Matches(op, Table[21]) <=> ~Bit(op, 27) /\ ~Bit(op, 26) /\ ~Bit(op, 25)
        /\ ~Bit(op, 7) /\ Bit(op, 4)
  <2>1. Table[21] = Row("Data_RR", <<0,0,0,X,X,X,X,X>>, <<0,X,X,1>>) BY DEF Table
  <2> QED BY <1>0, <2>1, MatchesBits DEF Row, X, B
<1>22. Matches(op, Table[22]) <=> ~Bit(op, 27) /\ ~Bit(op, 26) /\ Bit(op, 25)
        /\ Bit(op, 24) /\ ~Bit(op, 23) /\ Bit(op, 21) /\ ~Bit(op, 20)
  <2>1. Table[22] = Row("MSR_I", <<0,0,1,1,0,X,1,0>>, <<X,X,X,X>>) BY DEF Table
  <2> QED BY <1>0, <2>1, MatchesBits DEF Row, X, B
<1>23. Matches(op, Table[23]) <=> ~Bit(op, 27) /\ ~Bit(op, 26) /\ Bit(op, 25)
        /\ Bit(op, 24) /\ ~Bit(op, 23) /\ ~Bit(op, 21) /\ ~Bit(op, 20)
  <2>1. Table[23] = Row("UD", <<0,0,1,1,0,X,0,0>>, <<X,X,X,X>>) BY DEF Table
  <2> QED BY <1>0, <2>1, MatchesBits DEF Row, X, B
<1>24. Matches(op, Table[24]) <=> ~Bit(op, 27) /\ ~Bit(op, 26) /\ Bit(op, 25)
  <2>1. Table[24] = Row("Data_I", <<0,0,1,X,X,X,X,X>>, <<X,X,X,X>>) BY DEF Table
  <2> QED BY <1>0, <2>1, MatchesBits DEF Row, X, B
<1>25. Matches(op, Table[25]) <=> ~Bit(op, 27) /\ Bit(op, 26) /\ ~Bit(op, 25)
  <2>1. Table[25] = Row("LS_I", <<0,1,0,X,X,X,X,X>>, <<X,X,X,X>>) BY DEF Table
  <2> QED BY <1>0, <2>1, MatchesBits DEF Row, X, B
<1>26. Matches(op, Table[26]) <=> ~Bit(op, 27) /\ Bit(op, 26) /\ Bit(op, 25)
        /\ ~Bit(op, 4)
  <2>1. Table[26] = Row("LS_R", <<0,1,1,X,X,X,X,X>>, <<X,X,X,0>>) BY DEF Table
  <2> QED BY <1>0, <2>1, MatchesBits DEF Row, X, B
<1>27. Matches(op, Table[27]) <=> ~Bit(op, 27) /\ Bit(op, 26) /\ Bit(op, 25)
        /\ Bit(op, 4)
  <2>1. Table[27] = Row("UD", <<0,1,1,X,X,X,X,X>>, <<X,X,X,1>>) BY DEF Table
  <2> QED BY <1>0, <2>1, MatchesBits DEF Row, X, B
<1>28. Matches(op, Table[28]) <=> Bit(op, 27) /\ ~Bit(op, 26) /\ ~Bit(op, 25)
        /\ ~Bit(op, 20)
  <2>1. Table[28] = Row("STM", <<1,0,0,X,X,X,X,0>>, <<X,X,X,X>>) BY DEF Table
  <2> QED BY <1>0, <2>1, MatchesBits DEF Row, X, B
<1>29. Matches(op, Table[29]) <=> Bit(op, 27) /\ ~Bit(op, 26) /\ ~Bit(op, 25)
        /\ Bit(op, 20)
  <2>1. Table[29] = Row("LDM", <<1,0,0,X,X,X,X,1>>, <<X,X,X,X>>) BY DEF Table
  <2> QED BY <1>0, <2>1, MatchesBits DEF Row, X, B
<1>30. Matches(op, Table[30]) <=> Bit(op, 27) /\ ~Bit(op, 26) /\ Bit(op, 25)
        /\ ~Bit(op, 24)
  <2>1. Table[30] = Row("B", <<1,0,1,0,X,X,X,X>>, <<X,X,X,X>>) BY DEF Table
  <2> QED BY <1>0, <2>1, MatchesBits DEF Row, X, B
<1>31. Matches(op, Table[31]) <=> Bit(op, 27) /\ ~Bit(op, 26) /\ Bit(op, 25)
        /\ Bit(op, 24)
  <2>1. Table[31] = Row("BL", <<1,0,1,1,X,X,X,X>>, <<X,X,X,X>>) BY DEF Table
  <2> QED BY <1>0, <2>1, MatchesBits DEF Row, X, B
<1>32. Matches(op, Table[32]) <=> Bit(op, 27) /\ Bit(op, 26) /\ ~Bit(op, 25)
  <2>1. Table[32] = Row("LDC", <<1,1,0,X,X,X,X,X>>, <<X,X,X,X>>) BY DEF Table
  <2> QED BY <1>0, <2>1, MatchesBits DEF Row, X, B
<1>33. Matches(op, Table[33]) <=> Bit(op, 27) /\ Bit(op, 26) /\ Bit(op, 25)
        /\ ~Bit(op, 24) /\ ~Bit(op, 4)
  <2>1. Table[33] = Row("CDP", <<1,1,1,0,X,X,X,X>>, <<X,X,X,0>>) BY DEF Table
  <2> QED BY <1>0, <2>1, MatchesBits DEF Row, X, B
<1>34. Matches(op, Table[34]) <=> Bit(op, 27) /\ Bit(op, 26) /\ Bit(op, 25)
        /\ ~Bit(op, 24) /\ Bit(op, 20) /\ Bit(op, 4)
  <2>1. Table[34] = Row("MRC", <<1,1,1,0,X,X,X,1>>, <<X,X,X,1>>) BY DEF Table
  <2> QED BY <1>0, <2>1, MatchesBits DEF Row, X, B
<1>35. Matches(op, Table[35]) <=> Bit(op, 27) /\ Bit(op, 26) /\ Bit(op, 25)
        /\ ~Bit(op, 24) /\ ~Bit(op, 20) /\ Bit(op, 4)
  <2>1. Table[35] = Row("MCR", <<1,1,1,0,X,X,X,0>>, <<X,X,X,1>>) BY DEF Table
  <2> QED BY <1>0, <2>1, MatchesBits DEF Row, X, B
<1>36. Matches(op, Table[36]) <=> Bit(op, 27) /\ Bit(op, 26) /\ Bit(op, 25)
        /\ Bit(op, 24)
  <2>1. Table[36] = Row("SWI", <<1,1,1,1,X,X,X,X>>, <<X,X,X,X>>) BY DEF Table
  <2> QED BY <1>0, <2>1, MatchesBits DEF Row, X, B
<1> QED
  BY Zenon, <1>1, <1>2, <1>3, <1>4, <1>5, <1>6, <1>7, <1>8, <1>9, <1>10, <1>11, <1>12,
            <1>13, <1>14, <1>15, <1>16, <1>17, <1>18, <1>19, <1>20, <1>21, <1>22, <1>23, <1>24,
            <1>25, <1>26, <1>27, <1>28, <1>29, <1>30, <1>31, <1>32, <1>33, <1>34, <1>35, <1>36

\* The encoding of a word is the first row that matches it.
LEMMA FirstMatch ==
  ASSUME NEW op, NEW k \in 1 .. 36, Matches(op, Table[k]),
         \A j \in 1 .. k - 1 : ~Matches(op, Table[j])
  PROVE  Encoding(op) = Table[k].name
<1> DEFINE M(j) == Matches(op, Table[j])
           P(i) == i \in DOMAIN Table /\ M(i) /\ \A j \in 1 .. i - 1 : ~M(j)
           K == CHOOSE i \in DOMAIN Table : M(i) /\ \A j \in 1 .. i - 1 : ~M(j)
<1>1. DOMAIN Table = 1 .. 36 BY DEF Table
<1>2. P(k) BY <1>1
<1>3. P(K) BY Zenon, <1>2
<1>4. Encoding(op) = Table[K].name BY Zenon DEF Encoding
<1> HIDE DEF M, K
<1>5. K = k BY SMT, <1>1, <1>2, <1>3
<1> QED BY Zenon, <1>4, <1>5

\* The encoding of a word, from its bits.
LEMMA Encodings ==
  ASSUME NEW op \in Word
  PROVE  /\ ~Bit(op, 27) /\ ~Bit(op, 26) /\ ~Bit(op, 25) /\ Bit(op, 7) /\ Bit(op, 4)
            /\ ~Bit(op, 6) /\ ~Bit(op, 5) /\ ~Bit(op, 24) /\ ~Bit(op, 23)
            /\ ~Bit(op, 22) /\ ~Bit(op, 21)
              => Encoding(op) = "MUL"
         /\ ~Bit(op, 27) /\ ~Bit(op, 26) /\ ~Bit(op, 25) /\ Bit(op, 7) /\ Bit(op, 4)
            /\ ~Bit(op, 6) /\ ~Bit(op, 5) /\ ~Bit(op, 24) /\ ~Bit(op, 23)
            /\ ~Bit(op, 22) /\ Bit(op, 21)
              => Encoding(op) = "MLA"
         /\ ~Bit(op, 27) /\ ~Bit(op, 26) /\ ~Bit(op, 25) /\ Bit(op, 7) /\ Bit(op, 4)
            /\ ~Bit(op, 6) /\ ~Bit(op, 5) /\ ~Bit(op, 24) /\ Bit(op, 23)
              => Encoding(op) = "MULL"
         /\ ~Bit(op, 27) /\ ~Bit(op, 26) /\ ~Bit(op, 25) /\ Bit(op, 7) /\ Bit(op, 4)
            /\ ~Bit(op, 6) /\ ~Bit(op, 5) /\ Bit(op, 24) /\ ~Bit(op, 23) /\ ~Bit(op, 22)
            /\ ~Bit(op, 21) /\ ~Bit(op, 20)
              => Encoding(op) = "SWP"
         /\ ~Bit(op, 27) /\ ~Bit(op, 26) /\ ~Bit(op, 25) /\ Bit(op, 7) /\ Bit(op, 4)
            /\ ~Bit(op, 6) /\ ~Bit(op, 5) /\ Bit(op, 24) /\ ~Bit(op, 23) /\ Bit(op, 22)
            /\ ~Bit(op, 21) /\ ~Bit(op, 20)
              => Encoding(op) = "SWPB"
         /\ ~Bit(op, 27) /\ ~Bit(op, 26) /\ ~Bit(op, 25) /\ Bit(op, 7) /\ Bit(op, 4)
            /\ ~Bit(op, 6) /\ ~Bit(op, 5) /\ ((~Bit(op, 24) /\ ~Bit(op, 23)
            /\ Bit(op, 22)) \/ (Bit(op, 24)
            /\ (Bit(op, 23) \/ Bit(op, 21) \/ Bit(op, 20))))
              => Encoding(op) = "UD"
         /\ ~Bit(op, 27) /\ ~Bit(op, 26) /\ ~Bit(op, 25) /\ Bit(op, 7) /\ Bit(op, 4)
            /\ ~Bit(op, 20) /\ Bit(op, 6) /\ ~Bit(op, 5)
              => Encoding(op) = "LDRD"
         /\ ~Bit(op, 27) /\ ~Bit(op, 26) /\ ~Bit(op, 25) /\ Bit(op, 7) /\ Bit(op, 4)
            /\ ~Bit(op, 20) /\ Bit(op, 6) /\ Bit(op, 5)
              => Encoding(op) = "STRD"
         /\ ~Bit(op, 27) /\ ~Bit(op, 26) /\ ~Bit(op, 25) /\ Bit(op, 7) /\ Bit(op, 4)
            /\ ~Bit(op, 20) /\ ~Bit(op, 6) /\ Bit(op, 5)
              => Encoding(op) = "STRX"
         /\ ~Bit(op, 27) /\ ~Bit(op, 26) /\ ~Bit(op, 25) /\ Bit(op, 7) /\ Bit(op, 4)
            /\ Bit(op, 20) /\ (Bit(op, 6) \/ Bit(op, 5))
              => Encoding(op) = "LDRX"
         /\ ~Bit(op, 27) /\ ~Bit(op, 26) /\ ~Bit(op, 25) /\ Bit(op, 24) /\ ~Bit(op, 23)
            /\ ~Bit(op, 20) /\ ~Bit(op, 21) /\ ~Bit(op, 7) /\ ~Bit(op, 6) /\ ~Bit(op, 5)
            /\ ~Bit(op, 4)
              => Encoding(op) = "MRS"
         /\ ~Bit(op, 27) /\ ~Bit(op, 26) /\ ~Bit(op, 25) /\ Bit(op, 24) /\ ~Bit(op, 23)
            /\ ~Bit(op, 20) /\ Bit(op, 21) /\ ~Bit(op, 7) /\ ~Bit(op, 6) /\ ~Bit(op, 5)
            /\ ~Bit(op, 4)
              => Encoding(op) = "MSR_R"
         /\ ~Bit(op, 27) /\ ~Bit(op, 26) /\ ~Bit(op, 25) /\ Bit(op, 24) /\ ~Bit(op, 23)
            /\ ~Bit(op, 20) /\ Bit(op, 21) /\ ~Bit(op, 22) /\ ~Bit(op, 7) /\ ~Bit(op, 6)
            /\ ~Bit(op, 5) /\ Bit(op, 4)
              => Encoding(op) = "BX"
         /\ ~Bit(op, 27) /\ ~Bit(op, 26) /\ ~Bit(op, 25) /\ Bit(op, 24) /\ ~Bit(op, 23)
            /\ ~Bit(op, 20) /\ Bit(op, 21) /\ Bit(op, 22) /\ ~Bit(op, 7) /\ ~Bit(op, 6)
            /\ ~Bit(op, 5) /\ Bit(op, 4)
              => Encoding(op) = "CLZ"
         /\ ~Bit(op, 27) /\ ~Bit(op, 26) /\ ~Bit(op, 25) /\ Bit(op, 24) /\ ~Bit(op, 23)
            /\ ~Bit(op, 20) /\ Bit(op, 21) /\ ~Bit(op, 22) /\ ~Bit(op, 7) /\ ~Bit(op, 6)
            /\ Bit(op, 5) /\ Bit(op, 4)
              => Encoding(op) = "BLX"
         /\ ~Bit(op, 27) /\ ~Bit(op, 26) /\ ~Bit(op, 25) /\ Bit(op, 24) /\ ~Bit(op, 23)
            /\ ~Bit(op, 20) /\ Bit(op, 21) /\ ~Bit(op, 22) /\ ~Bit(op, 7) /\ Bit(op, 6)
            /\ Bit(op, 5) /\ Bit(op, 4)
              => Encoding(op) = "BKPT"
         /\ ~Bit(op, 27) /\ ~Bit(op, 26) /\ ~Bit(op, 25) /\ Bit(op, 24) /\ ~Bit(op, 23)
            /\ ~Bit(op, 20) /\ ~Bit(op, 7) /\ Bit(op, 6) /\ ~Bit(op, 5) /\ Bit(op, 4)
              => Encoding(op) = "DSP"
         /\ ~Bit(op, 27) /\ ~Bit(op, 26) /\ ~Bit(op, 25) /\ Bit(op, 24) /\ ~Bit(op, 23)
            /\ ~Bit(op, 20) /\ Bit(op, 7) /\ ~Bit(op, 4)
              => Encoding(op) = "DSP"
         /\ ~Bit(op, 27) /\ ~Bit(op, 26) /\ ~Bit(op, 25) /\ Bit(op, 24) /\ ~Bit(op, 23)
            /\ ~Bit(op, 20) /\ ~Bit(op, 7) /\ ((~Bit(op, 6) /\ ~Bit(op, 5) /\ Bit(op, 4)
            /\ ~Bit(op, 21)) \/ (Bit(op, 5) /\ ~(Bit(op, 21) /\ ~Bit(op, 22)
            /\ Bit(op, 4))) \/ (Bit(op, 6) /\ ~Bit(op, 5) /\ ~Bit(op, 4)))
              => Encoding(op) = "UD"
         /\ ~Bit(op, 27) /\ ~Bit(op, 26) /\ ~Bit(op, 25) /\ ~Bit(op, 4) /\ ~(Bit(op, 24)
            /\ ~Bit(op, 23) /\ ~Bit(op, 20))
              => Encoding(op) = "Data_R"
         /\ ~Bit(op, 27) /\ ~Bit(op, 26) /\ ~Bit(op, 25) /\ ~Bit(op, 7) /\ Bit(op, 4)
            /\ ~(Bit(op, 24) /\ ~Bit(op, 23) /\ ~Bit(op, 20))
              => Encoding(op) = "Data_RR"
         /\ ~Bit(op, 27) /\ ~Bit(op, 26) /\ Bit(op, 25) /\ Bit(op, 24) /\ ~Bit(op, 23)
            /\ Bit(op, 21) /\ ~Bit(op, 20)
              => Encoding(op) = "MSR_I"
         /\ ~Bit(op, 27) /\ ~Bit(op, 26) /\ Bit(op, 25) /\ Bit(op, 24) /\ ~Bit(op, 23)
            /\ ~Bit(op, 21) /\ ~Bit(op, 20)
              => Encoding(op) = "UD"
         /\ ~Bit(op, 27) /\ ~Bit(op, 26) /\ Bit(op, 25) /\ ~(Bit(op, 24) /\ ~Bit(op, 23)
            /\ ~Bit(op, 20))
              => Encoding(op) = "Data_I"
         /\ ~Bit(op, 27) /\ Bit(op, 26) /\ ~Bit(op, 25)
              => Encoding(op) = "LS_I"
         /\ ~Bit(op, 27) /\ Bit(op, 26) /\ Bit(op, 25) /\ ~Bit(op, 4)
              => Encoding(op) = "LS_R"
         /\ ~Bit(op, 27) /\ Bit(op, 26) /\ Bit(op, 25) /\ Bit(op, 4)
              => Encoding(op) = "UD"
         /\ Bit(op, 27) /\ ~Bit(op, 26) /\ ~Bit(op, 25) /\ ~Bit(op, 20)
              => Encoding(op) = "STM"
         /\ Bit(op, 27) /\ ~Bit(op, 26) /\ ~Bit(op, 25) /\ Bit(op, 20)
              => Encoding(op) = "LDM"
         /\ Bit(op, 27) /\ ~Bit(op, 26) /\ Bit(op, 25) /\ ~Bit(op, 24)
              => Encoding(op) = "B"
         /\ Bit(op, 27) /\ ~Bit(op, 26) /\ Bit(op, 25) /\ Bit(op, 24)
              => Encoding(op) = "BL"
         /\ Bit(op, 27) /\ Bit(op, 26) /\ ~Bit(op, 25)
              => Encoding(op) = "LDC"
         /\ Bit(op, 27) /\ Bit(op, 26) /\ Bit(op, 25) /\ ~Bit(op, 24) /\ ~Bit(op, 4)
              => Encoding(op) = "CDP"
         /\ Bit(op, 27) /\ Bit(op, 26) /\ Bit(op, 25) /\ ~Bit(op, 24) /\ Bit(op, 20)
            /\ Bit(op, 4)
              => Encoding(op) = "MRC"
         /\ Bit(op, 27) /\ Bit(op, 26) /\ Bit(op, 25) /\ ~Bit(op, 24) /\ ~Bit(op, 20)
            /\ Bit(op, 4)
              => Encoding(op) = "MCR"
         /\ Bit(op, 27) /\ Bit(op, 26) /\ Bit(op, 25) /\ Bit(op, 24)
              => Encoding(op) = "SWI"
<1> DEFINE M(j) == Matches(op, Table[j])
<1>0. \A k \in 1 .. 36 : M(k) /\ (\A j \in 1 .. k - 1 : ~M(j)) => Encoding(op) = Table[k].name
  BY Zenon, FirstMatch
<1>1. ASSUME ~Bit(op, 27) /\ ~Bit(op, 26) /\ ~Bit(op, 25) /\ Bit(op, 7) /\ Bit(op, 4)
              /\ ~Bit(op, 6) /\ ~Bit(op, 5) /\ ~Bit(op, 24) /\ ~Bit(op, 23)
              /\ ~Bit(op, 22) /\ ~Bit(op, 21)
      PROVE  Encoding(op) = "MUL"
  <2>1. M(1) BY SMT, <1>1, Rows
  <2>2. \A j \in 1 .. 0 : ~M(j) OBVIOUS
  <2>3. Table[1].name = "MUL" BY DEF Table, Row
  <2> HIDE DEF M
  <2> QED BY SMT, <1>0, <2>1, <2>2, <2>3
<1>2. ASSUME ~Bit(op, 27) /\ ~Bit(op, 26) /\ ~Bit(op, 25) /\ Bit(op, 7) /\ Bit(op, 4)
              /\ ~Bit(op, 6) /\ ~Bit(op, 5) /\ ~Bit(op, 24) /\ ~Bit(op, 23)
              /\ ~Bit(op, 22) /\ Bit(op, 21)
      PROVE  Encoding(op) = "MLA"
  <2>1. M(2) BY SMT, <1>2, Rows
  <2>2. \A j \in 1 .. 1 : ~M(j) BY SMT, <1>2, Rows
  <2>3. Table[2].name = "MLA" BY DEF Table, Row
  <2> HIDE DEF M
  <2> QED BY SMT, <1>0, <2>1, <2>2, <2>3
<1>3. ASSUME ~Bit(op, 27) /\ ~Bit(op, 26) /\ ~Bit(op, 25) /\ Bit(op, 7) /\ Bit(op, 4)
              /\ ~Bit(op, 6) /\ ~Bit(op, 5) /\ ~Bit(op, 24) /\ Bit(op, 23)
      PROVE  Encoding(op) = "MULL"
  <2>1. M(3) BY SMT, <1>3, Rows
  <2>2. \A j \in 1 .. 2 : ~M(j) BY SMT, <1>3, Rows
  <2>3. Table[3].name = "MULL" BY DEF Table, Row
  <2> HIDE DEF M
  <2> QED BY SMT, <1>0, <2>1, <2>2, <2>3
<1>4. ASSUME ~Bit(op, 27) /\ ~Bit(op, 26) /\ ~Bit(op, 25) /\ Bit(op, 7) /\ Bit(op, 4)
              /\ ~Bit(op, 6) /\ ~Bit(op, 5) /\ Bit(op, 24) /\ ~Bit(op, 23)
              /\ ~Bit(op, 22) /\ ~Bit(op, 21) /\ ~Bit(op, 20)
      PROVE  Encoding(op) = "SWP"
  <2>1. M(4) BY SMT, <1>4, Rows
  <2>2. \A j \in 1 .. 3 : ~M(j) BY SMT, <1>4, Rows
  <2>3. Table[4].name = "SWP" BY DEF Table, Row
  <2> HIDE DEF M
  <2> QED BY SMT, <1>0, <2>1, <2>2, <2>3
<1>5. ASSUME ~Bit(op, 27) /\ ~Bit(op, 26) /\ ~Bit(op, 25) /\ Bit(op, 7) /\ Bit(op, 4)
              /\ ~Bit(op, 6) /\ ~Bit(op, 5) /\ Bit(op, 24) /\ ~Bit(op, 23)
              /\ Bit(op, 22) /\ ~Bit(op, 21) /\ ~Bit(op, 20)
      PROVE  Encoding(op) = "SWPB"
  <2>1. M(5) BY SMT, <1>5, Rows
  <2>2. \A j \in 1 .. 4 : ~M(j) BY SMT, <1>5, Rows
  <2>3. Table[5].name = "SWPB" BY DEF Table, Row
  <2> HIDE DEF M
  <2> QED BY SMT, <1>0, <2>1, <2>2, <2>3
<1>6. ASSUME ~Bit(op, 27) /\ ~Bit(op, 26) /\ ~Bit(op, 25) /\ Bit(op, 7) /\ Bit(op, 4)
              /\ ~Bit(op, 6) /\ ~Bit(op, 5) /\ ((~Bit(op, 24) /\ ~Bit(op, 23)
              /\ Bit(op, 22)) \/ (Bit(op, 24)
              /\ (Bit(op, 23) \/ Bit(op, 21) \/ Bit(op, 20))))
      PROVE  Encoding(op) = "UD"
  <2>1. M(6) BY SMT, <1>6, Rows
  <2>2. \A j \in 1 .. 5 : ~M(j) BY SMT, <1>6, Rows
  <2>3. Table[6].name = "UD" BY DEF Table, Row
  <2> HIDE DEF M
  <2> QED BY SMT, <1>0, <2>1, <2>2, <2>3
<1>7. ASSUME ~Bit(op, 27) /\ ~Bit(op, 26) /\ ~Bit(op, 25) /\ Bit(op, 7) /\ Bit(op, 4)
              /\ ~Bit(op, 20) /\ Bit(op, 6) /\ ~Bit(op, 5)
      PROVE  Encoding(op) = "LDRD"
  <2>1. M(7) BY SMT, <1>7, Rows
  <2>2. \A j \in 1 .. 6 : ~M(j) BY SMT, <1>7, Rows
  <2>3. Table[7].name = "LDRD" BY DEF Table, Row
  <2> HIDE DEF M
  <2> QED BY SMT, <1>0, <2>1, <2>2, <2>3
<1>8. ASSUME ~Bit(op, 27) /\ ~Bit(op, 26) /\ ~Bit(op, 25) /\ Bit(op, 7) /\ Bit(op, 4)
              /\ ~Bit(op, 20) /\ Bit(op, 6) /\ Bit(op, 5)
      PROVE  Encoding(op) = "STRD"
  <2>1. M(8) BY SMT, <1>8, Rows
  <2>2. \A j \in 1 .. 7 : ~M(j) BY SMT, <1>8, Rows
  <2>3. Table[8].name = "STRD" BY DEF Table, Row
  <2> HIDE DEF M
  <2> QED BY SMT, <1>0, <2>1, <2>2, <2>3
<1>9. ASSUME ~Bit(op, 27) /\ ~Bit(op, 26) /\ ~Bit(op, 25) /\ Bit(op, 7) /\ Bit(op, 4)
              /\ ~Bit(op, 20) /\ ~Bit(op, 6) /\ Bit(op, 5)
      PROVE  Encoding(op) = "STRX"
  <2>1. M(9) BY SMT, <1>9, Rows
  <2>2. \A j \in 1 .. 8 : ~M(j) BY SMT, <1>9, Rows
  <2>3. Table[9].name = "STRX" BY DEF Table, Row
  <2> HIDE DEF M
  <2> QED BY SMT, <1>0, <2>1, <2>2, <2>3
<1>10. ASSUME ~Bit(op, 27) /\ ~Bit(op, 26) /\ ~Bit(op, 25) /\ Bit(op, 7) /\ Bit(op, 4)
              /\ Bit(op, 20) /\ (Bit(op, 6) \/ Bit(op, 5))
      PROVE  Encoding(op) = "LDRX"
  <2>1. M(10) BY SMT, <1>10, Rows
  <2>2. \A j \in 1 .. 9 : ~M(j) BY SMT, <1>10, Rows
  <2>3. Table[10].name = "LDRX" BY DEF Table, Row
  <2> HIDE DEF M
  <2> QED BY SMT, <1>0, <2>1, <2>2, <2>3
<1>11. ASSUME ~Bit(op, 27) /\ ~Bit(op, 26) /\ ~Bit(op, 25) /\ Bit(op, 24)
              /\ ~Bit(op, 23) /\ ~Bit(op, 20) /\ ~Bit(op, 21) /\ ~Bit(op, 7)
              /\ ~Bit(op, 6) /\ ~Bit(op, 5) /\ ~Bit(op, 4)
      PROVE  Encoding(op) = "MRS"
  <2>1. M(11) BY SMT, <1>11, Rows
  <2>2. \A j \in 1 .. 10 : ~M(j) BY SMT, <1>11, Rows
  <2>3. Table[11].name = "MRS" BY DEF Table, Row
  <2> HIDE DEF M
  <2> QED BY SMT, <1>0, <2>1, <2>2, <2>3
<1>12. ASSUME ~Bit(op, 27) /\ ~Bit(op, 26) /\ ~Bit(op, 25) /\ Bit(op, 24)
              /\ ~Bit(op, 23) /\ ~Bit(op, 20) /\ Bit(op, 21) /\ ~Bit(op, 7)
              /\ ~Bit(op, 6) /\ ~Bit(op, 5) /\ ~Bit(op, 4)
      PROVE  Encoding(op) = "MSR_R"
  <2>1. M(12) BY SMT, <1>12, Rows
  <2>2. \A j \in 1 .. 11 : ~M(j) BY SMT, <1>12, Rows
  <2>3. Table[12].name = "MSR_R" BY DEF Table, Row
  <2> HIDE DEF M
  <2> QED BY SMT, <1>0, <2>1, <2>2, <2>3
<1>13. ASSUME ~Bit(op, 27) /\ ~Bit(op, 26) /\ ~Bit(op, 25) /\ Bit(op, 24)
              /\ ~Bit(op, 23) /\ ~Bit(op, 20) /\ Bit(op, 21) /\ ~Bit(op, 22)
              /\ ~Bit(op, 7) /\ ~Bit(op, 6) /\ ~Bit(op, 5) /\ Bit(op, 4)
      PROVE  Encoding(op) = "BX"
  <2>1. M(13) BY SMT, <1>13, Rows
  <2>2. \A j \in 1 .. 12 : ~M(j) BY SMT, <1>13, Rows
  <2>3. Table[13].name = "BX" BY DEF Table, Row
  <2> HIDE DEF M
  <2> QED BY SMT, <1>0, <2>1, <2>2, <2>3
<1>14. ASSUME ~Bit(op, 27) /\ ~Bit(op, 26) /\ ~Bit(op, 25) /\ Bit(op, 24)
              /\ ~Bit(op, 23) /\ ~Bit(op, 20) /\ Bit(op, 21) /\ Bit(op, 22)
              /\ ~Bit(op, 7) /\ ~Bit(op, 6) /\ ~Bit(op, 5) /\ Bit(op, 4)
      PROVE  Encoding(op) = "CLZ"
  <2>1. M(14) BY SMT, <1>14, Rows
  <2>2. \A j \in 1 .. 13 : ~M(j) BY SMT, <1>14, Rows
  <2>3. Table[14].name = "CLZ" BY DEF Table, Row
  <2> HIDE DEF M
  <2> QED BY SMT, <1>0, <2>1, <2>2, <2>3
<1>15. ASSUME ~Bit(op, 27) /\ ~Bit(op, 26) /\ ~Bit(op, 25) /\ Bit(op, 24)
              /\ ~Bit(op, 23) /\ ~Bit(op, 20) /\ Bit(op, 21) /\ ~Bit(op, 22)
              /\ ~Bit(op, 7) /\ ~Bit(op, 6) /\ Bit(op, 5) /\ Bit(op, 4)
      PROVE  Encoding(op) = "BLX"
  <2>1. M(15) BY SMT, <1>15, Rows
  <2>2. \A j \in 1 .. 14 : ~M(j) BY SMT, <1>15, Rows
  <2>3. Table[15].name = "BLX" BY DEF Table, Row
  <2> HIDE DEF M
  <2> QED BY SMT, <1>0, <2>1, <2>2, <2>3
<1>16. ASSUME ~Bit(op, 27) /\ ~Bit(op, 26) /\ ~Bit(op, 25) /\ Bit(op, 24)
              /\ ~Bit(op, 23) /\ ~Bit(op, 20) /\ Bit(op, 21) /\ ~Bit(op, 22)
              /\ ~Bit(op, 7) /\ Bit(op, 6) /\ Bit(op, 5) /\ Bit(op, 4)
      PROVE  Encoding(op) = "BKPT"
  <2>1. M(16) BY SMT, <1>16, Rows
  <2>2. \A j \in 1 .. 15 : ~M(j) BY SMT, <1>16, Rows
  <2>3. Table[16].name = "BKPT" BY DEF Table, Row
  <2> HIDE DEF M
  <2> QED BY SMT, <1>0, <2>1, <2>2, <2>3
<1>17. ASSUME ~Bit(op, 27) /\ ~Bit(op, 26) /\ ~Bit(op, 25) /\ Bit(op, 24)
              /\ ~Bit(op, 23) /\ ~Bit(op, 20) /\ ~Bit(op, 7) /\ Bit(op, 6)
              /\ ~Bit(op, 5) /\ Bit(op, 4)
      PROVE  Encoding(op) = "DSP"
  <2>1. M(17) BY SMT, <1>17, Rows
  <2>2. \A j \in 1 .. 16 : ~M(j) BY SMT, <1>17, Rows
  <2>3. Table[17].name = "DSP" BY DEF Table, Row
  <2> HIDE DEF M
  <2> QED BY SMT, <1>0, <2>1, <2>2, <2>3
<1>18. ASSUME ~Bit(op, 27) /\ ~Bit(op, 26) /\ ~Bit(op, 25) /\ Bit(op, 24)
              /\ ~Bit(op, 23) /\ ~Bit(op, 20) /\ Bit(op, 7) /\ ~Bit(op, 4)
      PROVE  Encoding(op) = "DSP"
  <2>1. M(18) BY SMT, <1>18, Rows
  <2>2. \A j \in 1 .. 17 : ~M(j) BY SMT, <1>18, Rows
  <2>3. Table[18].name = "DSP" BY DEF Table, Row
  <2> HIDE DEF M
  <2> QED BY SMT, <1>0, <2>1, <2>2, <2>3
<1>19. ASSUME ~Bit(op, 27) /\ ~Bit(op, 26) /\ ~Bit(op, 25) /\ Bit(op, 24)
              /\ ~Bit(op, 23) /\ ~Bit(op, 20) /\ ~Bit(op, 7) /\ ((~Bit(op, 6)
              /\ ~Bit(op, 5) /\ Bit(op, 4) /\ ~Bit(op, 21)) \/ (Bit(op, 5)
              /\ ~(Bit(op, 21) /\ ~Bit(op, 22) /\ Bit(op, 4))) \/ (Bit(op, 6)
              /\ ~Bit(op, 5) /\ ~Bit(op, 4)))
      PROVE  Encoding(op) = "UD"
  <2>1. M(19) BY SMT, <1>19, Rows
  <2>2. \A j \in 1 .. 18 : ~M(j) BY SMT, <1>19, Rows
  <2>3. Table[19].name = "UD" BY DEF Table, Row
  <2> HIDE DEF M
  <2> QED BY SMT, <1>0, <2>1, <2>2, <2>3
<1>20. ASSUME ~Bit(op, 27) /\ ~Bit(op, 26) /\ ~Bit(op, 25) /\ ~Bit(op, 4)
              /\ ~(Bit(op, 24) /\ ~Bit(op, 23) /\ ~Bit(op, 20))
      PROVE  Encoding(op) = "Data_R"
  <2>1. M(20) BY SMT, <1>20, Rows
  <2>2. \A j \in 1 .. 19 : ~M(j) BY SMT, <1>20, Rows
  <2>3. Table[20].name = "Data_R" BY DEF Table, Row
  <2> HIDE DEF M
  <2> QED BY SMT, <1>0, <2>1, <2>2, <2>3
<1>21. ASSUME ~Bit(op, 27) /\ ~Bit(op, 26) /\ ~Bit(op, 25) /\ ~Bit(op, 7) /\ Bit(op, 4)
              /\ ~(Bit(op, 24) /\ ~Bit(op, 23) /\ ~Bit(op, 20))
      PROVE  Encoding(op) = "Data_RR"
  <2>1. M(21) BY SMT, <1>21, Rows
  <2>2. \A j \in 1 .. 20 : ~M(j) BY SMT, <1>21, Rows
  <2>3. Table[21].name = "Data_RR" BY DEF Table, Row
  <2> HIDE DEF M
  <2> QED BY SMT, <1>0, <2>1, <2>2, <2>3
<1>22. ASSUME ~Bit(op, 27) /\ ~Bit(op, 26) /\ Bit(op, 25) /\ Bit(op, 24) /\ ~Bit(op, 23)
              /\ Bit(op, 21) /\ ~Bit(op, 20)
      PROVE  Encoding(op) = "MSR_I"
  <2>1. M(22) BY SMT, <1>22, Rows
  <2>2. \A j \in 1 .. 21 : ~M(j) BY SMT, <1>22, Rows
  <2>3. Table[22].name = "MSR_I" BY DEF Table, Row
  <2> HIDE DEF M
  <2> QED BY SMT, <1>0, <2>1, <2>2, <2>3
<1>23. ASSUME ~Bit(op, 27) /\ ~Bit(op, 26) /\ Bit(op, 25) /\ Bit(op, 24) /\ ~Bit(op, 23)
              /\ ~Bit(op, 21) /\ ~Bit(op, 20)
      PROVE  Encoding(op) = "UD"
  <2>1. M(23) BY SMT, <1>23, Rows
  <2>2. \A j \in 1 .. 22 : ~M(j) BY SMT, <1>23, Rows
  <2>3. Table[23].name = "UD" BY DEF Table, Row
  <2> HIDE DEF M
  <2> QED BY SMT, <1>0, <2>1, <2>2, <2>3
<1>24. ASSUME ~Bit(op, 27) /\ ~Bit(op, 26) /\ Bit(op, 25) /\ ~(Bit(op, 24)
              /\ ~Bit(op, 23) /\ ~Bit(op, 20))
      PROVE  Encoding(op) = "Data_I"
  <2>1. M(24) BY SMT, <1>24, Rows
  <2>2. \A j \in 1 .. 23 : ~M(j) BY SMT, <1>24, Rows
  <2>3. Table[24].name = "Data_I" BY DEF Table, Row
  <2> HIDE DEF M
  <2> QED BY SMT, <1>0, <2>1, <2>2, <2>3
<1>25. ASSUME ~Bit(op, 27) /\ Bit(op, 26) /\ ~Bit(op, 25)
      PROVE  Encoding(op) = "LS_I"
  <2>1. M(25) BY SMT, <1>25, Rows
  <2>2. \A j \in 1 .. 24 : ~M(j) BY SMT, <1>25, Rows
  <2>3. Table[25].name = "LS_I" BY DEF Table, Row
  <2> HIDE DEF M
  <2> QED BY SMT, <1>0, <2>1, <2>2, <2>3
<1>26. ASSUME ~Bit(op, 27) /\ Bit(op, 26) /\ Bit(op, 25) /\ ~Bit(op, 4)
      PROVE  Encoding(op) = "LS_R"
  <2>1. M(26) BY SMT, <1>26, Rows
  <2>2. \A j \in 1 .. 25 : ~M(j) BY SMT, <1>26, Rows
  <2>3. Table[26].name = "LS_R" BY DEF Table, Row
  <2> HIDE DEF M
  <2> QED BY SMT, <1>0, <2>1, <2>2, <2>3
<1>27. ASSUME ~Bit(op, 27) /\ Bit(op, 26) /\ Bit(op, 25) /\ Bit(op, 4)
      PROVE  Encoding(op) = "UD"
  <2>1. M(27) BY SMT, <1>27, Rows
  <2>2. \A j \in 1 .. 26 : ~M(j) BY SMT, <1>27, Rows
  <2>3. Table[27].name = "UD" BY DEF Table, Row
  <2> HIDE DEF M
  <2> QED BY SMT, <1>0, <2>1, <2>2, <2>3
<1>28. ASSUME Bit(op, 27) /\ ~Bit(op, 26) /\ ~Bit(op, 25) /\ ~Bit(op, 20)
      PROVE  Encoding(op) = "STM"
  <2>1. M(28) BY SMT, <1>28, Rows
  <2>2. \A j \in 1 .. 27 : ~M(j) BY SMT, <1>28, Rows
  <2>3. Table[28].name = "STM" BY DEF Table, Row
  <2> HIDE DEF M
  <2> QED BY SMT, <1>0, <2>1, <2>2, <2>3
<1>29. ASSUME Bit(op, 27) /\ ~Bit(op, 26) /\ ~Bit(op, 25) /\ Bit(op, 20)
      PROVE  Encoding(op) = "LDM"
  <2>1. M(29) BY SMT, <1>29, Rows
  <2>2. \A j \in 1 .. 28 : ~M(j) BY SMT, <1>29, Rows
  <2>3. Table[29].name = "LDM" BY DEF Table, Row
  <2> HIDE DEF M
  <2> QED BY SMT, <1>0, <2>1, <2>2, <2>3
<1>30. ASSUME Bit(op, 27) /\ ~Bit(op, 26) /\ Bit(op, 25) /\ ~Bit(op, 24)
      PROVE  Encoding(op) = "B"
  <2>1. M(30) BY SMT, <1>30, Rows
  <2>2. \A j \in 1 .. 29 : ~M(j) BY SMT, <1>30, Rows
  <2>3. Table[30].name = "B" BY DEF Table, Row
  <2> HIDE DEF M
  <2> QED BY SMT, <1>0, <2>1, <2>2, <2>3
<1>31. ASSUME Bit(op, 27) /\ ~Bit(op, 26) /\ Bit(op, 25) /\ Bit(op, 24)
      PROVE  Encoding(op) = "BL"
  <2>1. M(31) BY SMT, <1>31, Rows
  <2>2. \A j \in 1 .. 30 : ~M(j) BY SMT, <1>31, Rows
  <2>3. Table[31].name = "BL" BY DEF Table, Row
  <2> HIDE DEF M
  <2> QED BY SMT, <1>0, <2>1, <2>2, <2>3
<1>32. ASSUME Bit(op, 27) /\ Bit(op, 26) /\ ~Bit(op, 25)
      PROVE  Encoding(op) = "LDC"
  <2>1. M(32) BY SMT, <1>32, Rows
  <2>2. \A j \in 1 .. 31 : ~M(j) BY SMT, <1>32, Rows
  <2>3. Table[32].name = "LDC" BY DEF Table, Row
  <2> HIDE DEF M
  <2> QED BY SMT, <1>0, <2>1, <2>2, <2>3
<1>33. ASSUME Bit(op, 27) /\ Bit(op, 26) /\ Bit(op, 25) /\ ~Bit(op, 24) /\ ~Bit(op, 4)
      PROVE  Encoding(op) = "CDP"
  <2>1. M(33) BY SMT, <1>33, Rows
  <2>2. \A j \in 1 .. 32 : ~M(j) BY SMT, <1>33, Rows
  <2>3. Table[33].name = "CDP" BY DEF Table, Row
  <2> HIDE DEF M
  <2> QED BY SMT, <1>0, <2>1, <2>2, <2>3
<1>34. ASSUME Bit(op, 27) /\ Bit(op, 26) /\ Bit(op, 25) /\ ~Bit(op, 24) /\ Bit(op, 20)
              /\ Bit(op, 4)
      PROVE  Encoding(op) = "MRC"
  <2>1. M(34) BY SMT, <1>34, Rows
  <2>2. \A j \in 1 .. 33 : ~M(j) BY SMT, <1>34, Rows
  <2>3. Table[34].name = "MRC" BY DEF Table, Row
  <2> HIDE DEF M
  <2> QED BY SMT, <1>0, <2>1, <2>2, <2>3
<1>35. ASSUME Bit(op, 27) /\ Bit(op, 26) /\ Bit(op, 25) /\ ~Bit(op, 24) /\ ~Bit(op, 20)
              /\ Bit(op, 4)
      PROVE  Encoding(op) = "MCR"
  <2>1. M(35) BY SMT, <1>35, Rows
  <2>2. \A j \in 1 .. 34 : ~M(j) BY SMT, <1>35, Rows
  <2>3. Table[35].name = "MCR" BY DEF Table, Row
  <2> HIDE DEF M
  <2> QED BY SMT, <1>0, <2>1, <2>2, <2>3
<1>36. ASSUME Bit(op, 27) /\ Bit(op, 26) /\ Bit(op, 25) /\ Bit(op, 24)
      PROVE  Encoding(op) = "SWI"
  <2>1. M(36) BY SMT, <1>36, Rows
  <2>2. \A j \in 1 .. 35 : ~M(j) BY SMT, <1>36, Rows
  <2>3. Table[36].name = "SWI" BY DEF Table, Row
  <2> HIDE DEF M
  <2> QED BY SMT, <1>0, <2>1, <2>2, <2>3
<1> QED
  BY Zenon, <1>1, <1>2, <1>3, <1>4, <1>5, <1>6, <1>7, <1>8, <1>9, <1>10, <1>11, <1>12,
            <1>13, <1>14, <1>15, <1>16, <1>17, <1>18, <1>19, <1>20, <1>21, <1>22, <1>23, <1>24,
            <1>25, <1>26, <1>27, <1>28, <1>29, <1>30, <1>31, <1>32, <1>33, <1>34, <1>35, <1>36
------------------------------------------------------------------------------
\* A context, and the context in which the word op is being decoded.
IsContext(c) ==
    DOMAIN c = {"op", "inst", "cond", "s", "u", "shift", "ext", "mode", "imm",
                "rd", "rn", "rm", "rs", "cp_num", "cp_op1", "cp_op2"}
Context(c, op) == IsContext(c) /\ c.op = op /\ c.cond = Bits(op, 28, 4)

\* The registers of the data operations, and what a step keeps of a context.
DataRegs(c) ==
    c.rn = Bits(c.op, 16, 4) /\ c.rd = Bits(c.op, 12, 4) /\ c.rm = Bits(c.op, 0, 4)
SameRegs(d, c) == d.rd = c.rd /\ d.rn = c.rn /\ d.rm = c.rm /\ d.rs = c.rs

\* An operation, its name and its form.
Is(i, name, form) == i = <<name, form>> /\ i[1] = name /\ i[2] = form

\* The operation that is stored in a context is found there.
LEMMA Update ==
  ASSUME NEW c, IsContext(c), NEW v
  PROVE  [c EXCEPT !.inst = v].inst = v
BY SMT DEF IsContext

\* An operation is named by its pair.
LEMMA Pairs ==
  ASSUME NEW i, NEW name, NEW form, i = <<name, form>>
  PROVE  Is(i, name, form)
BY DEF Is

\* Setting the operation leaves the operands alone.
Operands(d, c) ==
    /\ d.op = c.op /\ d.cond = c.cond /\ d.imm = c.imm /\ d.ext = c.ext /\ d.mode = c.mode
    /\ d.rd = c.rd /\ d.rn = c.rn /\ d.rm = c.rm /\ d.rs = c.rs
    /\ d.cp_num = c.cp_num /\ d.cp_op1 = c.cp_op1 /\ d.cp_op2 = c.cp_op2

\* Inst stores the operation and keeps every operand.
LEMMA Insts ==
  ASSUME NEW c, IsContext(c), NEW name, NEW form, NEW d, d = Inst(c, name, form)
  PROVE  IsContext(d) /\ Operands(d, c) /\ Is(d.inst, name, form)
<1>1. IsContext(d) BY SMT DEF IsContext, Inst
<1>2. Operands(d, c) BY SMT DEF IsContext, Inst, Operands
<1> DEFINE v == <<name, form>>
<1>3. d = [c EXCEPT !.inst = v] BY Zenon DEF Inst
<1> HIDE DEF v
<1>4. d.inst = v BY Zenon, <1>3, Update
<1>5. d.inst = <<name, form>> BY Zenon, <1>4 DEF v
<1> QED BY Zenon, <1>1, <1>2, <1>5, Pairs

\* The names of the operations, by what their texts show.
Nothing == {"UD", "DEBUG", "UNKNOWN"}
DataNames == Moves \cup Tests \cup Arithmetic \cup Transfers
DataForms == {"I", "R", "RR"}
Extras == {"STRX", "LDRX"}
RegisterForms == {"MSR_R", "MRS", "CLZ", "BX", "BLX", "SWP", "SWPB"}
Multiplies == {"MUL", "MLA", "UMULL", "SMULL", "SMLAL", "UMLAL"}
Immediates == {"BKPT", "SWI", "B", "BL", "BPRE", "BLX_I"}
Multiples == {"STM", "LDM"}
Coprocs == {"MRC", "MCR"}
BasedImmediates == {"MSR_I", "PLD"}

\* Operations of each kind show nothing stale when the operands they name are set:
\* an undefined or unknown operation, a breakpoint.
LEMMA ShownNothing ==
  ASSUME NEW d, d.inst[1] \in Nothing
  PROVE  Shown(d)
BY Zenon, FormatsOfOthers DEF Shown, Nothing

\* Data operations, loads and stores of a word or a byte.
LEMMA ShownData ==
  ASSUME NEW d, d.inst[1] \in DataNames, d.inst[2] \in DataForms, d.rd \in Nat, d.rn \in Nat,
         d.inst[2] = "RR" \/ Fresh(d, "imm"),
         d.inst[2] = "I" \/ d.rm \in Nat,
         d.inst[2] = "RR" => d.rs \in Nat
  PROVE  Shown(d)
<1>1. Formats(d.inst) \subseteq {"rd", "rn"} \cup
        (IF d.inst[2] = "I" THEN {"imm"} ELSE IF d.inst[2] = "R" THEN {"rm", "imm"}
         ELSE {"rm", "rs"})
  <2>1. CASE d.inst[2] = "I" BY ZenonT(20), <2>1, FormatsOfShift DEF DataNames
  <2>2. CASE d.inst[2] = "R" BY ZenonT(20), <2>2, FormatsOfShift DEF DataNames
  <2>3. CASE d.inst[2] = "RR" BY ZenonT(20), <2>3, FormatsOfShift DEF DataNames
  <2> QED BY <2>1, <2>2, <2>3 DEF DataForms
<1>2. Fresh(d, "rd") /\ Fresh(d, "rn") BY FreshFields
<1>3. d.inst[2] = "I" \/ Fresh(d, "rm") BY FreshFields
<1>4. d.inst[2] = "RR" => Fresh(d, "rs") BY FreshFields
<1> QED BY SMT, <1>1, <1>2, <1>3, <1>4 DEF Shown, DataForms

\* Loads and stores of halfwords and signed bytes.
LEMMA ShownExtra ==
  ASSUME NEW d, d.inst[1] \in Extras, d.inst[2] \in DataForms, d.inst[2] # "RR",
         d.ext # "", d.rd \in Nat, d.rn \in Nat, d.rm \in Nat \/ d.inst[2] = "I",
         Fresh(d, "imm") \/ d.inst[2] = "R"
  PROVE  Shown(d)
<1>1. Fresh(d, "rd") /\ Fresh(d, "rn") /\ Fresh(d, "ext") BY FreshFields
<1>2. d.inst[2] = "I" \/ Fresh(d, "rm") BY FreshFields
<1>3. d.inst[2] \in {"I", "R"} BY DEF DataForms
<1>4. CASE d.inst[2] = "I" BY Zenon, <1>1, <1>4, FormatsOfOthers DEF Shown, Extras
<1>5. CASE d.inst[2] = "R" BY Zenon, <1>1, <1>2, <1>5, FormatsOfOthers DEF Shown, Extras
<1> QED BY Zenon, <1>3, <1>4, <1>5

\* Loads of a doubleword.
LEMMA ShownLdrd ==
  ASSUME NEW d, d.inst[1] = "LDRD", d.rd \in Nat, d.rn \in Nat, Fresh(d, "imm")
  PROVE  Shown(d)
<1>1. Fresh(d, "rd") /\ Fresh(d, "rn") BY FreshFields
<1> QED BY Zenon, <1>1, FormatsOfOthers DEF Shown

\* Operations on registers alone.
LEMMA ShownRegisters ==
  ASSUME NEW d, d.inst[1] \in RegisterForms, d.rd \in Nat, d.rn \in Nat, d.rm \in Nat
  PROVE  Shown(d)
<1>1. Fresh(d, "rd") /\ Fresh(d, "rn") /\ Fresh(d, "rm") BY FreshFields
<1>2. CASE d.inst[1] = "MSR_R" BY Zenon, <1>1, <1>2, FormatsOfOthers DEF Shown
<1>3. CASE d.inst[1] = "MRS" BY Zenon, <1>1, <1>3, FormatsOfOthers DEF Shown
<1>4. CASE d.inst[1] = "CLZ" BY Zenon, <1>1, <1>4, FormatsOfOthers DEF Shown
<1>5. CASE d.inst[1] \in {"BX", "BLX"} BY Zenon, <1>1, <1>5, FormatsOfOthers DEF Shown
<1>6. CASE d.inst[1] \in {"SWP", "SWPB"} BY Zenon, <1>1, <1>6, FormatsOfOthers DEF Shown
<1> QED BY Zenon, <1>2, <1>3, <1>4, <1>5, <1>6 DEF RegisterForms

\* Multiplications.
LEMMA ShownMultiply ==
  ASSUME NEW d, d.inst[1] \in Multiplies, d.rd \in Nat, d.rn \in Nat, d.rm \in Nat, d.rs \in Nat
  PROVE  Shown(d)
<1>1. Fresh(d, "rd") /\ Fresh(d, "rn") /\ Fresh(d, "rm") /\ Fresh(d, "rs") BY FreshFields
<1>2. CASE d.inst[1] = "MUL" BY Zenon, <1>1, <1>2, FormatsOfOthers DEF Shown
<1>3. CASE d.inst[1] = "UMLAL" BY Zenon, <1>1, <1>3, FormatsOfOthers DEF Shown
<1>4. CASE d.inst[1] \in {"MLA", "UMULL", "SMULL", "SMLAL"}
  BY Zenon, <1>1, <1>4, FormatsOfOthers DEF Shown
<1> QED BY Zenon, <1>2, <1>3, <1>4 DEF Multiplies

\* Branches, software interrupts and breakpoints.
LEMMA ShownImmediate ==
  ASSUME NEW d, d.inst[1] \in Immediates, Fresh(d, "imm")
  PROVE  Shown(d)
BY Zenon, FormatsOfOthers DEF Shown, Immediates

\* Loads and stores of several registers.
LEMMA ShownMultiple ==
  ASSUME NEW d, d.inst[1] \in Multiples, d.mode # "", d.rn \in Nat, Fresh(d, "imm")
  PROVE  Shown(d)
<1>1. Fresh(d, "mode") /\ Fresh(d, "rn") BY FreshFields
<1> QED BY Zenon, <1>1, FormatsOfOthers DEF Shown, Multiples

\* Operations on a register and an immediate operand.
LEMMA ShownBased ==
  ASSUME NEW d, d.inst[1] \in BasedImmediates, d.rn \in Nat, Fresh(d, "imm")
  PROVE  Shown(d)
<1>1. Fresh(d, "rn") BY FreshFields
<1>2. CASE d.inst[1] = "MSR_I" BY Zenon, <1>1, <1>2, FormatsOfOthers DEF Shown
<1>3. CASE d.inst[1] = "PLD" /\ d.inst[2] = "I" BY Zenon, <1>1, <1>3, FormatsOfOthers DEF Shown
<1>4. CASE d.inst[1] = "PLD" /\ d.inst[2] # "I" BY Zenon, <1>1, <1>4, FormatsOfOthers DEF Shown
<1> QED BY Zenon, <1>2, <1>3, <1>4 DEF BasedImmediates

\* Transfers from and to a coprocessor.
LEMMA ShownCoproc ==
  ASSUME NEW d, d.inst[1] \in Coprocs, d.rd \in Nat, d.rn \in Nat, d.rm \in Nat,
         d.cp_num \in Nat, d.cp_op1 \in Nat, d.cp_op2 \in Nat
  PROVE  Shown(d)
<1>1. /\ Fresh(d, "rd") /\ Fresh(d, "rn") /\ Fresh(d, "rm")
      /\ Fresh(d, "cp_num") /\ Fresh(d, "cp_op1") /\ Fresh(d, "cp_op2")
  BY FreshFields
<1> QED BY Zenon, <1>1, FormatsOfOthers DEF Shown, Coprocs

\* A natural number shows.
LEMMA FreshImm ==
  ASSUME NEW d, d.imm \in Nat
  PROVE  Fresh(d, "imm")
<1>1. d.imm \in Int /\ d.imm >= Floor BY SMT, StaleIsSmall
<1> QED BY Zenon, <1>1, FreshFields

------------------------------------------------------------------------------
\* The comment field of a branch or software interrupt is a natural number.
LEMMA Low24Nat ==
  ASSUME NEW op \in Word
  PROVE  Low24(op) \in Nat
<1>1. Bits(op, 16, 8) \in Nat BY SMT, Ranges
<1>2. op.lo \in Nat BY WordHalves
<1> QED BY SMT, <1>1, <1>2 DEF Low24

\* The handlers, one by one: decode_101_branch sets the offset and tells B from BL.
LEMMA Branch ==
  ASSUME NEW op \in Word, NEW c, Context(c, op), NEW d, d = decode_101_branch(c)
  PROVE  /\ Context(d, op) /\ Shown(d)
         /\ Is(d.inst, IF Bit(op, 24) THEN "BL" ELSE "B", "")
<1> DEFINE imm == 4 * SignExtend(Low24(c.op), 24) + 8
           e == [c EXCEPT !.imm = imm]
<1>1. SignExtend(Low24(op), 24) \in Int /\ SignExtend(Low24(op), 24) >= -8388608
  BY SMT, Low24Nat, SignExtends
<1>4. imm \in Int /\ imm >= Floor BY SMT, <1>1 DEF Floor, Context
<1>5. d = Inst(e, IF Bit(c.op, 24) THEN "BL" ELSE "B", "")
  BY Zenon DEF decode_101_branch
<1> HIDE DEF imm
<1>6. Context(e, op) /\ e.imm = imm BY SMT DEF Context, IsContext
<1> HIDE DEF e
<1>7. IsContext(d) /\ Operands(d, e) /\ Is(d.inst, IF Bit(op, 24) THEN "BL" ELSE "B", "")
  BY Zenon, <1>5, <1>6, Insts DEF Context
<1>8. Fresh(d, "imm") BY <1>4, <1>6, <1>7, FreshFields DEF Operands
<1>10. d.inst[1] \in Immediates BY Zenon, <1>7 DEF Is, Immediates
<1>9. Shown(d) BY Zenon, <1>8, <1>10, ShownImmediate
<1> QED BY <1>6, <1>7, <1>9 DEF Context, Operands

\* decode_swi sets the number of the software interrupt.
LEMMA Swi ==
  ASSUME NEW op \in Word, NEW c, Context(c, op), NEW d, d = decode_swi(c)
  PROVE  Context(d, op) /\ Shown(d) /\ Is(d.inst, "SWI", "")
<1> DEFINE imm == Low24(c.op)
           e == [c EXCEPT !.imm = imm]
<1>1. imm \in Nat BY SMT, Low24Nat DEF Context
<1>2. d = Inst(e, "SWI", "") BY Zenon DEF decode_swi
<1> HIDE DEF imm
<1>3. Context(e, op) /\ e.imm = imm BY SMT DEF Context, IsContext
<1> HIDE DEF e
<1>4. IsContext(d) /\ Operands(d, e) /\ Is(d.inst, "SWI", "")
  BY <1>2, <1>3, Insts DEF Context
<1>6. d.inst[1] \in Immediates BY Zenon, <1>4 DEF Is, Immediates
<1>5. Shown(d) BY Zenon, <1>1, <1>3, <1>4, <1>6, FreshImm, ShownImmediate DEF Operands
<1> QED BY <1>3, <1>4, <1>5 DEF Context, Operands

\* decode_coproc sets its three registers and its three numbers.
LEMMA Coproc ==
  ASSUME NEW op \in Word, NEW c, Context(c, op), NEW d, d = decode_coproc(c)
  PROVE  /\ Context(d, op) /\ Shown(d) /\ DataRegs(d)
         /\ Bit(op, 4) => Is(d.inst, IF Bit(op, 20) THEN "MRC" ELSE "MCR", "")
         /\ ~Bit(op, 4) => Is(d.inst, "UD", "")
<1> DEFINE e == [c EXCEPT !.rn = decode_reg(c.op, 16), !.rd = decode_reg(c.op, 12),
                          !.cp_num = decode_reg(c.op, 8), !.rm = decode_reg(c.op, 0),
                          !.cp_op2 = Bits(c.op, 5, 3)]
           e1 == [e EXCEPT !.cp_op1 = Bits(c.op, 21, 3)]
           e2 == [e EXCEPT !.cp_op1 = Bits(c.op, 20, 4)]
           name == IF Bit(op, 20) THEN "MRC" ELSE "MCR"
<1>1. d = IF Bit(op, 4) THEN Inst(e1, name, "") ELSE Inst(e2, "UD", "")
  BY Zenon DEF decode_coproc, inst_ud, Context
<1>2. Context(e1, op) /\ DataRegs(e1) BY SMT DEF Context, IsContext, DataRegs, decode_reg
<1>3. Context(e2, op) /\ DataRegs(e2) BY SMT DEF Context, IsContext, DataRegs, decode_reg
<1>4. e1.cp_num = Bits(op, 8, 4) /\ e1.cp_op1 = Bits(op, 21, 3) /\ e1.cp_op2 = Bits(op, 5, 3)
  BY SMT DEF Context, IsContext, decode_reg
<1>5. \A first \in 0 .. 31 : Bits(op, first, 4) \in Nat /\ Bits(op, first, 3) \in Nat
  BY SMT, Ranges
<1> HIDE DEF e, e1, e2
<1>6. CASE Bit(op, 4)
  <2>1. IsContext(d) /\ Operands(d, e1) /\ Is(d.inst, name, "")
    BY <1>1, <1>2, <1>6, Insts DEF Context
  <2>2. Context(d, op) /\ DataRegs(d) BY <1>2, <2>1 DEF Context, DataRegs, Operands
  <2>3. d.rd \in Nat /\ d.rn \in Nat /\ d.rm \in Nat BY SMT, <1>5, <2>2 DEF DataRegs, Context
  <2>4. d.cp_num \in Nat /\ d.cp_op1 \in Nat /\ d.cp_op2 \in Nat
    <3>1. 5 \in 0 .. 31 /\ 8 \in 0 .. 31 /\ 21 \in 0 .. 31 OBVIOUS
    <3> QED BY Zenon, <1>4, <1>5, <2>1, <3>1 DEF Operands
  <2>6. d.inst[1] \in Coprocs BY Zenon, <2>1 DEF Is, Coprocs
  <2>5. Shown(d) BY Zenon, <2>3, <2>4, <2>6, ShownCoproc
  <2> QED BY <1>6, <2>1, <2>2, <2>5
<1>7. CASE ~Bit(op, 4)
  <2>1. IsContext(d) /\ Operands(d, e2) /\ Is(d.inst, "UD", "")
    BY <1>1, <1>3, <1>7, Insts DEF Context
  <2>2. Context(d, op) /\ DataRegs(d) BY <1>3, <2>1 DEF Context, DataRegs, Operands
  <2>4. d.inst[1] \in Nothing BY Zenon, <2>1 DEF Is, Nothing
  <2>3. Shown(d) BY Zenon, <2>4, ShownNothing
  <2> QED BY <1>7, <2>1, <2>2, <2>3
<1> QED BY <1>6, <1>7

\* decode_100_loadstoremultiple sets the base, the list and the addressing mode.
LEMMA Multiple ==
  ASSUME NEW op \in Word, NEW c, Context(c, op), NEW d, d = decode_100_loadstoremultiple(c)
  PROVE  /\ Context(d, op) /\ Shown(d) /\ d.rn = Bits(op, 16, 4)
         /\ Is(d.inst, IF Bit(op, 20) THEN "LDM" ELSE "STM", IF Bit(op, 21) THEN "W" ELSE "")
<1> DEFINE mode == AddressingModes[Bits(c.op, 23, 2) + 1]
           e == [c EXCEPT !.rn = decode_reg(c.op, 16), !.imm = Bits(c.op, 0, 16),
                   !.s = @ \/ Bit(c.op, 22), !.mode = mode]
           name == IF Bit(op, 20) THEN "LDM" ELSE "STM"
           form == IF Bit(op, 21) THEN "W" ELSE ""
<1>1. Bits(op, 16, 4) \in Nat /\ Bits(op, 0, 16) \in Nat /\ Bits(op, 23, 2) \in 0 .. 3
  BY SMT, Ranges
<1>2. mode # ""
  <2> DEFINE k == Bits(op, 23, 2)
  <2>1. k = 0 \/ k = 1 \/ k = 2 \/ k = 3 BY SMT, <1>1
  <2> HIDE DEF k
  <2>2. AddressingModes[k + 1] # ""
    <3>1. CASE k = 0 BY SMT, <3>1 DEF AddressingModes
    <3>2. CASE k = 1 BY SMT, <3>2 DEF AddressingModes
    <3>3. CASE k = 2 BY SMT, <3>3 DEF AddressingModes
    <3>4. CASE k = 3 BY SMT, <3>4 DEF AddressingModes
    <3> QED BY <2>1, <3>1, <3>2, <3>3, <3>4
  <2> QED BY Zenon, <2>2 DEF k, Context
<1>3. d = Inst(e, <<"STM", "LDM">>[Bits(op, 20, 1) + 1], form)
  BY Zenon DEF decode_100_loadstoremultiple, Context
<1>4. <<"STM", "LDM">>[Bits(op, 20, 1) + 1] = name BY SMT, BitValues
<1> HIDE DEF mode
<1>5. Context(e, op) /\ e.rn = Bits(op, 16, 4) /\ e.imm = Bits(op, 0, 16) /\ e.mode = mode
  BY SMT DEF Context, IsContext, decode_reg
<1>6. d = Inst(e, name, form) BY Zenon, <1>3, <1>4
<1> HIDE DEF e, form
<1>7. IsContext(d) /\ Operands(d, e) /\ Is(d.inst, name, form) BY <1>5, <1>6, Insts DEF Context
<1>8. d.imm \in Nat /\ d.rn \in Nat /\ d.mode # "" BY <1>1, <1>2, <1>5, <1>7 DEF Operands
<1>10. d.inst[1] \in Multiples BY Zenon, <1>7 DEF Is, Multiples
<1>11. Fresh(d, "imm") BY Zenon, <1>8, FreshImm
<1>9. Shown(d) BY Zenon, <1>8, <1>10, <1>11, ShownMultiple
<1> QED BY <1>5, <1>7, <1>9 DEF Context, Operands, form

------------------------------------------------------------------------------
\* Every opcode of four bits names a data operation.
LEMMA DataName ==
  ASSUME NEW k \in 0 .. 15
  PROVE  DataOps[k + 1] \in DataNames
<1> DEFINE Named(n) == DataOps[n] \in DataNames
<1>1. Named(1) /\ Named(2) /\ Named(3) /\ Named(4) /\ Named(5) /\ Named(6)
  BY SMT DEF DataOps, DataNames, Arithmetic
<1>2. Named(7) /\ Named(8) /\ Named(13) /\ Named(15)
  BY SMT DEF DataOps, DataNames, Arithmetic
<1>3. Named(9) /\ Named(10) /\ Named(11) /\ Named(12) BY SMT DEF DataOps, DataNames, Tests
<1>4. Named(14) /\ Named(16) BY SMT DEF DataOps, DataNames, Moves
<1> HIDE DEF Named
<1>5. \A n \in 1 .. 16 : Named(n) BY SMT, <1>1, <1>2, <1>3, <1>4
<1>6. k + 1 \in 1 .. 16 OBVIOUS
<1> QED BY Zenon, <1>5, <1>6 DEF Named

\* A test without the S bit: opcodes 8 to 11.
Untested(op) == Bit(op, 24) /\ ~Bit(op, 23) /\ ~Bit(op, 20)

\* Data chooses by the opcode, except for tests without the S bit.
LEMMA DataStep ==
  ASSUME NEW op \in Word, NEW c, Context(c, op), NEW form, NEW untested,
         NEW d, d = Data(c, form, untested)
  PROVE  /\ Untested(op) => d = untested
         /\ ~Untested(op) => /\ IsContext(d) /\ Operands(d, c)
                             /\ Is(d.inst, DataOps[Bits(op, 21, 4) + 1], form)
<1> DEFINE opcode == Bits(op, 21, 4)
<1>1. opcode \in 8 .. 11 <=> Bit(op, 24) /\ ~Bit(op, 23)
  <2>1. opcode \in 0 .. 15 BY SMT, Ranges
  <2>2. opcode = 8 \/ opcode = 9 \/ opcode = 10 \/ opcode = 11 <=> Bit(op, 24) /\ ~Bit(op, 23)
    BY Zenon, FieldBits
  <2> HIDE DEF opcode
  <2> QED BY SMT, <2>1, <2>2
<1>2. d = IF opcode \in 8 .. 11 /\ ~Bit(op, 20) THEN untested
          ELSE Inst(c, DataOps[opcode + 1], form)
  BY Zenon DEF Data, Context
<1> HIDE DEF opcode
<1>3. CASE Untested(op) BY Zenon, <1>1, <1>2, <1>3 DEF Untested
<1>4. CASE ~Untested(op)
  <2>1. d = Inst(c, DataOps[opcode + 1], form) BY Zenon, <1>1, <1>2, <1>4 DEF Untested
  <2>2. IsContext(d) /\ Operands(d, c) /\ Is(d.inst, DataOps[opcode + 1], form)
    BY Zenon, <2>1, Insts DEF Context
  <2> QED BY Zenon, <1>4, <2>2 DEF opcode
<1> QED BY <1>3, <1>4

\* decode_shift sets the amount of the shift and no register.
LEMMA Shift ==
  ASSUME NEW op \in Word, NEW c, Context(c, op), NEW d, d = decode_shift(c)
  PROVE  Context(d, op) /\ SameRegs(d, c) /\ d.imm \in Nat
<1>1. Bits(op, 7, 5) \in Nat BY SMT, Ranges
<1>2. Context(d, op) /\ SameRegs(d, c) BY SMT DEF decode_shift, Context, IsContext, SameRegs
<1>3. d.imm = 32 \/ d.imm = Bits(op, 7, 5) BY SMT DEF decode_shift, Context, IsContext
<1> QED BY <1>1, <1>2, <1>3

\* SBit sets the S flag alone.
LEMMA SBits ==
  ASSUME NEW op \in Word, NEW c, Context(c, op), NEW d, d = SBit(c)
  PROVE  Context(d, op) /\ Operands(d, c)
BY SMT DEF SBit, Context, IsContext, Operands

\* decode_shift_reg sets the register that holds the amount.
LEMMA ShiftReg ==
  ASSUME NEW op \in Word, NEW c, Context(c, op), DataRegs(c),
         NEW d, d = decode_shift_reg(c)
  PROVE  Context(d, op) /\ DataRegs(d) /\ d.rs = Bits(op, 8, 4)
<1>1. Context(d, op) BY SMT DEF decode_shift_reg, Context, IsContext
<1>2. d.rs = Bits(op, 8, 4) BY SMT DEF decode_shift_reg, Context, IsContext, decode_reg
<1>3. DataRegs(d) BY SMT DEF decode_shift_reg, Context, IsContext, DataRegs
<1> QED BY <1>1, <1>2, <1>3

\* What decode_misc makes of a word.
MiscOutcome(op, i) ==
    LET rn == Bits(op, 16, 4)
        rd == Bits(op, 12, 4)
        rs == Bits(op, 8, 4)
        one == Bit(op, 21) /\ ~Bit(op, 22)
    IN  /\ ~Bit(op, 7) /\ ~Bit(op, 6) /\ ~Bit(op, 5) /\ ~Bit(op, 4) =>
             IF rs # 0 \/ (Bit(op, 21) /\ rd # 15) \/ (~Bit(op, 21) /\ rn # 15)
             THEN Is(i, "UNKNOWN", "")
             ELSE Is(i, IF Bit(op, 21) THEN "MSR_R" ELSE "MRS", Psr(op))
        /\ ~Bit(op, 7) /\ ~Bit(op, 6) /\ ~Bit(op, 5) /\ Bit(op, 4) =>
             IF rn # 15 \/ rs # 15 THEN Is(i, "UNKNOWN", "")
             ELSE IF one THEN IF rd # 15 THEN Is(i, "UNKNOWN", "") ELSE Is(i, "BX", "")
                  ELSE IF Bit(op, 21) THEN Is(i, "CLZ", "") ELSE Is(i, "UD", "")
        /\ ~Bit(op, 7) /\ ~Bit(op, 6) /\ Bit(op, 5) /\ Bit(op, 4) =>
             IF ~one THEN Is(i, "UD", "")
             ELSE IF rn # 15 \/ rd # 15 \/ rs # 15 THEN Is(i, "UNKNOWN", "")
             ELSE Is(i, "BLX", "")
        /\ ~Bit(op, 7) /\ Bit(op, 6) /\ Bit(op, 5) /\ Bit(op, 4) =>
             IF ~one THEN Is(i, "UD", "")
             ELSE IF Bits(op, 28, 4) # AL THEN Is(i, "UNKNOWN", "")
             ELSE Is(i, "DEBUG", "")
        /\ Bit(op, 7) \/ (Bit(op, 6) /\ ~Bit(op, 5)) \/ (Bit(op, 5) /\ ~Bit(op, 4))
           \/ (Bit(op, 6) /\ ~Bit(op, 4)) => Is(i, "UD", "")

\* The result of an operation that names nothing or registers only.
Simple(d, c, name, form) == IsContext(d) /\ Operands(d, c) /\ Is(d.inst, name, form)

\* decode_misc yields what MiscOutcome says, shows nothing stale and sets no register.
LEMMA Misc ==
  ASSUME NEW op \in Word, NEW c, Context(c, op), DataRegs(c), c.rs = Bits(op, 8, 4),
         NEW d, d = decode_misc(c)
  PROVE  Context(d, op) /\ SameRegs(d, c) /\ Shown(d) /\ MiscOutcome(op, d.inst)
<1> DEFINE kind == Bits(c.op, 4, 3)
           sub == Bits(c.op, 21, 2)
           one == Bit(op, 21) /\ ~Bit(op, 22)
           psr == IF sub < 2 THEN "CPSR" ELSE "SPSR"
           ud == Inst(c, "UD", "")
           unknown == Inst(c, "UNKNOWN", "")
           e == [c EXCEPT !.imm = Bits(c.op, 0, 4) + 16 * Bits(c.op, 8, 8) + 4096 * Bits(c.op, 16, 4)]
<1>1. /\ c.op = op /\ c.rn = Bits(op, 16, 4) /\ c.rd = Bits(op, 12, 4)
      /\ c.rm = Bits(op, 0, 4) /\ c.cond = Bits(op, 28, 4) /\ IsContext(c)
  BY Zenon DEF Context, DataRegs
<1>2. c.rn \in Nat /\ c.rd \in Nat /\ c.rm \in Nat BY SMT, <1>1, Ranges
<1>3. Context(e, op) /\ SameRegs(e, c)
  BY SMT DEF Context, IsContext, SameRegs
<1>4. \A name, form : Inst(c, name, form) = d => Simple(d, c, name, form)
  BY Zenon, <1>1, Insts DEF Simple
<1>5. \A name, form : Simple(d, c, name, form) => Context(d, op) /\ SameRegs(d, c)
  BY Zenon, <1>1 DEF Simple, Context, Operands, SameRegs
<1>6. \A name, form : Simple(d, c, name, form) /\ name \in Nothing \cup RegisterForms => Shown(d)
  <2> SUFFICES ASSUME NEW name, NEW form, Simple(d, c, name, form),
                      name \in Nothing \cup RegisterForms
               PROVE  Shown(d)
    BY Zenon
  <2>1. d.inst[1] = name BY Zenon DEF Simple, Is
  <2>2. CASE name \in Nothing BY Zenon, <2>1, <2>2, ShownNothing
  <2>3. CASE name \in RegisterForms
    <3>1. d.rn \in Nat /\ d.rd \in Nat /\ d.rm \in Nat BY Zenon, <1>2 DEF Simple, Operands
    <3> QED BY Zenon, <2>1, <2>3, <3>1, ShownRegisters
  <2> QED BY Zenon, <2>2, <2>3
<1>7. /\ "UD" \in Nothing /\ "UNKNOWN" \in Nothing /\ "DEBUG" \in Nothing
      /\ "MRS" \in RegisterForms /\ "MSR_R" \in RegisterForms /\ "BX" \in RegisterForms
      /\ "CLZ" \in RegisterForms /\ "BLX" \in RegisterForms
  BY Zenon DEF Nothing, RegisterForms
<1>8. /\ kind = 0 <=> ~Bit(op, 6) /\ ~Bit(op, 5) /\ ~Bit(op, 4)
      /\ kind = 1 <=> ~Bit(op, 6) /\ ~Bit(op, 5) /\ Bit(op, 4)
      /\ kind = 2 <=> ~Bit(op, 6) /\ Bit(op, 5) /\ ~Bit(op, 4)
      /\ kind = 3 <=> ~Bit(op, 6) /\ Bit(op, 5) /\ Bit(op, 4)
      /\ kind = 4 <=> Bit(op, 6) /\ ~Bit(op, 5) /\ ~Bit(op, 4)
      /\ kind = 5 <=> Bit(op, 6) /\ ~Bit(op, 5) /\ Bit(op, 4)
      /\ kind = 6 <=> Bit(op, 6) /\ Bit(op, 5) /\ ~Bit(op, 4)
      /\ kind = 7 <=> Bit(op, 6) /\ Bit(op, 5) /\ Bit(op, 4)
  BY Zenon, <1>1, FieldBits
<1>9. /\ sub = 0 <=> ~Bit(op, 22) /\ ~Bit(op, 21)
      /\ sub = 1 <=> ~Bit(op, 22) /\ Bit(op, 21)
      /\ sub = 2 <=> Bit(op, 22) /\ ~Bit(op, 21)
      /\ sub = 3 <=> Bit(op, 22) /\ Bit(op, 21)
  BY Zenon, <1>1, FieldBits
<1>10. psr = Psr(op)
  <2>1. sub \in 0 .. 3 BY SMT, <1>1, Ranges
  <2> HIDE DEF sub
  <2>2. sub < 2 <=> ~Bit(op, 22) BY SMT, <1>9, <2>1
  <2> QED BY Zenon, <2>2 DEF Psr
<1>11. d = (CASE Bit(c.op, 7) -> ud
          [] ~Bit(c.op, 7) /\ kind = 0 ->
               IF c.rs # 0 THEN unknown
               ELSE IF sub \in {0, 2}
                    THEN IF c.rn # 15 THEN unknown ELSE Inst(c, "MRS", psr)
                    ELSE IF c.rd # 15 THEN unknown ELSE Inst(c, "MSR_R", psr)
          [] ~Bit(c.op, 7) /\ kind = 1 ->
               IF c.rn # 15 \/ c.rs # 15 THEN unknown
               ELSE IF sub = 1
                    THEN IF c.rd # 15 THEN unknown ELSE Inst(c, "BX", "")
                    ELSE IF sub = 3 THEN Inst(c, "CLZ", "") ELSE ud
          [] ~Bit(c.op, 7) /\ kind = 3 ->
               IF sub # 1 THEN ud
               ELSE IF c.rn # 15 \/ c.rd # 15 \/ c.rs # 15 THEN unknown
               ELSE Inst(c, "BLX", "")
          [] ~Bit(c.op, 7) /\ kind = 7 ->
               IF sub # 1 THEN ud
               ELSE IF c.cond # AL THEN unknown
               ELSE Inst(e, "DEBUG", "")
          [] ~Bit(c.op, 7) /\ kind \in {2, 4, 5, 6} -> ud)
  BY Zenon DEF decode_misc, inst_ud, inst_unknown
<1> HIDE DEF kind, sub, psr, ud, unknown, e
<1>12. \A name, form : Inst(c, name, form) = d /\ name \in Nothing \cup RegisterForms
          => Context(d, op) /\ SameRegs(d, c) /\ Shown(d) /\ Is(d.inst, name, form)
  BY Zenon, <1>4, <1>5, <1>6 DEF Simple
<1>13. CASE Bit(op, 7) \/ (~Bit(op, 7) /\ kind \in {2, 4, 5, 6})
  <2>1. d = ud BY ZenonT(30), <1>1, <1>8, <1>11, <1>13
  <2>2. Context(d, op) /\ SameRegs(d, c) /\ Shown(d) /\ Is(d.inst, "UD", "")
    BY Zenon, <2>1, <1>7, <1>12 DEF ud
  <2> QED BY ZenonT(30), <1>8, <1>13, <2>2 DEF MiscOutcome
<1>14. CASE ~Bit(op, 7) /\ kind = 0
  <2>1. d = IF c.rs # 0 THEN unknown
            ELSE IF sub \in {0, 2}
                 THEN IF c.rn # 15 THEN unknown ELSE Inst(c, "MRS", psr)
                 ELSE IF c.rd # 15 THEN unknown ELSE Inst(c, "MSR_R", psr)
    BY ZenonT(30), <1>1, <1>8, <1>11, <1>14
  <2>2. sub \in {0, 2} <=> ~Bit(op, 21) BY Zenon, <1>9
  <2>3. CASE c.rs # 0 \/ (Bit(op, 21) /\ c.rd # 15) \/ (~Bit(op, 21) /\ c.rn # 15)
    <3>1. Context(d, op) /\ SameRegs(d, c) /\ Shown(d) /\ Is(d.inst, "UNKNOWN", "")
      BY Zenon, <2>1, <2>2, <2>3, <1>7, <1>12 DEF unknown
    <3> QED BY Zenon, <1>1, <1>8, <1>14, <2>3, <3>1 DEF MiscOutcome
  <2>4. CASE c.rs = 0 /\ Bit(op, 21) /\ c.rd = 15
    <3>1. Context(d, op) /\ SameRegs(d, c) /\ Shown(d) /\ Is(d.inst, "MSR_R", psr)
      BY Zenon, <2>1, <2>2, <2>4, <1>7, <1>12
    <3> QED BY Zenon, <1>1, <1>8, <1>10, <1>14, <2>4, <3>1 DEF MiscOutcome
  <2>5. CASE c.rs = 0 /\ ~Bit(op, 21) /\ c.rn = 15
    <3>1. Context(d, op) /\ SameRegs(d, c) /\ Shown(d) /\ Is(d.inst, "MRS", psr)
      BY Zenon, <2>1, <2>2, <2>5, <1>7, <1>12
    <3> QED BY Zenon, <1>1, <1>8, <1>10, <1>14, <2>5, <3>1 DEF MiscOutcome
  <2> QED BY Zenon, <2>3, <2>4, <2>5
<1>15. CASE ~Bit(op, 7) /\ kind = 1
  <2>1. d = IF c.rn # 15 \/ c.rs # 15 THEN unknown
            ELSE IF sub = 1
                 THEN IF c.rd # 15 THEN unknown ELSE Inst(c, "BX", "")
                 ELSE IF sub = 3 THEN Inst(c, "CLZ", "") ELSE ud
    BY ZenonT(30), <1>1, <1>8, <1>11, <1>15
  <2>2. CASE c.rn # 15 \/ c.rs # 15 \/ (one /\ c.rd # 15)
    <3>1. Context(d, op) /\ SameRegs(d, c) /\ Shown(d) /\ Is(d.inst, "UNKNOWN", "")
      BY Zenon, <2>1, <2>2, <1>7, <1>9, <1>12 DEF unknown
    <3> QED BY Zenon, <1>1, <1>8, <1>15, <2>2, <3>1 DEF MiscOutcome
  <2>3. CASE c.rn = 15 /\ c.rs = 15 /\ one /\ c.rd = 15
    <3>1. Context(d, op) /\ SameRegs(d, c) /\ Shown(d) /\ Is(d.inst, "BX", "")
      BY Zenon, <2>1, <2>3, <1>7, <1>9, <1>12
    <3> QED BY Zenon, <1>1, <1>8, <1>15, <2>3, <3>1 DEF MiscOutcome
  <2>4. CASE c.rn = 15 /\ c.rs = 15 /\ Bit(op, 21) /\ Bit(op, 22)
    <3>1. Context(d, op) /\ SameRegs(d, c) /\ Shown(d) /\ Is(d.inst, "CLZ", "")
      BY Zenon, <2>1, <2>4, <1>7, <1>9, <1>12
    <3> QED BY Zenon, <1>1, <1>8, <1>15, <2>4, <3>1 DEF MiscOutcome
  <2>5. CASE c.rn = 15 /\ c.rs = 15 /\ ~Bit(op, 21)
    <3>1. Context(d, op) /\ SameRegs(d, c) /\ Shown(d) /\ Is(d.inst, "UD", "")
      BY Zenon, <2>1, <2>5, <1>7, <1>9, <1>12 DEF ud
    <3> QED BY Zenon, <1>1, <1>8, <1>15, <2>5, <3>1 DEF MiscOutcome
  <2> QED BY Zenon, <2>2, <2>3, <2>4, <2>5
<1>16. CASE ~Bit(op, 7) /\ kind = 3
  <2>1. d = IF sub # 1 THEN ud
            ELSE IF c.rn # 15 \/ c.rd # 15 \/ c.rs # 15 THEN unknown
            ELSE Inst(c, "BLX", "")
    BY ZenonT(30), <1>1, <1>8, <1>11, <1>16
  <2>2. CASE ~one
    <3>1. Context(d, op) /\ SameRegs(d, c) /\ Shown(d) /\ Is(d.inst, "UD", "")
      BY Zenon, <2>1, <2>2, <1>7, <1>9, <1>12 DEF ud
    <3> QED BY Zenon, <1>1, <1>8, <1>16, <2>2, <3>1 DEF MiscOutcome
  <2>3. CASE one /\ (c.rn # 15 \/ c.rd # 15 \/ c.rs # 15)
    <3>1. Context(d, op) /\ SameRegs(d, c) /\ Shown(d) /\ Is(d.inst, "UNKNOWN", "")
      BY Zenon, <2>1, <2>3, <1>7, <1>9, <1>12 DEF unknown
    <3> QED BY Zenon, <1>1, <1>8, <1>16, <2>3, <3>1 DEF MiscOutcome
  <2>4. CASE one /\ c.rn = 15 /\ c.rd = 15 /\ c.rs = 15
    <3>1. Context(d, op) /\ SameRegs(d, c) /\ Shown(d) /\ Is(d.inst, "BLX", "")
      BY Zenon, <2>1, <2>4, <1>7, <1>9, <1>12
    <3> QED BY Zenon, <1>1, <1>8, <1>16, <2>4, <3>1 DEF MiscOutcome
  <2> QED BY Zenon, <2>2, <2>3, <2>4
<1>17. CASE ~Bit(op, 7) /\ kind = 7
  <2>1. d = IF sub # 1 THEN ud
            ELSE IF c.cond # AL THEN unknown
            ELSE Inst(e, "DEBUG", "")
    BY ZenonT(30), <1>1, <1>8, <1>11, <1>17
  <2>2. CASE ~one
    <3>1. Context(d, op) /\ SameRegs(d, c) /\ Shown(d) /\ Is(d.inst, "UD", "")
      BY Zenon, <2>1, <2>2, <1>7, <1>9, <1>12 DEF ud
    <3> QED BY Zenon, <1>1, <1>8, <1>17, <2>2, <3>1 DEF MiscOutcome
  <2>3. CASE one /\ c.cond # AL
    <3>1. Context(d, op) /\ SameRegs(d, c) /\ Shown(d) /\ Is(d.inst, "UNKNOWN", "")
      BY Zenon, <2>1, <2>3, <1>7, <1>9, <1>12 DEF unknown
    <3> QED BY Zenon, <1>1, <1>8, <1>17, <2>3, <3>1 DEF MiscOutcome
  <2>4. CASE one /\ c.cond = AL
    <3>1. d = Inst(e, "DEBUG", "") BY Zenon, <2>1, <2>4, <1>9
    <3>2. IsContext(d) /\ Operands(d, e) /\ Is(d.inst, "DEBUG", "")
      BY Zenon, <3>1, <1>3, Insts DEF Context
    <3>3. Context(d, op) /\ SameRegs(d, c)
      BY Zenon, <1>3, <3>2 DEF Context, Operands, SameRegs
    <3>4. d.inst[1] \in Nothing BY Zenon, <1>7, <3>2 DEF Is
    <3>5. Shown(d) BY Zenon, <3>4, ShownNothing
    <3> QED BY Zenon, <1>1, <1>8, <1>17, <2>4, <3>2, <3>3, <3>5 DEF MiscOutcome
  <2> QED BY Zenon, <2>2, <2>3, <2>4
<1> QED BY Zenon, <1>8, <1>13, <1>14, <1>15, <1>16, <1>17

------------------------------------------------------------------------------
\* The registers that the text of an operation shows.
Named(d) == \A f \in Formats(d.inst) \cap {"rd", "rn", "rm", "rs"} : d[f] = Operand(d.op, f)

\* ArmAgrees, of a context.
Agrees(d) ==
    d.cond # NV /\ ~Misread(d.op) =>
        IF Encoding(d.op) \in Undefined \/ ~Regular(d.op)
        THEN d.inst \in {<<"UD", "">>, <<"UNKNOWN", "">>}
        ELSE d.inst = Architecture(d.op) /\ Named(d)

Rejected(d) == Is(d.inst, "UD", "") \/ Is(d.inst, "UNKNOWN", "")

\* A word that is rejected as the architecture wants it agrees with it.
LEMMA AgreeRejected ==
  ASSUME NEW d, Rejected(d), Encoding(d.op) \in Undefined \/ ~Regular(d.op)
  PROVE  Agrees(d)
BY Zenon DEF Agrees, Rejected, Is

\* So does one that is decoded to its operation with its registers.
LEMMA AgreeOperation ==
  ASSUME NEW d, Encoding(d.op) \notin Undefined, Regular(d.op),
         d.inst = Architecture(d.op), Named(d)
  PROVE  Agrees(d)
BY Zenon DEF Agrees

\* The encodings with neither fixed fields nor another place for the registers.
Plain == {"MULL", "SWP", "SWPB", "LDRD", "STRX", "LDRX", "Data_R", "Data_RR", "Data_I",
          "LS_I", "LS_R", "STM", "LDM", "B", "BL", "MRC", "MCR", "SWI"}
Fixed == {"MRS", "MSR_R", "MSR_I", "CLZ", "BX", "BLX", "BKPT"}

\* These encodings have no field that could be irregular.
LEMMA PlainRegular ==
  ASSUME NEW op, Encoding(op) \in Plain
  PROVE  Encoding(op) \notin Undefined /\ Regular(op)
<1> DEFINE e == Encoding(op)
<1>1. Regular(op) <=>
        (CASE e = "MUL" -> decode_reg(op, 12) = 0
          [] e = "MRS" -> decode_reg(op, 16) = 15 /\ decode_reg(op, 8) = 0
          [] e = "MSR_R" -> decode_reg(op, 12) = 15 /\ decode_reg(op, 8) = 0
          [] e = "MSR_I" -> decode_reg(op, 12) = 15
          [] e = "CLZ" -> decode_reg(op, 16) = 15 /\ decode_reg(op, 8) = 15
          [] e \in {"BX", "BLX"} -> \A first \in {8, 12, 16} : decode_reg(op, first) = 15
          [] e = "BKPT" -> Bits(op, 28, 4) = AL
          [] OTHER -> TRUE)
  BY Zenon DEF Regular
<1> HIDE DEF e
<1>2. /\ e # "MUL" /\ e # "MRS" /\ e # "MSR_R" /\ e # "MSR_I" /\ e # "CLZ" /\ e # "BX"
      /\ e # "BLX" /\ e # "BKPT"
  BY SMT DEF Plain, e
<1>3. e \notin Undefined BY SMT DEF Plain, Undefined, e
<1>4. Regular(op) BY ZenonT(30), <1>1, <1>2
<1> QED BY Zenon, <1>3, <1>4 DEF e

\* Those with fixed fields are regular when the fields have their values.
LEMMA FixedRegular ==
  ASSUME NEW op
  PROVE  /\ Encoding(op) = "MUL" => (Regular(op) <=> Bits(op, 12, 4) = 0)
         /\ Encoding(op) = "MLA" => Regular(op)
         /\ Encoding(op) = "MRS" => (Regular(op) <=> Bits(op, 16, 4) = 15 /\ Bits(op, 8, 4) = 0)
         /\ Encoding(op) = "MSR_R" => (Regular(op) <=> Bits(op, 12, 4) = 15 /\ Bits(op, 8, 4) = 0)
         /\ Encoding(op) = "MSR_I" => (Regular(op) <=> Bits(op, 12, 4) = 15)
         /\ Encoding(op) = "CLZ" => (Regular(op) <=> Bits(op, 16, 4) = 15 /\ Bits(op, 8, 4) = 15)
         /\ Encoding(op) \in {"BX", "BLX"} =>
              (Regular(op) <=> Bits(op, 8, 4) = 15 /\ Bits(op, 12, 4) = 15 /\ Bits(op, 16, 4) = 15)
         /\ Encoding(op) = "BKPT" => (Regular(op) <=> Bits(op, 28, 4) = AL)
<1>1. Encoding(op) = "MUL" => (Regular(op) <=> Bits(op, 12, 4) = 0)
  BY ZenonT(20) DEF Regular, decode_reg
<1>2. Encoding(op) = "MLA" => Regular(op) BY ZenonT(20) DEF Regular
<1>3. Encoding(op) = "MRS" => (Regular(op) <=> Bits(op, 16, 4) = 15 /\ Bits(op, 8, 4) = 0)
  BY ZenonT(20) DEF Regular, decode_reg
<1>4. Encoding(op) = "MSR_R" => (Regular(op) <=> Bits(op, 12, 4) = 15 /\ Bits(op, 8, 4) = 0)
  BY ZenonT(20) DEF Regular, decode_reg
<1>5. Encoding(op) = "MSR_I" => (Regular(op) <=> Bits(op, 12, 4) = 15)
  BY ZenonT(20) DEF Regular, decode_reg
<1>6. Encoding(op) = "CLZ" => (Regular(op) <=> Bits(op, 16, 4) = 15 /\ Bits(op, 8, 4) = 15)
  BY ZenonT(20) DEF Regular, decode_reg
<1>7. Encoding(op) \in {"BX", "BLX"} =>
        (Regular(op) <=> Bits(op, 8, 4) = 15 /\ Bits(op, 12, 4) = 15 /\ Bits(op, 16, 4) = 15)
  BY ZenonT(20) DEF Regular, decode_reg
<1>8. Encoding(op) = "BKPT" => (Regular(op) <=> Bits(op, 28, 4) = AL)
  BY ZenonT(20) DEF Regular
<1> QED BY Zenon, <1>1, <1>2, <1>3, <1>4, <1>5, <1>6, <1>7, <1>8

\* The architecture's operation, encoding by encoding.
LEMMA Architectures ==
  ASSUME NEW op
  PROVE  LET data == DataOps[Bits(op, 21, 4) + 1]
         IN  /\ Encoding(op) = "MUL" => Architecture(op) = <<"MUL", "R">>
             /\ Encoding(op) = "MLA" => Architecture(op) = <<"MLA", "R">>
             /\ Encoding(op) = "MULL" => Architecture(op) =
                  <<<<"UMULL", "UMLAL", "SMULL", "SMLAL">>[Bits(op, 21, 2) + 1], "">>
             /\ Encoding(op) = "LDRD" => Architecture(op) =
                  <<"LDRD", IF Bit(op, 22) THEN "RI" ELSE "R", Index(op)>>
             /\ Encoding(op) = "STRX" => Architecture(op) =
                  <<"STRX", IF Bit(op, 22) THEN "I" ELSE "R", Index(op)>>
             /\ Encoding(op) = "LDRX" => Architecture(op) =
                  <<"LDRX", IF Bit(op, 22) THEN "I" ELSE "R", Index(op)>>
             /\ Encoding(op) = "MRS" => Architecture(op) = <<"MRS", Psr(op)>>
             /\ Encoding(op) = "MSR_R" => Architecture(op) = <<"MSR_R", Psr(op)>>
             /\ Encoding(op) = "MSR_I" => Architecture(op) = <<"MSR_I", Psr(op)>>
             /\ Encoding(op) = "BKPT" => Architecture(op) = <<"DEBUG", "">>
             /\ Encoding(op) = "Data_R" => Architecture(op) = <<data, "R">>
             /\ Encoding(op) = "Data_RR" => Architecture(op) = <<data, "RR">>
             /\ Encoding(op) = "Data_I" => Architecture(op) = <<data, "I">>
             /\ Encoding(op) = "LS_I" => Architecture(op) = <<LS(op), "I", Index(op)>>
             /\ Encoding(op) = "LS_R" => Architecture(op) = <<LS(op), "R", Index(op)>>
             /\ Encoding(op) = "STM" => Architecture(op) = <<"STM", IF Bit(op, 21) THEN "W" ELSE "">>
             /\ Encoding(op) = "LDM" => Architecture(op) = <<"LDM", IF Bit(op, 21) THEN "W" ELSE "">>
             /\ Encoding(op) \in {"SWP", "SWPB", "BX", "BLX", "CLZ", "B", "BL", "MRC", "MCR", "SWI"}
                  => Architecture(op) = <<Encoding(op), "">>
<1> DEFINE data == DataOps[Bits(op, 21, 4) + 1]
           long == <<"UMULL", "UMLAL", "SMULL", "SMLAL">>[Bits(op, 21, 2) + 1]
           A(e) == CASE e = "MUL" -> <<"MUL", "R">>
                     [] e = "MLA" -> <<"MLA", "R">>
                     [] e = "MULL" -> <<long, "">>
                     [] e = "LDRD" -> <<"LDRD", IF Bit(op, 22) THEN "RI" ELSE "R", Index(op)>>
                     [] e \in {"STRX", "LDRX"} -> <<e, IF Bit(op, 22) THEN "I" ELSE "R", Index(op)>>
                     [] e \in {"MRS", "MSR_R", "MSR_I"} -> <<e, Psr(op)>>
                     [] e = "BKPT" -> <<"DEBUG", "">>
                     [] e = "Data_R" -> <<data, "R">>
                     [] e = "Data_RR" -> <<data, "RR">>
                     [] e = "Data_I" -> <<data, "I">>
                     [] e = "LS_I" -> <<LS(op), "I", Index(op)>>
                     [] e = "LS_R" -> <<LS(op), "R", Index(op)>>
                     [] e \in {"STM", "LDM"} -> <<e, IF Bit(op, 21) THEN "W" ELSE "">>
                     [] OTHER -> <<e, "">>
<1>1. Architecture(op) = A(Encoding(op)) BY Zenon DEF Architecture
<1> HIDE DEF data, long
<1>2. A("MUL") = <<"MUL", "R">> /\ A("MLA") = <<"MLA", "R">> /\ A("MULL") = <<long, "">>
  BY ZenonT(30)
<1>3. A("LDRD") = <<"LDRD", IF Bit(op, 22) THEN "RI" ELSE "R", Index(op)>> BY ZenonT(30)
<1>4. A("STRX") = <<"STRX", IF Bit(op, 22) THEN "I" ELSE "R", Index(op)>> BY ZenonT(30)
<1>5. A("LDRX") = <<"LDRX", IF Bit(op, 22) THEN "I" ELSE "R", Index(op)>> BY ZenonT(30)
<1>6. A("MRS") = <<"MRS", Psr(op)>> /\ A("MSR_R") = <<"MSR_R", Psr(op)>> BY ZenonT(30)
<1>7. A("MSR_I") = <<"MSR_I", Psr(op)>> /\ A("BKPT") = <<"DEBUG", "">> BY ZenonT(30)
<1>8. A("Data_R") = <<data, "R">> /\ A("Data_RR") = <<data, "RR">> /\ A("Data_I") = <<data, "I">>
  BY ZenonT(30)
<1>9. A("LS_I") = <<LS(op), "I", Index(op)>> /\ A("LS_R") = <<LS(op), "R", Index(op)>>
  BY ZenonT(30)
<1>10. A("STM") = <<"STM", IF Bit(op, 21) THEN "W" ELSE "">> BY ZenonT(30)
<1>11. A("LDM") = <<"LDM", IF Bit(op, 21) THEN "W" ELSE "">> BY ZenonT(30)
<1>12. ASSUME NEW e \in {"SWP", "SWPB", "BX", "BLX", "CLZ", "B", "BL", "MRC", "MCR", "SWI"}
       PROVE  A(e) = <<e, "">>
  <2>1. A("SWP") = <<"SWP", "">> /\ A("SWPB") = <<"SWPB", "">> BY ZenonT(30)
  <2>2. A("BX") = <<"BX", "">> /\ A("BLX") = <<"BLX", "">> BY ZenonT(30)
  <2>3. A("CLZ") = <<"CLZ", "">> /\ A("B") = <<"B", "">> BY ZenonT(30)
  <2>4. A("BL") = <<"BL", "">> /\ A("MRC") = <<"MRC", "">> BY ZenonT(30)
  <2>5. A("MCR") = <<"MCR", "">> /\ A("SWI") = <<"SWI", "">> BY ZenonT(30)
  <2> HIDE DEF A
  <2> QED BY Zenon, <2>1, <2>2, <2>3, <2>4, <2>5
<1> HIDE DEF A
<1> QED BY Zenon, <1>1, <1>2, <1>3, <1>4, <1>5, <1>6, <1>7, <1>8, <1>9, <1>10, <1>11, <1>12
      DEF data, long

\* Where the architecture has the registers of an operation.
LEMMA OperandFields ==
  ASSUME NEW op
  PROVE  /\ Operand(op, "rs") = Bits(op, 8, 4) /\ Operand(op, "rm") = Bits(op, 0, 4)
         /\ Encoding(op) # "MLA" => Operand(op, "rn") = Bits(op, 16, 4)
         /\ Encoding(op) = "MLA" => Operand(op, "rn") = Bits(op, 12, 4)
         /\ Encoding(op) \notin {"MUL", "MLA"} => Operand(op, "rd") = Bits(op, 12, 4)
         /\ Encoding(op) \in {"MUL", "MLA"} => Operand(op, "rd") = Bits(op, 16, 4)
BY ZenonT(30) DEF Operand

\* Four ways in which an operation names its registers.
LEMMA NamedRegisters ==
  ASSUME NEW d, DataRegs(d), Encoding(d.op) \notin {"MUL", "MLA"},
         "rs" \in Formats(d.inst) => d.rs = Bits(d.op, 8, 4)
  PROVE  Named(d)
<1>1. "rs" \in Formats(d.inst) => d["rs"] = Operand(d.op, "rs") BY Zenon, OperandFields
<1>2. d["rm"] = Operand(d.op, "rm") BY Zenon, OperandFields DEF DataRegs
<1>3. d["rd"] = Operand(d.op, "rd") BY Zenon, OperandFields DEF DataRegs
<1>4. d["rn"] = Operand(d.op, "rn") BY Zenon, OperandFields DEF DataRegs
<1> QED BY Zenon, <1>1, <1>2, <1>3, <1>4 DEF Named

\* MUL and MLA have rd and rn exchanged.
LEMMA NamedMultiply ==
  ASSUME NEW d, d.rd = Bits(d.op, 16, 4), d.rs = Bits(d.op, 8, 4), d.rm = Bits(d.op, 0, 4),
         d.rn = Bits(d.op, 12, 4),
         Encoding(d.op) = "MLA" \/ (Encoding(d.op) = "MUL" /\ d.inst[1] = "MUL")
  PROVE  Named(d)
<1>1. d["rs"] = Operand(d.op, "rs") /\ d["rm"] = Operand(d.op, "rm") BY Zenon, OperandFields
<1>2. d["rd"] = Operand(d.op, "rd") BY Zenon, OperandFields
<1>3. "rn" \in Formats(d.inst) => d["rn"] = Operand(d.op, "rn")
  <2>1. CASE Encoding(d.op) = "MLA" BY Zenon, <2>1, OperandFields
  <2>2. CASE d.inst[1] = "MUL"
    <3>1. Formats(d.inst) = {"rd", "rm", "rs"} BY Zenon, <2>2, FormatsOfOthers
    <3> QED BY Zenon, <3>1
  <2> QED BY Zenon, <2>1, <2>2
<1> QED BY Zenon, <1>1, <1>2, <1>3 DEF Named

\* Only the base register is shown.
LEMMA NamedBase ==
  ASSUME NEW d, Formats(d.inst) \subseteq {"mode", "rn", "imm"}, d.rn = Bits(d.op, 16, 4),
         Encoding(d.op) # "MLA"
  PROVE  Named(d)
<1>1. d["rn"] = Operand(d.op, "rn") BY Zenon, OperandFields
<1> QED BY Zenon, <1>1 DEF Named

\* No register is shown.
LEMMA NamedNone ==
  ASSUME NEW d, d.inst[1] \in Immediates \cup Nothing
  PROVE  Named(d)
<1>1. CASE d.inst[1] \in Immediates
  <2>1. Formats(d.inst) = {"imm"} BY Zenon, <1>1, FormatsOfOthers DEF Immediates
  <2> QED BY Zenon, <2>1 DEF Named
<1>2. CASE d.inst[1] \in Nothing
  <2>1. Formats(d.inst) = {} BY Zenon, <1>2, FormatsOfOthers DEF Nothing
  <2> QED BY Zenon, <2>1 DEF Named
<1> QED BY Zenon, <1>1, <1>2

------------------------------------------------------------------------------
\* The first three bits of a word.
Class0(op) == ~Bit(op, 27) /\ ~Bit(op, 26) /\ ~Bit(op, 25)
Class1(op) == ~Bit(op, 27) /\ ~Bit(op, 26) /\ Bit(op, 25)

\* What decode_misc yields agrees with the rows of the table for these words.
LEMMA MiscAgrees ==
  ASSUME NEW op \in Word, Class0(op), Untested(op), ~(Bit(op, 7) /\ Bit(op, 4)),
         NEW d, Context(d, op), DataRegs(d), d.rs = Bits(op, 8, 4), MiscOutcome(op, d.inst)
  PROVE  Agrees(d)
<1> DEFINE rn == Bits(op, 16, 4)
           rd == Bits(op, 12, 4)
           rs == Bits(op, 8, 4)
           one == Bit(op, 21) /\ ~Bit(op, 22)
<1> USE DEF Class0, Untested
<1>1. d.op = op /\ d.cond = Bits(op, 28, 4) BY Zenon DEF Context
<1>2. Rejected(d) /\ (Encoding(op) \in Undefined \/ ~Regular(op)) => Agrees(d)
  BY Zenon, <1>1, AgreeRejected
<1>3. Encoding(op) \notin Undefined \cup {"MUL", "MLA"} /\ Regular(op)
      /\ d.inst = Architecture(op) => Agrees(d)
  BY Zenon, <1>1, NamedRegisters, AgreeOperation
<1>4. "UD" \in Undefined /\ "DSP" \in Undefined BY DEF Undefined
<1>5. \A e \in Fixed : e \notin Undefined \cup {"MUL", "MLA"} BY SMT DEF Fixed, Undefined
<1>6. /\ "MRS" \in Fixed /\ "MSR_R" \in Fixed /\ "CLZ" \in Fixed /\ "BX" \in Fixed
      /\ "BLX" \in Fixed /\ "BKPT" \in Fixed
  BY DEF Fixed
<1>7. CASE Bit(op, 7) \/ (Bit(op, 6) /\ ~Bit(op, 5)) \/ (Bit(op, 5) /\ ~Bit(op, 4))
           \/ (Bit(op, 6) /\ ~Bit(op, 4))
  <2>1. Encoding(op) = "UD" \/ Encoding(op) = "DSP" BY ZenonT(30), <1>7, Encodings
  <2>2. Rejected(d) BY Zenon, <1>7 DEF Rejected, MiscOutcome
  <2> QED BY Zenon, <1>2, <1>4, <2>1, <2>2
<1>8. CASE ~Bit(op, 7) /\ ~Bit(op, 6) /\ ~Bit(op, 5) /\ ~Bit(op, 4)
  <2>1. IF rs # 0 \/ (Bit(op, 21) /\ rd # 15) \/ (~Bit(op, 21) /\ rn # 15)
        THEN Is(d.inst, "UNKNOWN", "")
        ELSE Is(d.inst, IF Bit(op, 21) THEN "MSR_R" ELSE "MRS", Psr(op))
    BY Zenon, <1>8 DEF MiscOutcome
  <2>2. CASE Bit(op, 21)
    <3>1. Encoding(op) = "MSR_R" BY ZenonT(30), <1>8, <2>2, Encodings
    <3>2. Regular(op) <=> rd = 15 /\ rs = 0 BY Zenon, <3>1, FixedRegular
    <3>3. CASE Regular(op)
      <4>1. d.inst = Architecture(op) BY Zenon, <2>1, <2>2, <3>1, <3>2, <3>3, Architectures DEF Is
      <4> QED BY Zenon, <1>3, <1>5, <1>6, <3>1, <3>3, <4>1
    <3>4. CASE ~Regular(op)
      <4>1. Rejected(d) BY Zenon, <2>1, <2>2, <3>2, <3>4 DEF Rejected
      <4> QED BY Zenon, <1>2, <3>4, <4>1
    <3> QED BY Zenon, <3>3, <3>4
  <2>3. CASE ~Bit(op, 21)
    <3>1. Encoding(op) = "MRS" BY ZenonT(30), <1>8, <2>3, Encodings
    <3>2. Regular(op) <=> rn = 15 /\ rs = 0 BY Zenon, <3>1, FixedRegular
    <3>3. CASE Regular(op)
      <4>1. d.inst = Architecture(op) BY Zenon, <2>1, <2>3, <3>1, <3>2, <3>3, Architectures DEF Is
      <4> QED BY Zenon, <1>3, <1>5, <1>6, <3>1, <3>3, <4>1
    <3>4. CASE ~Regular(op)
      <4>1. Rejected(d) BY Zenon, <2>1, <2>3, <3>2, <3>4 DEF Rejected
      <4> QED BY Zenon, <1>2, <3>4, <4>1
    <3> QED BY Zenon, <3>3, <3>4
  <2> QED BY Zenon, <2>2, <2>3
<1>9. CASE ~Bit(op, 7) /\ ~Bit(op, 6) /\ ~Bit(op, 5) /\ Bit(op, 4)
  <2>1. IF rn # 15 \/ rs # 15 THEN Is(d.inst, "UNKNOWN", "")
        ELSE IF one THEN IF rd # 15 THEN Is(d.inst, "UNKNOWN", "") ELSE Is(d.inst, "BX", "")
             ELSE IF Bit(op, 21) THEN Is(d.inst, "CLZ", "") ELSE Is(d.inst, "UD", "")
    BY Zenon, <1>9 DEF MiscOutcome
  <2>2. CASE ~Bit(op, 21)
    <3>1. Encoding(op) = "UD" BY ZenonT(30), <1>9, <2>2, Encodings
    <3>2. Rejected(d) BY Zenon, <2>1, <2>2 DEF Rejected
    <3> QED BY Zenon, <1>2, <1>4, <3>1, <3>2
  <2>3. CASE Bit(op, 21) /\ Bit(op, 22)
    <3>1. Encoding(op) = "CLZ" BY ZenonT(30), <1>9, <2>3, Encodings
    <3>2. Regular(op) <=> rn = 15 /\ rs = 15 BY Zenon, <3>1, FixedRegular
    <3>3. CASE Regular(op)
      <4>1. d.inst = Architecture(op) BY Zenon, <2>1, <2>3, <3>1, <3>2, <3>3, Architectures DEF Is
      <4> QED BY Zenon, <1>3, <1>5, <1>6, <3>1, <3>3, <4>1
    <3>4. CASE ~Regular(op)
      <4>1. Rejected(d) BY Zenon, <2>1, <3>2, <3>4 DEF Rejected
      <4> QED BY Zenon, <1>2, <3>4, <4>1
    <3> QED BY Zenon, <3>3, <3>4
  <2>4. CASE one
    <3>1. Encoding(op) = "BX" BY ZenonT(30), <1>9, <2>4, Encodings
    <3>2. Regular(op) <=> rs = 15 /\ rd = 15 /\ rn = 15 BY Zenon, <3>1, FixedRegular
    <3>3. CASE Regular(op)
      <4>1. d.inst = Architecture(op) BY Zenon, <2>1, <2>4, <3>1, <3>2, <3>3, Architectures DEF Is
      <4> QED BY Zenon, <1>3, <1>5, <1>6, <3>1, <3>3, <4>1
    <3>4. CASE ~Regular(op)
      <4>1. Rejected(d) BY Zenon, <2>1, <2>4, <3>2, <3>4 DEF Rejected
      <4> QED BY Zenon, <1>2, <3>4, <4>1
    <3> QED BY Zenon, <3>3, <3>4
  <2> QED BY Zenon, <2>2, <2>3, <2>4
<1>10. CASE ~Bit(op, 7) /\ ~Bit(op, 6) /\ Bit(op, 5) /\ Bit(op, 4)
  <2>1. IF ~one THEN Is(d.inst, "UD", "")
        ELSE IF rn # 15 \/ rd # 15 \/ rs # 15 THEN Is(d.inst, "UNKNOWN", "")
        ELSE Is(d.inst, "BLX", "")
    BY Zenon, <1>10 DEF MiscOutcome
  <2>2. CASE ~one
    <3>1. Encoding(op) = "UD" BY ZenonT(30), <1>10, <2>2, Encodings
    <3>2. Rejected(d) BY Zenon, <2>1, <2>2 DEF Rejected
    <3> QED BY Zenon, <1>2, <1>4, <3>1, <3>2
  <2>3. CASE one
    <3>1. Encoding(op) = "BLX" BY ZenonT(30), <1>10, <2>3, Encodings
    <3>2. Regular(op) <=> rs = 15 /\ rd = 15 /\ rn = 15 BY Zenon, <3>1, FixedRegular
    <3>3. CASE Regular(op)
      <4>1. d.inst = Architecture(op) BY Zenon, <2>1, <2>3, <3>1, <3>2, <3>3, Architectures DEF Is
      <4> QED BY Zenon, <1>3, <1>5, <1>6, <3>1, <3>3, <4>1
    <3>4. CASE ~Regular(op)
      <4>1. Rejected(d) BY Zenon, <2>1, <2>3, <3>2, <3>4 DEF Rejected
      <4> QED BY Zenon, <1>2, <3>4, <4>1
    <3> QED BY Zenon, <3>3, <3>4
  <2> QED BY Zenon, <2>2, <2>3
<1>11. CASE ~Bit(op, 7) /\ Bit(op, 6) /\ Bit(op, 5) /\ Bit(op, 4)
  <2>1. IF ~one THEN Is(d.inst, "UD", "")
        ELSE IF Bits(op, 28, 4) # AL THEN Is(d.inst, "UNKNOWN", "")
        ELSE Is(d.inst, "DEBUG", "")
    BY Zenon, <1>11 DEF MiscOutcome
  <2>2. CASE ~one
    <3>1. Encoding(op) = "UD" BY ZenonT(30), <1>11, <2>2, Encodings
    <3>2. Rejected(d) BY Zenon, <2>1, <2>2 DEF Rejected
    <3> QED BY Zenon, <1>2, <1>4, <3>1, <3>2
  <2>3. CASE one
    <3>1. Encoding(op) = "BKPT" BY ZenonT(30), <1>11, <2>3, Encodings
    <3>2. Regular(op) <=> Bits(op, 28, 4) = AL BY Zenon, <3>1, FixedRegular
    <3>3. CASE Regular(op)
      <4>1. d.inst = Architecture(op) BY Zenon, <2>1, <2>3, <3>1, <3>2, <3>3, Architectures DEF Is
      <4> QED BY Zenon, <1>3, <1>5, <1>6, <3>1, <3>3, <4>1
    <3>4. CASE ~Regular(op)
      <4>1. Rejected(d) BY Zenon, <2>1, <2>3, <3>2, <3>4 DEF Rejected
      <4> QED BY Zenon, <1>2, <3>4, <4>1
    <3> QED BY Zenon, <3>3, <3>4
  <2> QED BY Zenon, <2>2, <2>3
<1> QED BY Zenon, <1>7, <1>8, <1>9, <1>10, <1>11

\* The encodings of the data operations, by their form.
DataRow(form) == CASE form = "I" -> "Data_I" [] form = "R" -> "Data_R" [] form = "RR" -> "Data_RR"

\* A data operation that names its registers.
LEMMA DataAgrees ==
  ASSUME NEW op \in Word, NEW d, Context(d, op), DataRegs(d), NEW form,
         Encoding(op) = DataRow(form),
         form \in DataForms, form = "RR" => d.rs = Bits(op, 8, 4),
         Is(d.inst, DataOps[Bits(op, 21, 4) + 1], form)
  PROVE  Agrees(d)
<1> DEFINE k == Bits(op, 21, 4)
<1>1. d.op = op BY Zenon DEF Context
<1>2. form = "I" \/ form = "R" \/ form = "RR" BY DEF DataForms
<1>3. /\ form = "I" => Encoding(op) = "Data_I"
      /\ form = "R" => Encoding(op) = "Data_R"
      /\ form = "RR" => Encoding(op) = "Data_RR"
  BY Zenon DEF DataRow
<1>4. Encoding(op) \in Plain /\ Encoding(op) # "MUL" /\ Encoding(op) # "MLA"
  <2>1. "Data_I" \in Plain /\ "Data_R" \in Plain /\ "Data_RR" \in Plain BY DEF Plain
  <2>2. "MUL" \notin Plain /\ "MLA" \notin Plain BY DEF Plain
  <2> QED BY Zenon, <1>2, <1>3, <2>1, <2>2
<1>5. Encoding(op) \notin Undefined /\ Regular(op) BY Zenon, <1>4, PlainRegular
<1>6. d.inst = <<DataOps[k + 1], form>> BY Zenon DEF Is
<1>7. d.inst = Architecture(op) BY Zenon, <1>2, <1>3, <1>6, Architectures
<1>8. "rs" \in Formats(d.inst) => d.rs = Bits(op, 8, 4)
  <2>1. CASE form = "RR" BY Zenon, <2>1
  <2>2. CASE form = "R" \/ form = "I"
    <3>1. k \in 0 .. 15 BY SMT, Ranges
    <3>2. d.inst[1] \in DataNames /\ d.inst[2] = form BY Zenon, <3>1, DataName DEF Is
    <3>3. \/ d.inst[1] \in Moves \/ d.inst[1] \in Tests
          \/ d.inst[1] \in Arithmetic \/ d.inst[1] \in Transfers
      BY Zenon, <3>2 DEF DataNames
    <3>4. CASE form = "R"
      <4>1. \/ Formats(d.inst) = {"rd", "rm", "imm"} \/ Formats(d.inst) = {"rn", "rm", "imm"}
            \/ Formats(d.inst) = {"rd", "rn", "rm", "imm"}
        BY ZenonT(20), <3>2, <3>3, <3>4, FormatsOfShift
      <4>2. "rs" \notin Formats(d.inst) BY SMT, <4>1
      <4> QED BY Zenon, <4>2
    <3>5. CASE form = "I"
      <4>1. \/ Formats(d.inst) = {"rd", "imm"} \/ Formats(d.inst) = {"rn", "imm"}
            \/ Formats(d.inst) = {"rd", "rn", "imm"}
        BY ZenonT(20), <3>2, <3>3, <3>5, FormatsOfShift
      <4>2. "rs" \notin Formats(d.inst) BY SMT, <4>1
      <4> QED BY Zenon, <4>2
    <3> QED BY Zenon, <2>2, <3>4, <3>5
  <2> QED BY Zenon, <1>2, <2>1, <2>2
<1>9. Encoding(d.op) \notin {"MUL", "MLA"} BY Zenon, <1>1, <1>4
<1>10. Named(d) BY Zenon, <1>1, <1>8, <1>9, NamedRegisters
<1> QED BY Zenon, <1>1, <1>5, <1>7, <1>10, AgreeOperation

------------------------------------------------------------------------------
\* What is to be shown of the decoding of a word.
Decoded(d, op) == Context(d, op) /\ Shown(d) /\ Agrees(d)

\* The miscellaneous instructions: tests without the S bit.
LEMMA Misc2 ==
  ASSUME NEW op \in Word, NEW c, Context(c, op), DataRegs(c), NEW d, d = decode_misc2(c)
  PROVE  Context(d, op) /\ DataRegs(d) /\ d.rs = Bits(op, 8, 4) /\ Shown(d) /\ MiscOutcome(op, d.inst)
<1> DEFINE e == [c EXCEPT !.rs = decode_reg(c.op, 8)]
<1>1. Context(e, op) /\ DataRegs(e) /\ e.rs = Bits(op, 8, 4)
  BY SMT DEF Context, IsContext, DataRegs, decode_reg
<1>2. d = decode_misc(e) BY Zenon DEF decode_misc2
<1> HIDE DEF e
<1>3. Context(d, op) /\ SameRegs(d, e) /\ Shown(d) /\ MiscOutcome(op, d.inst)
  BY Zenon, <1>1, <1>2, Misc
<1> QED BY Zenon, <1>1, <1>3 DEF SameRegs, DataRegs, Context

\* Registers that were set from a word are natural numbers.
LEMMA DataRegsNat ==
  ASSUME NEW op \in Word, NEW d, d.op = op, DataRegs(d)
  PROVE  d.rn \in Nat /\ d.rd \in Nat /\ d.rm \in Nat
<1>1. Bits(op, 16, 4) \in Nat /\ Bits(op, 12, 4) \in Nat /\ Bits(op, 0, 4) \in Nat
  BY SMT, Ranges
<1> QED BY Zenon, <1>1 DEF DataRegs

\* A data operation with an immediate, a shifted register, a register shift.
LEMMA DataResult ==
  ASSUME NEW op \in Word, NEW c, Context(c, op), DataRegs(c), NEW form \in DataForms,
         NEW untested, ~Untested(op), NEW d, d = Data(c, form, untested),
         form # "RR" => c.imm \in Nat, form = "RR" => c.rs = Bits(op, 8, 4),
         Encoding(op) = DataRow(form)
  PROVE  Decoded(d, op)
<1>1. /\ IsContext(d) /\ Operands(d, c)
      /\ Is(d.inst, DataOps[Bits(op, 21, 4) + 1], form)
  BY Zenon, DataStep
<1>2. Context(d, op) BY Zenon, <1>1 DEF Context, Operands
<1>3. DataRegs(d) BY Zenon, <1>1 DEF DataRegs, Operands
<1>4. form = "RR" => d.rs = Bits(op, 8, 4) BY Zenon, <1>1 DEF Operands
<1>5. Agrees(d) BY Zenon, <1>1, <1>2, <1>3, <1>4, DataAgrees
<1>6. d.rn \in Nat /\ d.rd \in Nat /\ d.rm \in Nat BY Zenon, <1>2, <1>3, DataRegsNat DEF Context
<1>7. d.inst[1] \in DataNames /\ d.inst[2] = form
  <2>1. Bits(op, 21, 4) \in 0 .. 15 BY SMT, Ranges
  <2> QED BY Zenon, <1>1, <2>1, DataName DEF Is
<1>8. form = "RR" \/ Fresh(d, "imm")
  <2>1. form # "RR" => d.imm \in Nat BY Zenon, <1>1 DEF Operands
  <2> QED BY Zenon, <2>1, FreshImm
<1>9. form = "RR" => d.rs \in Nat
  <2>1. Bits(op, 8, 4) \in Nat BY SMT, Ranges
  <2> QED BY Zenon, <1>4, <2>1
<1>10. Shown(d) BY Zenon, <1>6, <1>7, <1>8, <1>9, ShownData
<1> QED BY Zenon, <1>2, <1>5, <1>10 DEF Decoded

\* decode_000_regs: a data operation whose operand is shifted by a register, or a
\* miscellaneous instruction.
LEMMA RegisterShift ==
  ASSUME NEW op \in Word, Class0(op), Bit(op, 4), ~Bit(op, 7),
         NEW c, Context(c, op), DataRegs(c), NEW d, d = decode_000_regs(c)
  PROVE  Decoded(d, op)
<1> DEFINE s == SBit(c)
           e == decode_shift_reg(s)
           m == decode_misc(e)
<1>1. Context(s, op) /\ Operands(s, c) BY Zenon, SBits
<1>2. DataRegs(s) BY Zenon, <1>1 DEF DataRegs, Operands
<1>3. Context(e, op) /\ DataRegs(e) /\ e.rs = Bits(op, 8, 4)
  <2> HIDE DEF s
  <2> QED BY Zenon, <1>1, <1>2, ShiftReg
<1>4. d = Data(e, "RR", m) BY Zenon DEF decode_000_regs, Context
<1> HIDE DEF s, e, m
<1>5. CASE Untested(op)
  <2>1. Context(e, op) BY <1>3
  <2>5. d = m BY <1>4, <1>5, <2>1, DataStep
  <2>2. Context(d, op) /\ SameRegs(d, e) /\ Shown(d) /\ MiscOutcome(op, d.inst)
    BY Zenon, <1>3, <2>5, Misc DEF m
  <2>3. DataRegs(d) /\ d.rs = Bits(op, 8, 4)
    BY Zenon, <1>3, <2>2 DEF SameRegs, DataRegs, Context
  <2>4. Agrees(d) BY Zenon, <1>5, <2>2, <2>3, MiscAgrees
  <2> QED BY Zenon, <2>2, <2>4 DEF Decoded
<1>6. CASE ~Untested(op)
  <2>1. Encoding(op) = "Data_RR" BY ZenonT(30), <1>6, Encodings DEF Class0, Untested
  <2>2. "RR" \in DataForms /\ "RR" # "I" /\ "RR" # "R" BY DEF DataForms
  <2>3. Encoding(op) = DataRow("RR") BY Zenon, <2>1 DEF DataRow
  <2> QED BY Zenon, <1>3, <1>4, <1>6, <2>2, <2>3, DataResult
<1> QED BY <1>5, <1>6

\* decode_000_imms: the operand is shifted by a constant.
LEMMA ImmediateShift ==
  ASSUME NEW op \in Word, Class0(op), ~Bit(op, 4),
         NEW c, Context(c, op), DataRegs(c), NEW d, d = decode_000_imms(c)
  PROVE  Decoded(d, op)
<1> DEFINE s == SBit(c)
           e == decode_shift(s)
           m == decode_misc2(e)
<1>1. Context(s, op) /\ Operands(s, c) BY Zenon, SBits
<1>2. DataRegs(s) BY Zenon, <1>1 DEF DataRegs, Operands
<1>3. Context(e, op) /\ DataRegs(e) /\ e.imm \in Nat
  <2> HIDE DEF s
  <2>1. Context(e, op) /\ SameRegs(e, s) /\ e.imm \in Nat /\ s.op = op
    BY Zenon, <1>1, Shift DEF Context
  <2>2. e.op = op /\ e.rn = s.rn /\ e.rd = s.rd BY Zenon, <2>1 DEF Context, SameRegs
  <2>3. e.rm = s.rm BY Zenon, <2>1 DEF SameRegs
  <2>4. DataRegs(e) BY Zenon, <1>2, <2>1, <2>2, <2>3 DEF DataRegs
  <2> QED BY Zenon, <2>1, <2>4
<1>4. d = Data(e, "R", m) BY Zenon DEF decode_000_imms
<1> HIDE DEF s, e, m
<1>5. CASE Untested(op)
  <2>1. d = m BY Zenon, <1>3, <1>4, <1>5, DataStep
  <2>2. Context(d, op) /\ DataRegs(d) /\ d.rs = Bits(op, 8, 4) /\ Shown(d) /\ MiscOutcome(op, d.inst)
    BY Zenon, <1>3, <2>1, Misc2 DEF m
  <2>4. Agrees(d) BY Zenon, <1>5, <2>2, MiscAgrees
  <2> QED BY Zenon, <2>2, <2>4 DEF Decoded
<1>6. CASE ~Untested(op)
  <2>1. Encoding(op) = "Data_R" BY ZenonT(30), <1>6, Encodings DEF Class0, Untested
  <2>2. "R" \in DataForms /\ "R" # "RR" BY DEF DataForms
  <2>3. Encoding(op) = DataRow("R") BY Zenon, <2>1 DEF DataRow
  <2> QED BY Zenon, <1>3, <1>4, <1>6, <2>2, <2>3, DataResult
<1> QED BY <1>5, <1>6

\* MSR_I: the test encodings without the S bit move an immediate to a status register.
LEMMA MsrI ==
  ASSUME NEW op \in Word, Class1(op), Untested(op), NEW c, Context(c, op), c.imm \in Nat,
         c.rn = Bits(op, 16, 4), c.rd = Bits(op, 12, 4), NEW d, d = MSR_I(c)
  PROVE  Decoded(d, op)
<1> DEFINE k == Bits(c.op, 21, 4)
           ud == Inst(c, "UD", "")
           unknown == Inst(c, "UNKNOWN", "")
<1> USE DEF Class1, Untested
<1>1. c.op = op /\ IsContext(c) BY Zenon DEF Context
<1>2. /\ k = 8 <=> Bit(op, 24) /\ ~Bit(op, 23) /\ ~Bit(op, 22) /\ ~Bit(op, 21)
      /\ k = 9 <=> Bit(op, 24) /\ ~Bit(op, 23) /\ ~Bit(op, 22) /\ Bit(op, 21)
      /\ k = 10 <=> Bit(op, 24) /\ ~Bit(op, 23) /\ Bit(op, 22) /\ ~Bit(op, 21)
      /\ k = 11 <=> Bit(op, 24) /\ ~Bit(op, 23) /\ Bit(op, 22) /\ Bit(op, 21)
  BY Zenon, <1>1, FieldBits
<1>3. d = CASE k \in {8, 10} -> ud
            [] k = 9 -> IF c.rd # 15 THEN unknown ELSE Inst(c, "MSR_I", "CPSR")
            [] k = 11 -> IF c.rd # 0 THEN unknown ELSE Inst(c, "MSR_I", "SPSR")
  BY Zenon DEF MSR_I, inst_ud, inst_unknown
<1> HIDE DEF k, ud, unknown
<1>4. ASSUME NEW name, NEW form, Inst(c, name, form) = d
      PROVE  Context(d, op) /\ Operands(d, c) /\ Is(d.inst, name, form)
  <2>1. IsContext(d) /\ Operands(d, c) /\ Is(d.inst, name, form) BY Zenon, <1>1, <1>4, Insts
  <2> QED BY Zenon, <2>1 DEF Context, Operands
<1>5. ASSUME NEW name, NEW form, Inst(c, name, form) = d, name \in Nothing
      PROVE  Context(d, op) /\ Shown(d) /\ Is(d.inst, name, form)
  <2>1. Context(d, op) /\ Operands(d, c) /\ Is(d.inst, name, form) BY Zenon, <1>4, <1>5
  <2>2. d.inst[1] \in Nothing BY Zenon, <1>5, <2>1 DEF Is
  <2> QED BY Zenon, <2>1, <2>2, ShownNothing
<1>6. ASSUME NEW form, Inst(c, "MSR_I", form) = d
      PROVE  Context(d, op) /\ Shown(d) /\ Is(d.inst, "MSR_I", form) /\ d.rn = Bits(op, 16, 4)
  <2>1. Context(d, op) /\ Operands(d, c) /\ Is(d.inst, "MSR_I", form) BY Zenon, <1>4, <1>6
  <2>2. d.inst[1] \in BasedImmediates BY Zenon, <2>1 DEF Is, BasedImmediates
  <2>3. Bits(op, 16, 4) \in Nat BY SMT, Ranges
  <2>4. d.rn \in Nat /\ d.imm \in Nat /\ d.rn = Bits(op, 16, 4) BY Zenon, <2>1, <2>3 DEF Operands
  <2> QED BY Zenon, <2>1, <2>2, <2>4, FreshImm, ShownBased
<1>7. "UD" \in Nothing /\ "UNKNOWN" \in Nothing /\ "UD" \in Undefined BY DEF Nothing, Undefined
<1>8. CASE ~Bit(op, 21)
  <2>1. d = ud BY Zenon, <1>2, <1>3, <1>8
  <2>2. Context(d, op) /\ Shown(d) /\ Is(d.inst, "UD", "") BY Zenon, <1>5, <1>7, <2>1 DEF ud
  <2>3. Encoding(op) = "UD" BY ZenonT(30), <1>8, Encodings
  <2>4. Agrees(d) BY Zenon, <1>7, <2>2, <2>3, AgreeRejected DEF Rejected, Context
  <2> QED BY Zenon, <2>2, <2>4 DEF Decoded
<1>9. CASE Bit(op, 21)
  <2>1. Encoding(op) = "MSR_I" BY ZenonT(30), <1>9, Encodings
  <2>2. Regular(op) <=> c.rd = 15 BY Zenon, <2>1, FixedRegular
  <2>3. CASE Bit(op, 22)
    <3>1. d = IF c.rd # 0 THEN unknown ELSE Inst(c, "MSR_I", "SPSR")
      BY Zenon, <1>2, <1>3, <1>9, <2>3
    <3>2. Context(d, op) /\ Shown(d) BY Zenon, <1>5, <1>6, <1>7, <3>1 DEF unknown
    <3>3. Agrees(d) BY Zenon, <2>1, <2>3, <3>2 DEF Agrees, Misread, Context
    <3> QED BY Zenon, <3>2, <3>3 DEF Decoded
  <2>4. CASE ~Bit(op, 22)
    <3>1. d = IF c.rd # 15 THEN unknown ELSE Inst(c, "MSR_I", "CPSR")
      BY Zenon, <1>2, <1>3, <1>9, <2>4
    <3>2. CASE c.rd # 15
      <4>1. Context(d, op) /\ Shown(d) /\ Is(d.inst, "UNKNOWN", "")
        BY Zenon, <1>5, <1>7, <3>1, <3>2 DEF unknown
      <4>2. Agrees(d) BY Zenon, <2>2, <3>2, <4>1, AgreeRejected DEF Rejected, Context
      <4> QED BY Zenon, <4>1, <4>2 DEF Decoded
    <3>3. CASE c.rd = 15
      <4>1. Context(d, op) /\ Shown(d) /\ Is(d.inst, "MSR_I", "CPSR") /\ d.rn = Bits(op, 16, 4)
        BY Zenon, <1>6, <3>1, <3>3
      <4>2. d.inst = Architecture(op) BY Zenon, <2>1, <2>4, <4>1, Architectures DEF Is, Psr
      <4>3. Formats(d.inst) = {"rn", "imm"} BY Zenon, <4>1, FormatsOfOthers DEF Is
      <4>4. Named(d)
        <5>1. Encoding(d.op) # "MLA" BY Zenon, <2>1, <4>1 DEF Context
        <5>2. Formats(d.inst) \subseteq {"mode", "rn", "imm"} BY Zenon, <4>3
        <5> QED BY Zenon, <4>1, <5>1, <5>2, NamedBase DEF Context
      <4>5. Encoding(op) \notin Undefined BY SMT, <2>1 DEF Undefined
      <4>6. Agrees(d) BY Zenon, <2>2, <3>3, <4>1, <4>2, <4>4, <4>5, AgreeOperation DEF Context
      <4> QED BY Zenon, <4>1, <4>6 DEF Decoded
    <3> QED BY Zenon, <3>2, <3>3
  <2> QED BY Zenon, <2>3, <2>4
<1> QED BY Zenon, <1>8, <1>9

------------------------------------------------------------------------------
\* decode_001_data_imm: the operand is a rotated constant.
LEMMA DataImmediate ==
  ASSUME NEW op \in Word, Class1(op), NEW c, Context(c, op), NEW d, d = decode_001_data_imm(c)
  PROVE  Decoded(d, op)
<1> DEFINE imm == _rotr(Bits(c.op, 0, 8), 2 * Bits(c.op, 8, 4))
           e == [c EXCEPT !.rn = decode_reg(c.op, 16), !.rd = decode_reg(c.op, 12), !.imm = imm]
           s == SBit(e)
           m == MSR_I(s)
<1>1. imm \in Nat
  <2>1. Bits(op, 0, 8) \in Nat /\ Bits(op, 8, 4) \in 0 .. 15 BY SMT, Ranges
  <2>2. 2 * Bits(op, 8, 4) \in 0 .. 31 BY SMT, <2>1
  <2> QED BY Zenon, <2>1, <2>2, RotrNat DEF Context
<1>2. d = Data(s, "I", m) BY Zenon DEF decode_001_data_imm
<1> HIDE DEF imm
<1>3. Context(e, op) /\ e.rn = Bits(op, 16, 4) /\ e.rd = Bits(op, 12, 4) /\ e.imm = imm
  BY SMT DEF Context, IsContext, decode_reg
<1> HIDE DEF e
<1>4. Context(s, op) /\ Operands(s, e) BY Zenon, <1>3, SBits
<1>5. s.rn = Bits(op, 16, 4) /\ s.rd = Bits(op, 12, 4) /\ s.imm \in Nat
  BY Zenon, <1>1, <1>3, <1>4 DEF Operands
<1> HIDE DEF s, m
<1>6. CASE Untested(op)
  <2>1. d = m BY <1>2, <1>4, <1>6, DataStep
  <2> QED BY Zenon, <1>4, <1>5, <1>6, <2>1, MsrI DEF m
<1>7. CASE ~Untested(op)
  <2>1. /\ IsContext(d) /\ Operands(d, s)
        /\ Is(d.inst, DataOps[Bits(op, 21, 4) + 1], "I")
    BY <1>2, <1>4, <1>7, DataStep
  <2>2. Context(d, op) /\ d.rn = Bits(op, 16, 4) /\ d.rd = Bits(op, 12, 4) /\ d.imm \in Nat
    BY Zenon, <1>4, <1>5, <2>1 DEF Context, Operands
  <2>3. d.rn \in Nat /\ d.rd \in Nat
    <3>1. Bits(op, 16, 4) \in Nat /\ Bits(op, 12, 4) \in Nat BY SMT, Ranges
    <3> QED BY Zenon, <2>2, <3>1
  <2>4. d.inst[1] \in DataNames /\ d.inst[2] = "I"
    <3>1. Bits(op, 21, 4) \in 0 .. 15 BY SMT, Ranges
    <3> QED BY Zenon, <2>1, <3>1, DataName DEF Is
  <2>5. "I" \in DataForms /\ "I" # "RR" BY DEF DataForms
  <2>6. Fresh(d, "imm") BY Zenon, <2>2, FreshImm
  <2>7. Shown(d) BY Zenon, <2>3, <2>4, <2>5, <2>6, ShownData
  <2>8. Encoding(op) = "Data_I" BY ZenonT(30), <1>7, Encodings DEF Class1, Untested
  <2>9. "Data_I" \in Plain /\ "MLA" \notin Plain /\ "MUL" \notin Plain BY DEF Plain
  <2>10. d.inst = Architecture(op) BY Zenon, <2>1, <2>8, Architectures DEF Is
  <2>11. Named(d)
    <3>1. Formats(d.inst) \subseteq {"rd", "rn", "imm"}
      BY ZenonT(20), <2>4, FormatsOfShift DEF DataNames
    <3>2. d["rn"] = Operand(d.op, "rn") /\ d["rd"] = Operand(d.op, "rd")
      BY Zenon, <2>2, <2>8, <2>9, OperandFields DEF Context
    <3> QED BY Zenon, <3>1, <3>2 DEF Named
  <2>12. Agrees(d) BY Zenon, <2>2, <2>8, <2>9, <2>10, <2>11, PlainRegular, AgreeOperation DEF Context
  <2> QED BY Zenon, <2>2, <2>7, <2>12 DEF Decoded
<1> QED BY <1>6, <1>7

\* An operation with an index form.
Is3(i, name, form, index) == i = <<name, form, index>> /\ i[1] = name /\ i[2] = form

\* An operation with an index form, by its triple.
LEMMA Triples ==
  ASSUME NEW i, NEW name, NEW form, NEW index, i = <<name, form, index>>
  PROVE  Is3(i, name, form, index)
BY DEF Is3

\* Bits 24 and 21 select the index form that the architecture names.
LEMMA IndexForm ==
  ASSUME NEW op \in Word
  PROVE  <<"", "W", "P", "PW">>[2 * Bits(op, 24, 1) + Bits(op, 21, 1) + 1] = Index(op)
<1> DEFINE p == Bits(op, 24, 1)
           w == Bits(op, 21, 1)
           table == <<"", "W", "P", "PW">>
<1>1. /\ (p = 1 <=> Bit(op, 24)) /\ (p = 0 <=> ~Bit(op, 24))
      /\ (w = 1 <=> Bit(op, 21)) /\ (w = 0 <=> ~Bit(op, 21))
  BY SMT, BitValues
<1>2. table[1] = "" /\ table[2] = "W" /\ table[3] = "P" /\ table[4] = "PW" OBVIOUS
<1> HIDE DEF p, w, table
<1>3. table[2 * p + w + 1] = Index(op)
  <2>1. CASE p = 0 /\ w = 0
    <3>1. 2 * p + w + 1 = 1 BY SMT, <2>1
    <3> QED BY Zenon, <1>1, <1>2, <2>1, <3>1 DEF Index
  <2>2. CASE p = 0 /\ w = 1
    <3>1. 2 * p + w + 1 = 2 BY SMT, <2>2
    <3> QED BY Zenon, <1>1, <1>2, <2>2, <3>1 DEF Index
  <2>3. CASE p = 1 /\ w = 0
    <3>1. 2 * p + w + 1 = 3 BY SMT, <2>3
    <3> QED BY Zenon, <1>1, <1>2, <2>3, <3>1 DEF Index
  <2>4. CASE p = 1 /\ w = 1
    <3>1. 2 * p + w + 1 = 4 BY SMT, <2>4
    <3> QED BY Zenon, <1>1, <1>2, <2>4, <3>1 DEF Index
  <2> QED BY Zenon, <1>1, <2>1, <2>2, <2>3, <2>4
<1> QED BY Zenon, <1>3 DEF p, w, table

\* Bits 22 and 20 select the transfer that the architecture names.
LEMMA TransferName ==
  ASSUME NEW op \in Word
  PROVE  <<"STR", "LDR", "STRB", "LDRB">>[2 * Bits(op, 22, 1) + Bits(op, 20, 1) + 1] = LS(op)
         /\ LS(op) \in Transfers
<1> DEFINE b == Bits(op, 22, 1)
           l == Bits(op, 20, 1)
           table == <<"STR", "LDR", "STRB", "LDRB">>
<1>1. /\ (b = 1 <=> Bit(op, 22)) /\ (b = 0 <=> ~Bit(op, 22))
      /\ (l = 1 <=> Bit(op, 20)) /\ (l = 0 <=> ~Bit(op, 20))
  BY SMT, BitValues
<1>2. table[1] = "STR" /\ table[2] = "LDR" /\ table[3] = "STRB" /\ table[4] = "LDRB" OBVIOUS
<1> HIDE DEF b, l, table
<1>3. table[2 * b + l + 1] = LS(op)
  <2>1. CASE b = 0 /\ l = 0
    <3>1. 2 * b + l + 1 = 1 BY SMT, <2>1
    <3> QED BY Zenon, <1>1, <1>2, <2>1, <3>1 DEF LS
  <2>2. CASE b = 0 /\ l = 1
    <3>1. 2 * b + l + 1 = 2 BY SMT, <2>2
    <3> QED BY Zenon, <1>1, <1>2, <2>2, <3>1 DEF LS
  <2>3. CASE b = 1 /\ l = 0
    <3>1. 2 * b + l + 1 = 3 BY SMT, <2>3
    <3> QED BY Zenon, <1>1, <1>2, <2>3, <3>1 DEF LS
  <2>4. CASE b = 1 /\ l = 1
    <3>1. 2 * b + l + 1 = 4 BY SMT, <2>4
    <3> QED BY Zenon, <1>1, <1>2, <2>4, <3>1 DEF LS
  <2> QED BY Zenon, <1>1, <2>1, <2>2, <2>3, <2>4
<1>4. LS(op) \in Transfers BY Zenon DEF LS, Transfers
<1> QED BY Zenon, <1>3, <1>4 DEF b, l, table

\* Indexed stores that operation and keeps every operand.
LEMMA IndexedInsts ==
  ASSUME NEW op \in Word, NEW c, Context(c, op), NEW name, NEW form,
         NEW d, d = Indexed(c, name, form)
  PROVE  Context(d, op) /\ Operands(d, c) /\ Is3(d.inst, name, form, Index(op))
<1> DEFINE v == <<name, form, Index(op)>>
<1>1. d = [c EXCEPT !.inst = v] BY Zenon, IndexForm DEF Indexed, Context
<1> HIDE DEF v
<1>2. Context(d, op) /\ Operands(d, c) BY SMT, <1>1 DEF Context, IsContext, Operands
<1>3. d.inst = v BY Zenon, <1>1, Update DEF Context
<1>4. d.inst = <<name, form, Index(op)>> BY Zenon, <1>3 DEF v
<1> QED BY Zenon, <1>2, <1>4, Triples

\* So does Transfer.
LEMMA TransferInsts ==
  ASSUME NEW op \in Word, NEW c, Context(c, op), NEW form, NEW d, d = Transfer(c, form)
  PROVE  Context(d, op) /\ Operands(d, c) /\ Is3(d.inst, LS(op), form, Index(op))
<1>1. d = Indexed(c, LS(op), form) BY Zenon, TransferName DEF Transfer, Context
<1> QED BY Zenon, <1>1, IndexedInsts

\* decode_addressingmode2 sets both registers and an offset with its sign.
LEMMA AddressingMode2 ==
  ASSUME NEW op \in Word, NEW c, Context(c, op), NEW d, d = decode_addressingmode2(c)
  PROVE  /\ Context(d, op) /\ d.rn = Bits(op, 16, 4) /\ d.rd = Bits(op, 12, 4)
         /\ d.imm \in Int /\ d.imm >= Floor
<1>1. Context(d, op) /\ d.rn = Bits(op, 16, 4) /\ d.rd = Bits(op, 12, 4)
  BY SMT DEF decode_addressingmode2, Context, IsContext, decode_reg
<1>2. d.imm = Bits(op, 0, 12) \/ d.imm = -Bits(op, 0, 12)
  BY SMT DEF decode_addressingmode2, Context, IsContext
<1>3. Bits(op, 0, 12) \in Nat /\ Bits(op, 0, 12) < 4096 BY SMT, Ranges
<1> QED BY SMT, <1>1, <1>2, <1>3 DEF Floor

\* decode_010_loadstore_imm: a load or store at a constant offset.
LEMMA TransferImmediate ==
  ASSUME NEW op \in Word, ~Bit(op, 27), Bit(op, 26), ~Bit(op, 25),
         NEW c, Context(c, op), NEW d, d = decode_010_loadstore_imm(c)
  PROVE  Decoded(d, op)
<1> DEFINE e == decode_addressingmode2(c)
<1>1. /\ Context(e, op) /\ e.rn = Bits(op, 16, 4) /\ e.rd = Bits(op, 12, 4)
      /\ e.imm \in Int /\ e.imm >= Floor
  BY Zenon, AddressingMode2
<1>2. d = Transfer(e, "I") BY Zenon DEF decode_010_loadstore_imm
<1> HIDE DEF e
<1>3. Context(d, op) /\ Operands(d, e) /\ Is3(d.inst, LS(op), "I", Index(op))
  BY Zenon, <1>1, <1>2, TransferInsts
<1>4. d.rn = Bits(op, 16, 4) /\ d.rd = Bits(op, 12, 4) /\ d.imm = e.imm
  BY Zenon, <1>1, <1>3 DEF Operands
<1>5. Fresh(d, "imm") BY Zenon, <1>1, <1>4, FreshFields
<1>6. d.rn \in Nat /\ d.rd \in Nat
  <2>1. Bits(op, 16, 4) \in Nat /\ Bits(op, 12, 4) \in Nat BY SMT, Ranges
  <2> QED BY Zenon, <1>4, <2>1
<1>7. d.inst[1] \in Transfers /\ d.inst[2] = "I" BY Zenon, <1>3, TransferName DEF Is3
<1>8. "I" \in DataForms /\ "I" # "RR" BY DEF DataForms
<1>9. Shown(d) BY Zenon, <1>5, <1>6, <1>7, <1>8, ShownData DEF DataNames
<1>10. Encoding(op) = "LS_I" BY ZenonT(30), Encodings
<1>11. "LS_I" \in Plain /\ "MLA" \notin Plain /\ "MUL" \notin Plain BY DEF Plain
<1>12. d.inst = Architecture(op) BY Zenon, <1>3, <1>10, Architectures DEF Is3
<1>13. Named(d)
  <2>1. Formats(d.inst) = {"rd", "rn", "imm"} BY Zenon, <1>7, FormatsOfShift
  <2>2. d["rn"] = Operand(d.op, "rn") /\ d["rd"] = Operand(d.op, "rd")
    BY Zenon, <1>3, <1>4, <1>10, <1>11, OperandFields DEF Context
  <2> QED BY Zenon, <2>1, <2>2 DEF Named
<1>14. Agrees(d) BY Zenon, <1>3, <1>10, <1>11, <1>12, <1>13, PlainRegular, AgreeOperation DEF Context
<1> QED BY Zenon, <1>3, <1>9, <1>14 DEF Decoded

\* decode_011_loadstore_reg: at an offset in a register, or an undefined word.
LEMMA TransferRegister ==
  ASSUME NEW op \in Word, ~Bit(op, 27), Bit(op, 26), Bit(op, 25),
         NEW c, Context(c, op), NEW d, d = decode_011_loadstore_reg(c)
  PROVE  Decoded(d, op)
<1> DEFINE e == [c EXCEPT !.u = @ \/ Bit(c.op, 23), !.rn = decode_reg(c.op, 16),
                          !.rd = decode_reg(c.op, 12), !.rm = decode_reg(c.op, 0)]
           s == decode_shift(e)
<1>1. d = IF Bit(op, 4) THEN Inst(c, "UD", "") ELSE Transfer(s, "R")
  BY Zenon DEF decode_011_loadstore_reg, inst_ud, Context
<1>2. Context(e, op) /\ DataRegs(e) BY SMT DEF Context, IsContext, DataRegs, decode_reg
<1> HIDE DEF e
<1>3. Context(s, op) /\ DataRegs(s) /\ s.imm \in Nat
  <2>1. Context(s, op) /\ SameRegs(s, e) /\ s.imm \in Nat BY Zenon, <1>2, Shift
  <2>2. DataRegs(s) BY Zenon, <1>2, <2>1 DEF DataRegs, SameRegs, Context
  <2> QED BY Zenon, <2>1, <2>2
<1> HIDE DEF s
<1>4. CASE Bit(op, 4)
  <2>1. IsContext(d) /\ Operands(d, c) /\ Is(d.inst, "UD", "") BY Zenon, <1>1, <1>4, Insts DEF Context
  <2>2. Context(d, op) BY Zenon, <2>1 DEF Context, Operands
  <2>3. d.inst[1] \in Nothing BY Zenon, <2>1 DEF Is, Nothing
  <2>4. Encoding(op) = "UD" BY ZenonT(30), <1>4, Encodings
  <2>5. Agrees(d) BY Zenon, <2>1, <2>2, <2>4, AgreeRejected DEF Rejected, Undefined, Context
  <2> QED BY Zenon, <2>2, <2>3, <2>5, ShownNothing DEF Decoded
<1>5. CASE ~Bit(op, 4)
  <2>1. Context(d, op) /\ Operands(d, s) /\ Is3(d.inst, LS(op), "R", Index(op))
    BY Zenon, <1>1, <1>3, <1>5, TransferInsts
  <2>2. DataRegs(d) /\ d.imm \in Nat BY Zenon, <1>3, <2>1 DEF Operands, DataRegs, Context
  <2>3. d.rn \in Nat /\ d.rd \in Nat /\ d.rm \in Nat BY Zenon, <2>1, <2>2, DataRegsNat DEF Context
  <2>4. Fresh(d, "imm") BY Zenon, <2>2, FreshImm
  <2>5. d.inst[1] \in Transfers /\ d.inst[2] = "R" BY Zenon, <2>1, TransferName DEF Is3
  <2>6. "R" \in DataForms /\ "R" # "RR" BY DEF DataForms
  <2>7. Shown(d) BY Zenon, <2>3, <2>4, <2>5, <2>6, ShownData DEF DataNames
  <2>8. Encoding(op) = "LS_R" BY ZenonT(30), <1>5, Encodings
  <2>9. "LS_R" \in Plain /\ "MLA" \notin Plain /\ "MUL" \notin Plain BY DEF Plain
  <2>10. d.inst = Architecture(op) BY Zenon, <2>1, <2>8, Architectures DEF Is3
  <2>11. Named(d)
    <3>1. Formats(d.inst) = {"rd", "rn", "rm", "imm"} BY Zenon, <2>5, FormatsOfShift
    <3>2. "rs" \notin Formats(d.inst) BY SMT, <3>1
    <3>3. Encoding(d.op) \notin {"MUL", "MLA"} BY Zenon, <2>1, <2>8, <2>9 DEF Context
    <3> QED BY Zenon, <2>2, <3>2, <3>3, NamedRegisters
  <2>12. Agrees(d) BY Zenon, <2>1, <2>8, <2>9, <2>10, <2>11, PlainRegular, AgreeOperation DEF Context
  <2> QED BY Zenon, <2>1, <2>7, <2>12 DEF Decoded
<1> QED BY <1>4, <1>5

------------------------------------------------------------------------------
\* A word that is rejected as the table wants it.
LEMMA Reject ==
  ASSUME NEW op \in Word, NEW c, Context(c, op), NEW name \in {"UD", "UNKNOWN"},
         NEW d, d = Inst(c, name, ""), Encoding(op) \in Undefined \/ ~Regular(op)
  PROVE  Decoded(d, op)
<1>1. IsContext(d) /\ Operands(d, c) /\ Is(d.inst, name, "") BY Zenon, Insts DEF Context
<1>2. Context(d, op) BY Zenon, <1>1 DEF Context, Operands
<1>3. Rejected(d)
  <2>1. name = "UD" \/ name = "UNKNOWN" OBVIOUS
  <2> QED BY Zenon, <1>1, <2>1 DEF Rejected
<1>4. Shown(d)
  <2>1. d.inst[1] \in Nothing BY Zenon, <1>3 DEF Rejected, Is, Nothing
  <2> QED BY Zenon, <2>1, ShownNothing
<1> QED BY Zenon, <1>2, <1>3, <1>4, AgreeRejected DEF Decoded, Context

\* MUL and MLA, which have their registers elsewhere.
LEMMA Mula ==
  ASSUME NEW op \in Word, Class0(op), Bit(op, 7), Bit(op, 4), ~Bit(op, 6), ~Bit(op, 5),
         ~Bit(op, 24), ~Bit(op, 23), NEW c, Context(c, op), DataRegs(c),
         NEW d, d = decode_00000_mula(c)
  PROVE  Decoded(d, op)
<1> DEFINE e == [c EXCEPT !.rs = decode_reg(c.op, 8), !.rn = decode_reg(c.op, 12),
                          !.rd = decode_reg(c.op, 16)]
           s == SBit(e)
<1>1. d = IF Bit(op, 22) THEN Inst(c, "UD", "")
          ELSE IF Bit(op, 21) THEN Inst(s, "MLA", "R")
          ELSE IF s.rn # 0 THEN Inst(s, "UNKNOWN", "") ELSE Inst(s, "MUL", "R")
  BY Zenon DEF decode_00000_mula, inst_ud, inst_unknown, Context
<1>2. /\ Context(e, op) /\ e.rs = Bits(op, 8, 4) /\ e.rn = Bits(op, 12, 4)
      /\ e.rd = Bits(op, 16, 4) /\ e.rm = Bits(op, 0, 4)
  BY SMT DEF Context, IsContext, DataRegs, decode_reg
<1> HIDE DEF e
<1>3. Context(s, op) /\ Operands(s, e) BY Zenon, <1>2, SBits
<1>4. /\ s.rs = Bits(op, 8, 4) /\ s.rn = Bits(op, 12, 4)
      /\ s.rd = Bits(op, 16, 4) /\ s.rm = Bits(op, 0, 4)
  BY Zenon, <1>2, <1>3 DEF Operands
<1> HIDE DEF s
<1>5. CASE Bit(op, 22)
  <2>1. Encoding(op) = "UD" BY ZenonT(30), <1>5, Encodings DEF Class0
  <2>2. d = Inst(c, "UD", "") BY Zenon, <1>1, <1>5
  <2> QED BY Zenon, <2>1, <2>2, Reject DEF Undefined
<1>6. ASSUME NEW name \in {"MUL", "MLA"}, d = Inst(s, name, "R"), Encoding(op) = name,
             Regular(op), Architecture(op) = <<name, "R">>
      PROVE  Decoded(d, op)
  <2>1. IsContext(d) /\ Operands(d, s) /\ Is(d.inst, name, "R")
    BY Zenon, <1>3, <1>6, Insts DEF Context
  <2>2. Context(d, op) BY Zenon, <1>3, <2>1 DEF Context, Operands
  <2>3. /\ d.rs = Bits(op, 8, 4) /\ d.rn = Bits(op, 12, 4)
        /\ d.rd = Bits(op, 16, 4) /\ d.rm = Bits(op, 0, 4)
    BY Zenon, <1>4, <2>1 DEF Operands
  <2>4. d.rs \in Nat /\ d.rn \in Nat /\ d.rd \in Nat /\ d.rm \in Nat BY SMT, <2>3, Ranges
  <2>5. d.inst[1] \in Multiplies BY Zenon, <2>1 DEF Is, Multiplies
  <2>6. Shown(d) BY Zenon, <2>4, <2>5, ShownMultiply
  <2>7. d.op = op BY Zenon, <2>2 DEF Context
  <2>8. Encoding(op) = "MLA" \/ (Encoding(op) = "MUL" /\ d.inst[1] = "MUL")
    <3>1. name = "MUL" \/ name = "MLA" OBVIOUS
    <3> QED BY Zenon, <1>6, <2>1, <3>1 DEF Is
  <2>9. Named(d) BY Zenon, <2>3, <2>7, <2>8, NamedMultiply
  <2>10. Encoding(op) \notin Undefined BY SMT, <2>8 DEF Undefined
  <2>11. d.inst = Architecture(op) BY Zenon, <1>6, <2>1 DEF Is
  <2>12. Agrees(d) BY Zenon, <1>6, <2>7, <2>9, <2>10, <2>11, AgreeOperation
  <2> QED BY Zenon, <2>2, <2>6, <2>12 DEF Decoded
<1>7. CASE ~Bit(op, 22) /\ Bit(op, 21)
  <2>1. Encoding(op) = "MLA" BY ZenonT(30), <1>7, Encodings DEF Class0
  <2>2. d = Inst(s, "MLA", "R") BY Zenon, <1>1, <1>7
  <2>3. Regular(op) BY Zenon, <2>1, FixedRegular
  <2>4. Architecture(op) = <<"MLA", "R">> BY Zenon, <2>1, Architectures
  <2> QED BY Zenon, <1>6, <2>1, <2>2, <2>3, <2>4
<1>8. CASE ~Bit(op, 22) /\ ~Bit(op, 21)
  <2>1. Encoding(op) = "MUL" BY ZenonT(30), <1>8, Encodings DEF Class0
  <2>2. Regular(op) <=> s.rn = 0 BY Zenon, <1>4, <2>1, FixedRegular
  <2>3. CASE s.rn # 0
    <3>1. d = Inst(s, "UNKNOWN", "") BY Zenon, <1>1, <1>8, <2>3
    <3> QED BY Zenon, <1>3, <2>2, <2>3, <3>1, Reject
  <2>4. CASE s.rn = 0
    <3>1. d = Inst(s, "MUL", "R") BY Zenon, <1>1, <1>8, <2>4
    <3>2. Architecture(op) = <<"MUL", "R">> BY Zenon, <2>1, Architectures
    <3> QED BY Zenon, <1>6, <2>1, <2>2, <2>4, <3>1, <3>2
  <2> QED BY <2>3, <2>4
<1> QED BY Zenon, <1>5, <1>7, <1>8

\* An operation that names registers where the data operations have them.
LEMMA RegistersResult ==
  ASSUME NEW op \in Word, NEW c, Context(c, op), DataRegs(c), NEW name, NEW form,
         NEW d, d = Inst(c, name, form), Encoding(op) \in Plain,
         Architecture(op) = <<name, form>>,
         name \in RegisterForms \/ (name \in Multiplies /\ c.rs = Bits(op, 8, 4))
  PROVE  Decoded(d, op)
<1>1. IsContext(d) /\ Operands(d, c) /\ Is(d.inst, name, form) BY Zenon, Insts DEF Context
<1>2. Context(d, op) BY Zenon, <1>1 DEF Context, Operands
<1>3. DataRegs(d) BY Zenon, <1>1 DEF DataRegs, Operands
<1>4. d.rn \in Nat /\ d.rd \in Nat /\ d.rm \in Nat BY Zenon, <1>2, <1>3, DataRegsNat DEF Context
<1>5. d.inst[1] = name /\ d.inst = Architecture(op) BY Zenon, <1>1 DEF Is
<1>6. "MLA" \notin Plain /\ "MUL" \notin Plain BY DEF Plain
<1>7. Encoding(d.op) \notin {"MUL", "MLA"} BY Zenon, <1>2, <1>6 DEF Context
<1>8. Encoding(op) \notin Undefined /\ Regular(op) BY Zenon, PlainRegular
<1>9. CASE name \in RegisterForms
  <2>1. Shown(d) BY Zenon, <1>4, <1>5, <1>9, ShownRegisters
  <2>2. "rs" \notin Formats(d.inst)
    <3>1. name \in {"SWP", "SWPB"} => Formats(d.inst) = {"rd", "rm", "rn"}
      BY Zenon, <1>5, FormatsOfOthers
    <3>2. name \in {"BX", "BLX"} => Formats(d.inst) = {"rm"} BY Zenon, <1>5, FormatsOfOthers
    <3>3. name = "CLZ" => Formats(d.inst) = {"rd", "rm"} BY Zenon, <1>5, FormatsOfOthers
    <3>4. name = "MRS" => Formats(d.inst) = {"rd"} BY Zenon, <1>5, FormatsOfOthers
    <3>5. name = "MSR_R" => Formats(d.inst) = {"rn", "rm"} BY Zenon, <1>5, FormatsOfOthers
    <3> QED BY SMT, <1>9, <3>1, <3>2, <3>3, <3>4, <3>5 DEF RegisterForms
  <2>3. Named(d) BY Zenon, <1>3, <1>7, <2>2, NamedRegisters
  <2>4. Agrees(d) BY Zenon, <1>2, <1>5, <1>8, <2>3, AgreeOperation DEF Context
  <2> QED BY Zenon, <1>2, <2>1, <2>4 DEF Decoded
<1>10. CASE name \in Multiplies /\ c.rs = Bits(op, 8, 4)
  <2>1. d.rs = Bits(op, 8, 4) BY Zenon, <1>1, <1>10 DEF Operands
  <2>2. d.rs \in Nat BY SMT, <2>1, Ranges
  <2>3. Shown(d) BY Zenon, <1>4, <1>5, <1>10, <2>2, ShownMultiply
  <2>4. d.rs = Bits(d.op, 8, 4) BY Zenon, <1>2, <2>1 DEF Context
  <2>5. Named(d) BY Zenon, <1>3, <1>7, <2>4, NamedRegisters
  <2>6. Agrees(d) BY Zenon, <1>2, <1>5, <1>8, <2>5, AgreeOperation DEF Context
  <2> QED BY Zenon, <1>2, <2>3, <2>6 DEF Decoded
<1> QED BY <1>9, <1>10

\* decode_00001_mulal: the long multiplications.
LEMMA Mulal ==
  ASSUME NEW op \in Word, Class0(op), Bit(op, 7), Bit(op, 4), ~Bit(op, 6), ~Bit(op, 5),
         ~Bit(op, 24), Bit(op, 23), NEW c, Context(c, op), DataRegs(c),
         NEW d, d = decode_00001_mulal(c)
  PROVE  Decoded(d, op)
<1> DEFINE e == [c EXCEPT !.rs = decode_reg(c.op, 8)]
           s == SBit(e)
           table == <<"UMULL", "UMLAL", "SMULL", "SMLAL">>
           k == Bits(op, 21, 2)
           name == table[k + 1]
<1>1. d = Inst(s, name, "") BY Zenon DEF decode_00001_mulal, Context
<1>2. Context(e, op) /\ DataRegs(e) /\ e.rs = Bits(op, 8, 4)
  BY SMT DEF Context, IsContext, DataRegs, decode_reg
<1> HIDE DEF e
<1>3. Context(s, op) /\ Operands(s, e) BY Zenon, <1>2, SBits
<1>4. DataRegs(s) /\ s.rs = Bits(op, 8, 4) BY Zenon, <1>2, <1>3 DEF DataRegs, Operands
<1> HIDE DEF s
<1>5. Encoding(op) = "MULL" BY ZenonT(30), Encodings DEF Class0
<1>6. "MULL" \in Plain BY DEF Plain
<1>7. Architecture(op) = <<name, "">> BY Zenon, <1>5, Architectures
<1>8. name \in Multiplies
  <2>1. k \in 0 .. 3 BY SMT, Ranges
  <2>2. /\ table[1] \in Multiplies /\ table[2] \in Multiplies
        /\ table[3] \in Multiplies /\ table[4] \in Multiplies
    BY SMT DEF Multiplies
  <2> HIDE DEF k, table
  <2>3. k + 1 = 1 \/ k + 1 = 2 \/ k + 1 = 3 \/ k + 1 = 4 BY SMT, <2>1
  <2> QED BY Zenon, <2>2, <2>3
<1> HIDE DEF name
<1> QED BY Zenon, <1>1, <1>3, <1>4, <1>5, <1>6, <1>7, <1>8, RegistersResult

\* decode_00010_swap: SWP and SWPB.
LEMMA Swap ==
  ASSUME NEW op \in Word, Class0(op), Bit(op, 7), Bit(op, 4), ~Bit(op, 6), ~Bit(op, 5),
         Bit(op, 24), ~Bit(op, 23), NEW c, Context(c, op), DataRegs(c),
         NEW d, d = decode_00010_swap(c)
  PROVE  Decoded(d, op)
<1> DEFINE k == Bits(op, 20, 3)
<1>1. /\ k = 0 <=> ~Bit(op, 22) /\ ~Bit(op, 21) /\ ~Bit(op, 20)
      /\ k = 4 <=> Bit(op, 22) /\ ~Bit(op, 21) /\ ~Bit(op, 20)
  BY Zenon, FieldBits
<1>2. d = CASE k = 0 -> Inst(c, "SWP", "") [] k = 4 -> Inst(c, "SWPB", "")
            [] k \notin {0, 4} -> Inst(c, "UD", "")
  BY Zenon DEF decode_00010_swap, inst_ud, Context
<1>3. 0 # 4 OBVIOUS
<1> HIDE DEF k
<1>4. "SWP" \in Plain /\ "SWPB" \in Plain /\ "SWP" \in RegisterForms /\ "SWPB" \in RegisterForms
  BY DEF Plain, RegisterForms
<1>5. CASE k = 0
  <2>1. d = Inst(c, "SWP", "") BY Zenon, <1>2, <1>3, <1>5
  <2>2. Encoding(op) = "SWP" BY ZenonT(30), <1>1, <1>5, Encodings DEF Class0
  <2>3. Architecture(op) = <<"SWP", "">> BY Zenon, <2>2, Architectures
  <2> QED BY Zenon, <1>4, <2>1, <2>2, <2>3, RegistersResult
<1>6. CASE k = 4
  <2>1. d = Inst(c, "SWPB", "") BY Zenon, <1>2, <1>3, <1>6
  <2>2. Encoding(op) = "SWPB" BY ZenonT(30), <1>1, <1>6, Encodings DEF Class0
  <2>3. Architecture(op) = <<"SWPB", "">> BY Zenon, <2>2, Architectures
  <2> QED BY Zenon, <1>4, <2>1, <2>2, <2>3, RegistersResult
<1>7. CASE k # 0 /\ k # 4
  <2>1. d = Inst(c, "UD", "") BY Zenon, <1>2, <1>7
  <2>2. Bit(op, 21) \/ Bit(op, 20) BY Zenon, <1>1, <1>7
  <2>3. Encoding(op) = "UD" BY ZenonT(30), <2>2, Encodings DEF Class0
  <2> QED BY Zenon, <2>1, <2>3, Reject DEF Undefined
<1> QED BY <1>5, <1>6, <1>7

\* decode_000_mulswap chooses among the three.
LEMMA Mulswap ==
  ASSUME NEW op \in Word, Class0(op), Bit(op, 7), Bit(op, 4), ~Bit(op, 6), ~Bit(op, 5),
         NEW c, Context(c, op), DataRegs(c), NEW d, d = decode_000_mulswap(c)
  PROVE  Decoded(d, op)
<1> DEFINE k == Bits(op, 23, 2)
<1>1. /\ k = 0 <=> ~Bit(op, 24) /\ ~Bit(op, 23)
      /\ k = 1 <=> ~Bit(op, 24) /\ Bit(op, 23)
      /\ k = 2 <=> Bit(op, 24) /\ ~Bit(op, 23)
      /\ k = 3 <=> Bit(op, 24) /\ Bit(op, 23)
  BY Zenon, FieldBits
<1>2. d = CASE k = 0 -> decode_00000_mula(c) [] k = 1 -> decode_00001_mulal(c)
            [] k = 2 -> decode_00010_swap(c) [] k = 3 -> Inst(c, "UD", "")
  BY Zenon DEF decode_000_mulswap, inst_ud, Context
<1> HIDE DEF k
<1>3. CASE k = 0
  <2>1. d = decode_00000_mula(c) BY Zenon, <1>1, <1>2, <1>3
  <2> QED BY Zenon, <1>1, <1>3, <2>1, Mula
<1>4. CASE k = 1
  <2>1. d = decode_00001_mulal(c) BY Zenon, <1>1, <1>2, <1>4
  <2> QED BY Zenon, <1>1, <1>4, <2>1, Mulal
<1>5. CASE k = 2
  <2>1. d = decode_00010_swap(c) BY Zenon, <1>1, <1>2, <1>5
  <2> QED BY Zenon, <1>1, <1>5, <2>1, Swap
<1>6. CASE k = 3
  <2>1. d = Inst(c, "UD", "") BY Zenon, <1>1, <1>2, <1>6
  <2>2. Encoding(op) = "UD" BY ZenonT(30), <1>1, <1>6, Encodings DEF Class0
  <2> QED BY Zenon, <2>1, <2>2, Reject DEF Undefined
<1> QED BY Zenon, <1>1, <1>3, <1>4, <1>5, <1>6

------------------------------------------------------------------------------
\* Halfwords, signed bytes and doublewords.
LEMMA Extra ==
  ASSUME NEW op \in Word, Class0(op), Bit(op, 7), Bit(op, 4),
         NEW c, Context(c, op), DataRegs(c), NEW d, d = decode_000_mul_extraloadstore(c)
  PROVE  Decoded(d, op)
<1> DEFINE imm == 16 * Bits(c.op, 8, 4) + c.rm
           k == Bits(c.op, 5, 2)
           ext == ExtendModes[k + 1]
           e == [c EXCEPT !.imm = IF Bit(c.op, 23) THEN imm ELSE -imm,
                          !.u = @ \/ Bit(c.op, 23), !.ext = ext]
           z == [e EXCEPT !.imm = 0, !.shift = "LSL"]
           name == IF Bit(op, 20) THEN "LDRX" ELSE "STRX"
<1>1. d = CASE ext = "INVALID" -> decode_000_mulswap(e)
            [] ext = "SB" /\ ~Bit(op, 20) -> inst_ldrd(e)
            [] ext # "INVALID" /\ (ext = "SB" => Bit(op, 20)) ->
                 IF Bit(op, 22) THEN Indexed(e, name, "I") ELSE Indexed(z, name, "R")
  BY Zenon DEF decode_000_mul_extraloadstore, Context
<1>2. imm \in Nat
  <2>1. Bits(op, 8, 4) \in Nat /\ Bits(op, 0, 4) \in Nat BY SMT, Ranges
  <2>2. c.op = op /\ c.rm = Bits(op, 0, 4) BY Zenon DEF Context, DataRegs
  <2> QED BY SMT, <2>1, <2>2
<1>3. imm < 256
  <2>1. Bits(op, 8, 4) \in 0 .. 15 /\ Bits(op, 0, 4) \in 0 .. 15 BY SMT, Ranges
  <2>2. c.op = op /\ c.rm = Bits(op, 0, 4) BY Zenon DEF Context, DataRegs
  <2> QED BY SMT, <2>1, <2>2
<1>4. /\ k = 0 <=> ~Bit(op, 6) /\ ~Bit(op, 5)
      /\ k = 1 <=> ~Bit(op, 6) /\ Bit(op, 5)
      /\ k = 2 <=> Bit(op, 6) /\ ~Bit(op, 5)
      /\ k = 3 <=> Bit(op, 6) /\ Bit(op, 5)
  BY Zenon, FieldBits DEF Context
<1>5. /\ k = 0 => ext = "INVALID"
      /\ k = 1 => ext = "H"
      /\ k = 2 => ext = "SB"
      /\ k = 3 => ext = "SH"
  <2> HIDE DEF k
  <2>1. k = 0 => ext = "INVALID" BY SMT DEF ExtendModes
  <2>2. k = 1 => ext = "H" BY SMT DEF ExtendModes
  <2>3. k = 2 => ext = "SB" BY SMT DEF ExtendModes
  <2>4. k = 3 => ext = "SH" BY SMT DEF ExtendModes
  <2> QED BY Zenon, <2>1, <2>2, <2>3, <2>4
<1> HIDE DEF imm, ext, k
<1>6. Context(e, op) /\ DataRegs(e) /\ e.ext = ext
  BY SMT DEF Context, IsContext, DataRegs
<1>7. e.imm = imm \/ e.imm = -imm BY SMT DEF Context, IsContext
<1>8. e.imm \in Int /\ e.imm >= Floor BY SMT, <1>2, <1>3, <1>7 DEF Floor
<1> HIDE DEF e
<1>9. Context(z, op) /\ DataRegs(z) /\ z.ext = ext
  BY SMT, <1>6 DEF Context, IsContext, DataRegs
<1> HIDE DEF z
<1>10. "INVALID" # "H" /\ "INVALID" # "SB" /\ "INVALID" # "SH" /\ "SB" # "H" /\ "SB" # "SH"
  OBVIOUS
<1>11. /\ "LDRD" \in Plain /\ "LDRX" \in Plain /\ "STRX" \in Plain
       /\ "MUL" \notin Plain /\ "MLA" \notin Plain
  BY DEF Plain
<1>12. CASE k = 0
  <2>1. d = decode_000_mulswap(e) BY Zenon, <1>1, <1>5, <1>10, <1>12
  <2> QED BY Zenon, <1>4, <1>6, <1>12, <2>1, Mulswap
<1>13. CASE k = 2 /\ ~Bit(op, 20)
  <2> DEFINE form == IF Bit(op, 22) THEN "RI" ELSE "R"
  <2>1. d = Indexed(e, "LDRD", form)
    BY Zenon, <1>1, <1>5, <1>6, <1>10, <1>13 DEF inst_ldrd, Context
  <2>2. Context(d, op) /\ Operands(d, e) /\ Is3(d.inst, "LDRD", form, Index(op))
    BY Zenon, <1>6, <2>1, IndexedInsts
  <2>3. DataRegs(d) /\ d.imm = e.imm BY Zenon, <1>6, <2>2 DEF DataRegs, Operands
  <2>4. d.rn \in Nat /\ d.rd \in Nat BY Zenon, <2>2, <2>3, DataRegsNat DEF Context
  <2>5. Fresh(d, "imm") BY Zenon, <1>8, <2>3, FreshFields
  <2>6. Shown(d) BY Zenon, <2>2, <2>4, <2>5, ShownLdrd DEF Is3
  <2>7. Encoding(op) = "LDRD" BY ZenonT(30), <1>4, <1>13, Encodings DEF Class0
  <2>8. d.inst = Architecture(op) BY Zenon, <2>2, <2>7, Architectures DEF Is3
  <2>9. "rs" \notin Formats(d.inst)
    <3>1. Formats(d.inst) \subseteq {"rd", "rn", "imm"} BY Zenon, <2>2, FormatsOfOthers DEF Is3
    <3> QED BY SMT, <3>1
  <2>10. Encoding(d.op) \notin {"MUL", "MLA"} BY Zenon, <1>11, <2>2, <2>7 DEF Context
  <2>11. Named(d) BY Zenon, <2>3, <2>9, <2>10, NamedRegisters
  <2>12. Agrees(d) BY Zenon, <1>11, <2>2, <2>7, <2>8, <2>11, PlainRegular, AgreeOperation DEF Context
  <2> QED BY Zenon, <2>2, <2>6, <2>12 DEF Decoded
<1>14. CASE k = 1 \/ k = 3 \/ (k = 2 /\ Bit(op, 20))
  <2>1. ext \in {"H", "SB", "SH"} BY Zenon, <1>5, <1>14
  <2>2. d = IF Bit(op, 22) THEN Indexed(e, name, "I") ELSE Indexed(z, name, "R")
    BY Zenon, <1>1, <1>5, <1>10, <1>14
  <2> DEFINE form == IF Bit(op, 22) THEN "I" ELSE "R"
  <2> HIDE DEF name
  <2>3. /\ Context(d, op) /\ Is3(d.inst, name, form, Index(op)) /\ DataRegs(d) /\ d.ext = ext
        /\ Fresh(d, "imm") \/ form = "R"
    <3>1. CASE Bit(op, 22)
      <4>1. Context(d, op) /\ Operands(d, e) /\ Is3(d.inst, name, "I", Index(op))
        BY Zenon, <1>6, <2>2, <3>1, IndexedInsts
      <4>2. DataRegs(d) /\ d.imm = e.imm /\ d.ext = ext BY Zenon, <1>6, <4>1 DEF DataRegs, Operands
      <4>3. Fresh(d, "imm") BY Zenon, <1>8, <4>2, FreshFields
      <4> QED BY Zenon, <3>1, <4>1, <4>2, <4>3
    <3>2. CASE ~Bit(op, 22)
      <4>1. Context(d, op) /\ Operands(d, z) /\ Is3(d.inst, name, "R", Index(op))
        BY Zenon, <1>9, <2>2, <3>2, IndexedInsts
      <4>2. DataRegs(d) /\ d.ext = ext BY Zenon, <1>9, <4>1 DEF DataRegs, Operands
      <4> QED BY Zenon, <3>2, <4>1, <4>2
    <3> QED BY <3>1, <3>2
  <2>4. d.rn \in Nat /\ d.rd \in Nat /\ d.rm \in Nat BY Zenon, <2>3, DataRegsNat DEF Context
  <2>5. d.ext # ""
    <3>1. ext # "" BY Zenon, <2>1
    <3> QED BY Zenon, <2>3, <3>1
  <2>6. form \in DataForms /\ form # "RR" BY DEF DataForms
  <2>7. name \in Extras BY DEF name, Extras
  <2>8. d.inst[1] \in Extras /\ d.inst[2] = form BY Zenon, <2>3, <2>7 DEF Is3
  <2> HIDE DEF form
  <2>9. Shown(d) BY Zenon, <2>3, <2>4, <2>5, <2>6, <2>8, ShownExtra
  <2>10. CASE ~Bit(op, 20) /\ k = 3
    <3>1. Encoding(op) = "STRD" BY ZenonT(30), <1>4, <2>10, Encodings DEF Class0
    <3>2. Agrees(d) BY Zenon, <2>3, <3>1 DEF Agrees, Misread, Context
    <3> QED BY Zenon, <2>3, <2>9, <3>2 DEF Decoded
  <2>11. CASE Bit(op, 20) \/ k # 3
    <3>1. Encoding(op) = name
      <4>1. CASE Bit(op, 20)
        <5>1. Bit(op, 6) \/ Bit(op, 5) BY Zenon, <1>4, <1>14
        <5>2. Encoding(op) = "LDRX" BY ZenonT(30), <4>1, <5>1, Encodings DEF Class0
        <5> QED BY Zenon, <4>1, <5>2 DEF name
      <4>2. CASE ~Bit(op, 20)
        <5>1. ~Bit(op, 6) /\ Bit(op, 5) BY Zenon, <1>4, <1>14, <2>11, <4>2
        <5>2. Encoding(op) = "STRX" BY ZenonT(30), <4>2, <5>1, Encodings DEF Class0
        <5> QED BY Zenon, <4>2, <5>2 DEF name
      <4> QED BY <4>1, <4>2
    <3>2. Encoding(op) \in Plain BY Zenon, <1>11, <3>1 DEF name
    <3>3. Architecture(op) = <<name, form, Index(op)>>
      <4>1. Encoding(op) = "LDRX" \/ Encoding(op) = "STRX" BY Zenon, <3>1 DEF name
      <4>2. Architecture(op) = <<Encoding(op), form, Index(op)>>
        BY Zenon, <4>1, Architectures DEF form
      <4> QED BY Zenon, <3>1, <4>2
    <3>4. d.inst = Architecture(op) BY Zenon, <2>3, <3>3 DEF Is3
    <3>5. "rs" \notin Formats(d.inst)
      <4>1. form = "I" \/ form = "R" BY DEF form
      <4>2. \/ Formats(d.inst) = {"rd", "rn", "ext", "rm"}
            \/ Formats(d.inst) = {"rd", "rn", "ext", "imm"}
        BY Zenon, <2>8, <4>1, FormatsOfOthers DEF Extras
      <4> QED BY SMT, <4>2
    <3>6. Encoding(d.op) \notin {"MUL", "MLA"} BY Zenon, <1>11, <2>3, <3>2 DEF Context
    <3>7. Named(d) BY Zenon, <2>3, <3>5, <3>6, NamedRegisters
    <3>8. Agrees(d) BY Zenon, <2>3, <3>2, <3>4, <3>7, PlainRegular, AgreeOperation DEF Context
    <3> QED BY Zenon, <2>3, <2>9, <3>8 DEF Decoded
  <2> QED BY Zenon, <2>10, <2>11
<1> QED BY Zenon, <1>4, <1>12, <1>13, <1>14

\* decode_000_data_reg: every word whose bits 27 to 25 are 0.
LEMMA DataRegister ==
  ASSUME NEW op \in Word, Class0(op), NEW c, Context(c, op), NEW d, d = decode_000_data_reg(c)
  PROVE  Decoded(d, op)
<1> DEFINE e == [c EXCEPT !.rn = decode_reg(c.op, 16), !.rd = decode_reg(c.op, 12),
                          !.rm = decode_reg(c.op, 0)]
<1>1. Context(e, op) /\ DataRegs(e) BY SMT DEF Context, IsContext, DataRegs, decode_reg
<1>2. d = IF Bit(op, 4) THEN decode_000_regs(e) ELSE decode_000_imms(e)
  BY Zenon DEF decode_000_data_reg, Context
<1> HIDE DEF e
<1>3. CASE ~Bit(op, 4) BY Zenon, <1>1, <1>2, <1>3, ImmediateShift
<1>4. CASE Bit(op, 4) /\ ~Bit(op, 7) BY Zenon, <1>1, <1>2, <1>4, RegisterShift
<1>5. CASE Bit(op, 4) /\ Bit(op, 7)
  <2>1. d = decode_000_mul_extraloadstore(e)
    BY Zenon, <1>1, <1>2, <1>5 DEF decode_000_regs, Context
  <2> QED BY Zenon, <1>1, <1>5, <2>1, Extra
<1> QED BY <1>3, <1>4, <1>5

\* Words without a condition: PLD.
LEMMA Unconditional ==
  ASSUME NEW op \in Word, NEW c, Context(c, op), c.cond = NV, NEW d, d = decode_instruction_NV(c)
  PROVE  Decoded(d, op)
<1> DEFINE e == decode_addressingmode2(c)
           form == IF Bit(op, 25) THEN "I" ELSE "R"
<1>1. \/ d = Inst(c, "UD", "") \/ d = Inst(e, "UD", "") \/ d = Inst(e, "PLD", form)
  BY Zenon DEF decode_instruction_NV, inst_ud, Context
<1>2. /\ Context(e, op) /\ e.rn = Bits(op, 16, 4) /\ e.rd = Bits(op, 12, 4)
      /\ e.imm \in Int /\ e.imm >= Floor
  BY Zenon, AddressingMode2
<1> HIDE DEF e, form
<1>3. Context(d, op) /\ Shown(d)
  <2>1. ASSUME NEW f, Context(f, op), d = Inst(f, "UD", "") PROVE Context(d, op) /\ Shown(d)
    <3>1. IsContext(d) /\ Operands(d, f) /\ Is(d.inst, "UD", "") BY Zenon, <2>1, Insts DEF Context
    <3>2. d.inst[1] \in Nothing BY Zenon, <3>1 DEF Is, Nothing
    <3>3. Context(d, op) BY Zenon, <2>1, <3>1 DEF Context, Operands
    <3> QED BY Zenon, <3>2, <3>3, ShownNothing
  <2>2. CASE d = Inst(e, "PLD", form)
    <3>1. IsContext(d) /\ Operands(d, e) /\ Is(d.inst, "PLD", form)
      BY Zenon, <1>2, <2>2, Insts DEF Context
    <3>2. d.inst[1] \in BasedImmediates BY Zenon, <3>1 DEF Is, BasedImmediates
    <3>3. d.rn = Bits(op, 16, 4) /\ d.imm = e.imm BY Zenon, <1>2, <3>1 DEF Operands
    <3>4. d.rn \in Nat BY SMT, <3>3, Ranges
    <3>5. Fresh(d, "imm") BY Zenon, <1>2, <3>3, FreshFields
    <3>6. Context(d, op) BY Zenon, <1>2, <3>1 DEF Context, Operands
    <3> QED BY Zenon, <3>2, <3>4, <3>5, <3>6, ShownBased
  <2> QED BY Zenon, <1>1, <1>2, <2>1, <2>2
<1>4. d.cond = NV BY Zenon, <1>3 DEF Context
<1> QED BY Zenon, <1>3, <1>4 DEF Decoded, Agrees

\* An operation of which no register, or the base register only, is shown.
LEMMA OthersAgree ==
  ASSUME NEW op \in Word, NEW d, Context(d, op), Encoding(op) \in Plain,
         d.inst = Architecture(op),
         \/ d.inst[1] \in Immediates
         \/ d.inst[1] \in Multiples /\ d.rn = Bits(op, 16, 4)
         \/ d.inst[1] \in Coprocs /\ DataRegs(d)
  PROVE  Agrees(d)
<1>1. Encoding(op) \notin Undefined /\ Regular(op) BY Zenon, PlainRegular
<1>2. "MLA" \notin Plain /\ "MUL" \notin Plain BY DEF Plain
<1>3. d.op = op /\ Encoding(d.op) \notin {"MUL", "MLA"} BY Zenon, <1>2 DEF Context
<1>4. Named(d)
  <2>1. CASE d.inst[1] \in Immediates BY Zenon, <2>1, NamedNone
  <2>2. CASE d.inst[1] \in Multiples /\ d.rn = Bits(op, 16, 4)
    <3>1. Formats(d.inst) = {"mode", "rn", "imm"} BY Zenon, <2>2, FormatsOfOthers DEF Multiples
    <3> QED BY Zenon, <1>3, <2>2, <3>1, NamedBase
  <2>3. CASE d.inst[1] \in Coprocs /\ DataRegs(d)
    <3>1. Formats(d.inst) = {"cp_num", "cp_op1", "rd", "rn", "rm", "cp_op2"}
      BY Zenon, <2>3, FormatsOfOthers DEF Coprocs
    <3>2. "rs" \notin Formats(d.inst) BY SMT, <3>1
    <3> QED BY Zenon, <1>3, <2>3, <3>2, NamedRegisters
  <2> QED BY <2>1, <2>2, <2>3
<1> QED BY Zenon, <1>1, <1>3, <1>4, AgreeOperation

\* decode_instruction: every word with a condition.
LEMMA Conditional ==
  ASSUME NEW op \in Word, NEW c, Context(c, op), c.cond # NV, NEW d, d = decode_instruction(c)
  PROVE  Decoded(d, op)
<1> DEFINE k == Bits(op, 25, 3)
<1>1. /\ k = 0 <=> ~Bit(op, 27) /\ ~Bit(op, 26) /\ ~Bit(op, 25)
      /\ k = 1 <=> ~Bit(op, 27) /\ ~Bit(op, 26) /\ Bit(op, 25)
      /\ k = 2 <=> ~Bit(op, 27) /\ Bit(op, 26) /\ ~Bit(op, 25)
      /\ k = 3 <=> ~Bit(op, 27) /\ Bit(op, 26) /\ Bit(op, 25)
      /\ k = 4 <=> Bit(op, 27) /\ ~Bit(op, 26) /\ ~Bit(op, 25)
      /\ k = 5 <=> Bit(op, 27) /\ ~Bit(op, 26) /\ Bit(op, 25)
      /\ k = 6 <=> Bit(op, 27) /\ Bit(op, 26) /\ ~Bit(op, 25)
      /\ k = 7 <=> Bit(op, 27) /\ Bit(op, 26) /\ Bit(op, 25)
  BY Zenon, FieldBits
<1>2. d = CASE k = 0 -> decode_000_data_reg(c)
            [] k = 1 -> decode_001_data_imm(c)
            [] k = 2 -> decode_010_loadstore_imm(c)
            [] k = 3 -> decode_011_loadstore_reg(c)
            [] k = 4 -> decode_100_loadstoremultiple(c)
            [] k = 5 -> decode_101_branch(c)
            [] k = 6 -> Inst(c, "UD", "")
            [] k = 7 -> IF Bit(op, 24) THEN decode_swi(c) ELSE decode_coproc(c)
  BY Zenon DEF decode_instruction, inst_ud, Context
<1> HIDE DEF k
<1>3. CASE k = 0
  <2>1. d = decode_000_data_reg(c) BY Zenon, <1>1, <1>2, <1>3
  <2> QED BY Zenon, <1>1, <1>3, <2>1, DataRegister DEF Class0
<1>4. CASE k = 1
  <2>1. d = decode_001_data_imm(c) BY Zenon, <1>1, <1>2, <1>4
  <2> QED BY Zenon, <1>1, <1>4, <2>1, DataImmediate DEF Class1
<1>5. CASE k = 2
  <2>1. d = decode_010_loadstore_imm(c) BY Zenon, <1>1, <1>2, <1>5
  <2> QED BY Zenon, <1>1, <1>5, <2>1, TransferImmediate
<1>6. CASE k = 3
  <2>1. d = decode_011_loadstore_reg(c) BY Zenon, <1>1, <1>2, <1>6
  <2> QED BY Zenon, <1>1, <1>6, <2>1, TransferRegister
<1>7. CASE k = 4
  <2> DEFINE name == IF Bit(op, 20) THEN "LDM" ELSE "STM"
             form == IF Bit(op, 21) THEN "W" ELSE ""
  <2>1. d = decode_100_loadstoremultiple(c) BY Zenon, <1>1, <1>2, <1>7
  <2>2. Context(d, op) /\ Shown(d) /\ d.rn = Bits(op, 16, 4) /\ Is(d.inst, name, form)
    BY Zenon, <2>1, Multiple
  <2>3. Encoding(op) = name BY ZenonT(30), <1>1, <1>7, Encodings
  <2>4. Encoding(op) = "LDM" \/ Encoding(op) = "STM" BY Zenon, <2>3
  <2>5. "LDM" \in Plain /\ "STM" \in Plain BY DEF Plain
  <2>6. Architecture(op) = <<Encoding(op), form>> BY Zenon, <2>4, Architectures
  <2>7. d.inst = Architecture(op) BY Zenon, <2>2, <2>3, <2>6 DEF Is
  <2>8. d.inst[1] \in Multiples BY Zenon, <2>2 DEF Is, Multiples
  <2>9. Agrees(d) BY Zenon, <2>2, <2>4, <2>5, <2>7, <2>8, OthersAgree
  <2> QED BY Zenon, <2>2, <2>9 DEF Decoded
<1>8. CASE k = 5
  <2> DEFINE name == IF Bit(op, 24) THEN "BL" ELSE "B"
  <2>1. d = decode_101_branch(c) BY Zenon, <1>1, <1>2, <1>8
  <2>2. Context(d, op) /\ Shown(d) /\ Is(d.inst, name, "") BY Zenon, <2>1, Branch
  <2>3. Encoding(op) = name BY ZenonT(30), <1>1, <1>8, Encodings
  <2>4. Encoding(op) = "BL" \/ Encoding(op) = "B" BY Zenon, <2>3
  <2>5. "BL" \in Plain /\ "B" \in Plain BY DEF Plain
  <2>6. Architecture(op) = <<Encoding(op), "">> BY Zenon, <2>4, Architectures
  <2>7. d.inst = Architecture(op) BY Zenon, <2>2, <2>3, <2>6 DEF Is
  <2>8. d.inst[1] \in Immediates BY Zenon, <2>2 DEF Is, Immediates
  <2>9. Agrees(d) BY Zenon, <2>2, <2>4, <2>5, <2>7, <2>8, OthersAgree
  <2> QED BY Zenon, <2>2, <2>9 DEF Decoded
<1>9. CASE k = 6
  <2>1. d = Inst(c, "UD", "") BY Zenon, <1>1, <1>2, <1>9
  <2>2. Encoding(op) = "LDC" BY ZenonT(30), <1>1, <1>9, Encodings
  <2> QED BY Zenon, <2>1, <2>2, Reject DEF Undefined
<1>10. CASE k = 7 /\ Bit(op, 24)
  <2>1. d = decode_swi(c) BY Zenon, <1>1, <1>2, <1>10
  <2>2. Context(d, op) /\ Shown(d) /\ Is(d.inst, "SWI", "") BY Zenon, <2>1, Swi
  <2>3. Encoding(op) = "SWI" BY ZenonT(30), <1>1, <1>10, Encodings
  <2>4. "SWI" \in Plain BY DEF Plain
  <2>5. Architecture(op) = <<Encoding(op), "">> BY Zenon, <2>3, Architectures
  <2>6. d.inst = Architecture(op) BY Zenon, <2>2, <2>3, <2>5 DEF Is
  <2>7. d.inst[1] \in Immediates BY Zenon, <2>2 DEF Is, Immediates
  <2>8. Agrees(d) BY Zenon, <2>2, <2>3, <2>4, <2>6, <2>7, OthersAgree
  <2> QED BY Zenon, <2>2, <2>8 DEF Decoded
<1>11. CASE k = 7 /\ ~Bit(op, 24)
  <2> DEFINE name == IF Bit(op, 20) THEN "MRC" ELSE "MCR"
  <2>1. d = decode_coproc(c) BY Zenon, <1>1, <1>2, <1>11
  <2>2. /\ Context(d, op) /\ Shown(d) /\ DataRegs(d)
        /\ Bit(op, 4) => Is(d.inst, name, "")
        /\ ~Bit(op, 4) => Is(d.inst, "UD", "")
    BY Zenon, <2>1, Coproc
  <2>3. CASE Bit(op, 4)
    <3>1. Encoding(op) = name BY ZenonT(30), <1>1, <1>11, <2>3, Encodings
    <3>2. Encoding(op) = "MRC" \/ Encoding(op) = "MCR" BY Zenon, <3>1
    <3>3. "MRC" \in Plain /\ "MCR" \in Plain BY DEF Plain
    <3>4. Architecture(op) = <<Encoding(op), "">> BY Zenon, <3>2, Architectures
    <3>5. d.inst = Architecture(op) BY Zenon, <2>2, <2>3, <3>1, <3>4 DEF Is
    <3>6. d.inst[1] \in Coprocs BY Zenon, <2>2, <2>3 DEF Is, Coprocs
    <3>7. Agrees(d) BY Zenon, <2>2, <3>2, <3>3, <3>5, <3>6, OthersAgree
    <3> QED BY Zenon, <2>2, <3>7 DEF Decoded
  <2>4. CASE ~Bit(op, 4)
    <3>1. Encoding(op) = "CDP" BY ZenonT(30), <1>1, <1>11, <2>4, Encodings
    <3>2. Agrees(d) BY Zenon, <2>2, <2>4, <3>1, AgreeRejected DEF Rejected, Undefined, Context
    <3> QED BY Zenon, <2>2, <3>2 DEF Decoded
  <2> QED BY <2>3, <2>4
<1> QED BY Zenon, <1>1, <1>3, <1>4, <1>5, <1>6, <1>7, <1>8, <1>9, <1>10, <1>11

\* A word decoded in a context that the words before have left.
LEMMA ArmDecoded ==
  ASSUME NEW op \in Word, NEW c, IsContext(c), NEW d, d = decode_arm(c, op)
  PROVE  Decoded(d, op)
<1> DEFINE e == [Cleared(c, op) EXCEPT !.cond = Bits(op, 28, 4)]
<1>1. Context(e, op) BY SMT DEF Cleared, Context, IsContext
<1>2. d = decode_instruction(e) BY Zenon DEF decode_arm
<1> HIDE DEF e
<1>3. CASE e.cond = NV
  <2>1. d = decode_instruction_NV(e) BY Zenon, <1>2, <1>3 DEF decode_instruction
  <2> QED BY Zenon, <1>1, <1>3, <2>1, Unconditional
<1>4. CASE e.cond # NV BY Zenon, <1>1, <1>2, <1>4, Conditional
<1> QED BY <1>3, <1>4

------------------------------------------------------------------------------
\* Thumb halfwords.  Inst after the operands are set.
LEMMA DataShown ==
  ASSUME NEW c, IsContext(c), NEW name \in DataNames, NEW form \in DataForms, c.rd \in Nat,
         c.rn \in Nat, form = "RR" \/ c.imm \in Nat, form = "I" \/ c.rm \in Nat,
         form = "RR" => c.rs \in Nat, NEW d, d = Inst(c, name, form)
  PROVE  Shown(d)
<1>1. Operands(d, c) /\ Is(d.inst, name, form) BY Zenon, Insts
<1>2. d.inst[1] \in DataNames /\ d.inst[2] = form BY Zenon, <1>1 DEF Is
<1>3. d.rd \in Nat /\ d.rn \in Nat BY Zenon, <1>1 DEF Operands
<1>4. form = "I" \/ d.rm \in Nat BY Zenon, <1>1 DEF Operands
<1>5. form = "RR" => d.rs \in Nat BY Zenon, <1>1 DEF Operands
<1>6. form = "RR" \/ Fresh(d, "imm")
  <2>1. form = "RR" \/ d.imm \in Nat BY Zenon, <1>1 DEF Operands
  <2> QED BY Zenon, <2>1, FreshImm
<1> QED BY Zenon, <1>2, <1>3, <1>4, <1>5, <1>6, ShownData

\* A move, which does not show rn.
LEMMA MoveShown ==
  ASSUME NEW c, IsContext(c), c.rd \in Nat, c.rm \in Nat, c.imm \in Nat,
         NEW name \in Moves, NEW d, d = Inst(c, name, "R")
  PROVE  Shown(d)
<1>1. Operands(d, c) /\ Is(d.inst, name, "R") BY Zenon, Insts
<1>2. Formats(d.inst) = {"rd", "rm", "imm"} BY Zenon, <1>1, FormatsOfShift DEF Is
<1>3. d.rd \in Nat /\ d.rm \in Nat /\ d.imm \in Nat BY Zenon, <1>1 DEF Operands
<1>4. Fresh(d, "rd") /\ Fresh(d, "rm") /\ Fresh(d, "imm") BY Zenon, <1>3, FreshFields, FreshImm
<1> QED BY Zenon, <1>2, <1>4 DEF Shown

\* An undefined halfword.
LEMMA NothingShown ==
  ASSUME NEW c, IsContext(c), NEW name \in Nothing, NEW d, d = Inst(c, name, "")
  PROVE  Shown(d)
<1>1. Is(d.inst, name, "") BY Zenon, Insts
<1>2. d.inst[1] \in Nothing BY Zenon, <1>1 DEF Is
<1> QED BY Zenon, <1>2, ShownNothing

\* A branch, a software interrupt or a breakpoint.
LEMMA ImmediateShown ==
  ASSUME NEW c, IsContext(c), NEW name \in Immediates, c.imm \in Int, c.imm >= Floor,
         NEW d, d = Inst(c, name, "")
  PROVE  Shown(d)
<1>1. Operands(d, c) /\ Is(d.inst, name, "") BY Zenon, Insts
<1>2. d.inst[1] \in Immediates BY Zenon, <1>1 DEF Is
<1>3. d.imm = c.imm BY Zenon, <1>1 DEF Operands
<1>4. Fresh(d, "imm") BY Zenon, <1>3, FreshFields
<1> QED BY Zenon, <1>2, <1>4, ShownImmediate

\* A load or store of several registers.
LEMMA MultipleShown ==
  ASSUME NEW c, IsContext(c), NEW name \in Multiples, NEW form, c.imm \in Nat, c.rn \in Nat,
         c.mode # "", NEW d, d = Inst(c, name, form)
  PROVE  Shown(d)
<1>1. Operands(d, c) /\ Is(d.inst, name, form) BY Zenon, Insts
<1>2. d.inst[1] \in Multiples BY Zenon, <1>1 DEF Is
<1>3. d.imm \in Nat /\ d.rn \in Nat /\ d.mode # "" BY Zenon, <1>1 DEF Operands
<1> QED BY Zenon, <1>2, <1>3, FreshImm, ShownMultiple

\* The names and forms that the Thumb handlers use.
LEMMA SmallNames ==
  /\ "UD" \in Nothing /\ "UNKNOWN" \in Nothing
  /\ "ADD" \in DataNames /\ "SUB" \in DataNames /\ "MOV" \in DataNames /\ "CMP" \in DataNames
  /\ "RSB" \in DataNames /\ "MVN" \in DataNames /\ "MOV" \in Moves
  /\ "STR" \in Transfers /\ "LDR" \in Transfers /\ "STRB" \in Transfers /\ "LDRB" \in Transfers
  /\ "I" \in DataForms /\ "R" \in DataForms /\ "RR" \in DataForms
  /\ "I" # "RR" /\ "R" # "RR" /\ "I" # "R"
<1>1. "UD" \in Nothing /\ "UNKNOWN" \in Nothing BY DEF Nothing
<1>2. /\ "ADD" \in DataNames /\ "SUB" \in DataNames /\ "MOV" \in DataNames
      /\ "CMP" \in DataNames /\ "RSB" \in DataNames /\ "MVN" \in DataNames /\ "MOV" \in Moves
  BY SMT DEF DataNames, Moves, Tests, Arithmetic
<1>3. "STR" \in Transfers /\ "LDR" \in Transfers /\ "STRB" \in Transfers /\ "LDRB" \in Transfers
  BY DEF Transfers
<1>4. "I" \in DataForms /\ "R" \in DataForms /\ "RR" \in DataForms BY DEF DataForms
<1>5. "I" # "RR" /\ "R" # "RR" /\ "I" # "R" OBVIOUS
<1> QED BY Zenon, <1>1, <1>2, <1>3, <1>4, <1>5

\* The fields of a halfword.
LEMMA ThumbFields ==
  ASSUME NEW op \in Word
  PROVE  /\ Bits(op, 0, 3) \in Nat /\ Bits(op, 3, 3) \in Nat /\ Bits(op, 6, 3) \in Nat
         /\ Bits(op, 8, 3) \in Nat /\ Bits(op, 3, 4) \in Nat /\ Bits(op, 6, 5) \in Nat
         /\ Bits(op, 0, 8) \in Nat /\ Bits(op, 0, 7) \in Nat /\ Bits(op, 0, 11) \in Nat
         /\ Bits(op, 7, 1) \in Nat /\ Bits(op, 11, 2) \in 0 .. 3 /\ Bits(op, 9, 3) \in 0 .. 7
         /\ Bits(op, 6, 4) \in 0 .. 15 /\ Bits(op, 8, 2) \in 0 .. 3
BY SMT, Ranges

\* The handlers of the eight classes: shifts, additions and subtractions.
LEMMA T000 ==
  ASSUME NEW op \in Word, NEW c, IsContext(c), c.op = op, NEW d, d = decode_t000(c)
  PROVE  Shown(d)
<1> DEFINE rn == Bits(op, 3, 3)
           rm == Bits(op, 6, 3)
           n == Bits(op, 6, 5)
           k == Bits(op, 11, 2)
           imm == IF k # 0 /\ n = 0 THEN 32 ELSE n
           e == [c EXCEPT !.s = TRUE, !.rd = Bits(op, 0, 3), !.rn = rn, !.imm = 0, !.shift = "LSL"]
           e1 == [e EXCEPT !.rm = rn, !.shift = Shifts[k + 1], !.imm = imm]
           e2 == [e EXCEPT !.rm = rm, !.imm = IF Bit(op, 10) THEN rm ELSE 0]
           name == IF Bit(op, 9) THEN "SUB" ELSE "ADD"
           form == IF Bit(op, 10) THEN "I" ELSE "R"
<1>1. d = IF k < 3 THEN Inst(e1, "MOV", "R") ELSE Inst(e2, name, form)
  BY Zenon DEF decode_t000, decode_regt
<1>2. Bits(op, 0, 3) \in Nat /\ rn \in Nat /\ rm \in Nat /\ n \in Nat BY Zenon, ThumbFields
<1>3. imm \in Nat BY SMT, <1>2
<1>4. IsContext(e1) /\ e1.rd \in Nat /\ e1.rn \in Nat /\ e1.rm \in Nat /\ e1.imm \in Nat
  <2> HIDE DEF imm, rn
  <2> QED BY SMT, <1>2, <1>3 DEF IsContext
<1>5. IsContext(e2) /\ e2.rd \in Nat /\ e2.rn \in Nat /\ e2.rm \in Nat /\ e2.imm \in Nat
  <2> HIDE DEF rn, rm
  <2> QED BY SMT, <1>2 DEF IsContext
<1>6. name \in DataNames /\ form \in DataForms /\ form # "RR" BY Zenon, SmallNames
<1> HIDE DEF e1, e2, k, name, form
<1>7. CASE k < 3
  <2>1. d = Inst(e1, "MOV", "R") BY Zenon, <1>1, <1>7
  <2> QED BY Zenon, <1>4, <2>1, SmallNames, MoveShown
<1>8. CASE ~(k < 3)
  <2>1. d = Inst(e2, name, form) BY Zenon, <1>1, <1>8
  <2> QED BY Zenon, <1>5, <1>6, <2>1, DataShown
<1> QED BY <1>7, <1>8

\* Moves, comparisons and additions with an immediate operand of eight bits.
LEMMA T001 ==
  ASSUME NEW op \in Word, NEW c, IsContext(c), c.op = op, NEW d, d = decode_t001(c)
  PROVE  Shown(d)
<1> DEFINE k == Bits(op, 11, 2)
           r == Bits(op, 8, 3)
           imm == Bits(op, 0, 8)
           e == [c EXCEPT !.imm = imm, !.rd = r, !.rn = r, !.s = TRUE]
           table == <<"MOV", "CMP", "ADD", "SUB">>
<1>1. d = Inst(e, table[k + 1], "I") BY Zenon DEF decode_t001, decode_regt
<1>2. r \in Nat /\ imm \in Nat /\ k \in 0 .. 3 BY Zenon, ThumbFields
<1>3. table[1] = "MOV" /\ table[2] = "CMP" /\ table[3] = "ADD" /\ table[4] = "SUB" OBVIOUS
<1> HIDE DEF k, r, imm, table
<1>4. IsContext(e) /\ e.rd \in Nat /\ e.rn \in Nat /\ e.imm \in Nat BY SMT, <1>2 DEF IsContext
<1>5. table[k + 1] \in DataNames
  <2>1. k + 1 = 1 \/ k + 1 = 2 \/ k + 1 = 3 \/ k + 1 = 4 BY SMT, <1>2
  <2> QED BY Zenon, <1>3, <2>1, SmallNames
<1> HIDE DEF e
<1> QED BY Zenon, <1>1, <1>4, <1>5, SmallNames, DataShown

\* A load or store with an immediate offset.
LEMMA LoadStoreShown ==
  ASSUME NEW c, IsContext(c), NEW name \in Transfers, NEW rd \in Nat, NEW rn \in Nat, NEW imm \in Nat,
         NEW d, d = LoadStoreAt(c, name, rd, rn, imm)
  PROVE  Shown(d)
<1> DEFINE v == <<name, "I", "P">>
<1>1. d = [c EXCEPT !.inst = v, !.rd = rd, !.rn = rn, !.imm = imm, !.u = TRUE]
  BY Zenon DEF LoadStoreAt
<1>2. v[1] = name /\ v[2] = "I" OBVIOUS
<1> HIDE DEF v
<1>3. d.inst = v /\ d.rd = rd /\ d.rn = rn /\ d.imm = imm BY SMT, <1>1 DEF IsContext
<1>4. d.inst[1] \in Transfers /\ d.inst[2] = "I" BY Zenon, <1>2, <1>3
<1>5. Fresh(d, "imm") BY Zenon, <1>3, FreshImm
<1> QED BY Zenon, <1>3, <1>4, <1>5, SmallNames, ShownData DEF DataNames

\* The same for a halfword.
LEMMA ExtraShown ==
  ASSUME NEW c, IsContext(c), NEW name \in Extras, NEW rd \in Nat, NEW rn \in Nat, NEW imm \in Nat,
         NEW d, d = [LoadStoreAt(c, name, rd, rn, imm) EXCEPT !.ext = "H"]
  PROVE  Shown(d)
<1> DEFINE v == <<name, "I", "P">>
<1> DEFINE e == [c EXCEPT !.inst = v, !.rd = rd, !.rn = rn, !.imm = imm, !.u = TRUE]
<1>1. d = [e EXCEPT !.ext = "H"] BY Zenon DEF LoadStoreAt
<1>2. v[1] = name /\ v[2] = "I" OBVIOUS
<1> HIDE DEF v
<1>3. IsContext(e) /\ e.inst = v /\ e.rd = rd /\ e.rn = rn /\ e.imm = imm BY SMT DEF IsContext
<1> HIDE DEF e
<1>4. d.inst = v /\ d.rd = rd /\ d.rn = rn /\ d.imm = imm /\ d.ext = "H"
  BY SMT, <1>1, <1>3 DEF IsContext
<1>5. d.inst[1] \in Extras /\ d.inst[2] = "I" BY Zenon, <1>2, <1>4
<1>6. Fresh(d, "imm") BY Zenon, <1>4, FreshImm
<1>7. d.ext # "" BY Zenon, <1>4
<1> QED BY Zenon, <1>4, <1>5, <1>6, <1>7, SmallNames, ShownExtra

\* Loads and stores at an immediate offset, of a literal and on the stack.
LEMMA T011 ==
  ASSUME NEW op \in Word, NEW c, IsContext(c), c.op = op
  PROVE  /\ \A d : d = decode_t011(c) => Shown(d)
         /\ \A d : d = decode_t01001_loadliteral(c) => Shown(d)
         /\ \A d : d = decode_t1001_loadstore_stack(c) => Shown(d)
         /\ \A d : d = decode_t100(c) => Shown(d)
<1>1. /\ Bits(op, 0, 3) \in Nat /\ Bits(op, 3, 3) \in Nat /\ Bits(op, 8, 3) \in Nat
      /\ Bits(op, 6, 5) \in Nat /\ Bits(op, 11, 2) \in 0 .. 3
      /\ 4 * Bits(op, 6, 5) \in Nat /\ 2 * Bits(op, 6, 5) \in Nat /\ 4 * Bits(op, 0, 8) \in Nat
      /\ 13 \in Nat /\ 15 \in Nat
  BY SMT, ThumbFields
<1>2. ASSUME NEW d, d = decode_t011(c) PROVE Shown(d)
  <2> DEFINE k == Bits(op, 11, 2)
             table == <<"STR", "LDR", "STRB", "LDRB">>
             imm == IF Bit(op, 12) THEN Bits(op, 6, 5) ELSE 4 * Bits(op, 6, 5)
  <2>1. d = LoadStoreAt(c, table[k + 1], Bits(op, 0, 3), Bits(op, 3, 3), imm)
    BY Zenon, <1>2 DEF decode_t011, decode_regt
  <2>2. imm \in Nat BY Zenon, <1>1
  <2>3. table[1] = "STR" /\ table[2] = "LDR" /\ table[3] = "STRB" /\ table[4] = "LDRB" OBVIOUS
  <2>4. k \in 0 .. 3 BY Zenon, <1>1
  <2> HIDE DEF k, table, imm
  <2>5. k + 1 = 1 \/ k + 1 = 2 \/ k + 1 = 3 \/ k + 1 = 4 BY SMT, <2>4
  <2>6. table[k + 1] \in Transfers BY Zenon, <2>3, <2>5, SmallNames
  <2> QED BY Zenon, <1>1, <2>1, <2>2, <2>6, LoadStoreShown
<1>3. ASSUME NEW d, d = decode_t01001_loadliteral(c) PROVE Shown(d)
  <2>1. d = LoadStoreAt(c, "LDR", Bits(op, 8, 3), 15, 4 * Bits(op, 0, 8))
    BY Zenon, <1>3 DEF decode_t01001_loadliteral, decode_regt
  <2> QED BY Zenon, <1>1, <2>1, SmallNames, LoadStoreShown
<1>4. ASSUME NEW d, d = decode_t1001_loadstore_stack(c) PROVE Shown(d)
  <2> DEFINE name == IF Bit(op, 11) THEN "LDR" ELSE "STR"
  <2>1. d = LoadStoreAt(c, name, Bits(op, 8, 3), 13, 4 * Bits(op, 0, 8))
    BY Zenon, <1>4 DEF decode_t1001_loadstore_stack, decode_regt
  <2>2. name \in Transfers BY Zenon, SmallNames
  <2> HIDE DEF name
  <2> QED BY Zenon, <1>1, <2>1, <2>2, LoadStoreShown
<1>5. ASSUME NEW d, d = decode_t100(c) PROVE Shown(d)
  <2> DEFINE name == IF Bit(op, 11) THEN "LDRX" ELSE "STRX"
  <2>1. CASE Bit(op, 12)
    <3>1. d = decode_t1001_loadstore_stack(c) BY Zenon, <1>5, <2>1 DEF decode_t100
    <3> QED BY Zenon, <1>4, <3>1
  <2>2. CASE ~Bit(op, 12)
    <3>1. d = [LoadStoreAt(c, name, Bits(op, 0, 3), Bits(op, 3, 3), 2 * Bits(op, 6, 5))
                 EXCEPT !.ext = "H"]
      BY Zenon, <1>5, <2>2 DEF decode_t100, decode_regt
    <3>2. name \in Extras BY Zenon DEF Extras
    <3> HIDE DEF name
    <3> QED BY Zenon, <1>1, <3>1, <3>2, ExtraShown
  <2> QED BY <2>1, <2>2
<1> QED BY Zenon, <1>2, <1>3, <1>4, <1>5

\* Loads and stores at an offset in a register.
LEMMA T0101 ==
  ASSUME NEW op \in Word, NEW c, IsContext(c), c.op = op,
         NEW d, d = decode_t0101_loadstore_reg(c)
  PROVE  Shown(d)
<1> DEFINE k == Bits(c.op, 9, 3)
           table == <<"STR", "STRX", "STRB", "", "LDR", "LDRX", "LDRB", "LDRX">>
           rd == Bits(c.op, 0, 3)
           rn == Bits(c.op, 3, 3)
           rm == Bits(c.op, 6, 3)
           e == [c EXCEPT !.rd = rd, !.rn = rn, !.rm = rm, !.shift = "LSL", !.imm = 0, !.u = TRUE]
           ext == CASE k \in {1, 5} -> "H" [] k = 7 -> "SH" [] k \notin {1, 5, 7} -> c.ext
           v == <<table[k + 1], "R", "P">>
<1>1. d = IF k = 3 THEN Inst(e, "UD", "") ELSE [e EXCEPT !.inst = v, !.ext = ext]
  BY Zenon DEF decode_t0101_loadstore_reg, decode_regt, inst_ud
<1>2. rd \in Nat /\ rn \in Nat /\ rm \in Nat /\ k \in 0 .. 7 BY Zenon, ThumbFields
<1>3. /\ table[1] = "STR" /\ table[2] = "STRX" /\ table[3] = "STRB" /\ table[5] = "LDR"
      /\ table[6] = "LDRX" /\ table[7] = "LDRB" /\ table[8] = "LDRX"
  OBVIOUS
<1>4. v[1] = table[k + 1] /\ v[2] = "R" OBVIOUS
<1>5. ext = "H" \/ ext = "SH" \/ k \notin {1, 5, 7} BY SMT
<1> HIDE DEF k, table, rd, rn, rm, ext, v
<1>6. IsContext(e) /\ e.rd \in Nat /\ e.rn \in Nat /\ e.rm \in Nat /\ e.imm \in Nat
  BY SMT, <1>2 DEF IsContext
<1> HIDE DEF e
<1>7. CASE k = 3
  <2>1. d = Inst(e, "UD", "") BY Zenon, <1>1, <1>7
  <2> QED BY Zenon, <1>6, <2>1, SmallNames, NothingShown
<1>8. CASE k # 3
  <2>1. d = [e EXCEPT !.inst = v, !.ext = ext] BY Zenon, <1>1, <1>8
  <2>2. /\ d.inst = v /\ d.ext = ext /\ d.rd \in Nat /\ d.rn \in Nat /\ d.rm \in Nat
        /\ d.imm \in Nat
    BY SMT, <1>6, <2>1 DEF IsContext
  <2>3. d.inst[1] = table[k + 1] /\ d.inst[2] = "R" BY Zenon, <1>4, <2>2
  <2>4. Fresh(d, "imm") BY Zenon, <2>2, FreshImm
  <2>5. CASE k \in {0, 2, 4, 6}
    <3>1. k + 1 = 1 \/ k + 1 = 3 \/ k + 1 = 5 \/ k + 1 = 7 BY SMT, <2>5
    <3>2. d.inst[1] \in Transfers BY Zenon, <1>3, <2>3, <3>1, SmallNames
    <3> QED BY Zenon, <2>2, <2>3, <2>4, <3>2, SmallNames, ShownData DEF DataNames
  <2>6. CASE k \in {1, 5, 7}
    <3>1. k + 1 = 2 \/ k + 1 = 6 \/ k + 1 = 8 BY SMT, <2>6
    <3>2. d.inst[1] \in Extras BY Zenon, <1>3, <2>3, <3>1 DEF Extras
    <3>3. d.ext # "" BY Zenon, <1>5, <2>2, <2>6
    <3> QED BY Zenon, <2>2, <2>3, <2>4, <3>2, <3>3, SmallNames, ShownExtra
  <2>7. k \in {0, 2, 4, 6} \/ k \in {1, 5, 7} BY SMT, <1>2, <1>8
  <2> QED BY Zenon, <2>5, <2>6, <2>7
<1> QED BY <1>7, <1>8

\* Operations on the high registers, BX and BLX.
LEMMA T010001 ==
  ASSUME NEW op \in Word, NEW c, IsContext(c), c.op = op, NEW d, d = decode_t010001_sdata_b(c)
  PROVE  Shown(d)
<1> DEFINE k == Bits(op, 8, 2)
           rd == Bits(op, 0, 3) + 8 * Bits(op, 7, 1)
           rm == Bits(op, 3, 4)
           e == [c EXCEPT !.rm = rm, !.rd = rd, !.imm = 0, !.shift = "LSL"]
           e1 == [e EXCEPT !.rn = rd]
           name == IF Bit(op, 7) THEN "BLX" ELSE "BX"
           low == Bits(op, 0, 3)
<1>1. d = CASE k = 0 -> Inst(e1, "ADD", "R") [] k = 1 -> Inst(e1, "CMP", "R")
            [] k = 2 -> Inst(e, "MOV", "R")
            [] k = 3 -> IF low # 0 THEN Inst(e, "UNKNOWN", "") ELSE Inst(e, name, "")
  BY Zenon DEF decode_t010001_sdata_b, decode_regt, decode_reg, inst_unknown
<1>2. rm \in Nat /\ Bits(op, 0, 3) \in Nat /\ Bits(op, 7, 1) \in Nat /\ k \in 0 .. 3
  BY Zenon, ThumbFields
<1>3. rd \in Nat BY SMT, <1>2
<1> HIDE DEF k, rd, rm, low
<1>4. IsContext(e) /\ e.rd \in Nat /\ e.rm \in Nat /\ e.imm \in Nat BY SMT, <1>2, <1>3 DEF IsContext
<1>5. IsContext(e1) /\ e1.rd \in Nat /\ e1.rn \in Nat /\ e1.rm \in Nat /\ e1.imm \in Nat
  BY SMT, <1>2, <1>3 DEF IsContext
<1> HIDE DEF e, e1
<1>6. k = 0 \/ k = 1 \/ k = 2 \/ k = 3 BY SMT, <1>2
<1>7. CASE k = 0
  <2>1. d = Inst(e1, "ADD", "R") BY SMT, <1>1, <1>7
  <2> QED BY Zenon, <1>5, <2>1, SmallNames, DataShown
<1>8. CASE k = 1
  <2>1. d = Inst(e1, "CMP", "R") BY SMT, <1>1, <1>8
  <2> QED BY Zenon, <1>5, <2>1, SmallNames, DataShown
<1>9. CASE k = 2
  <2>1. d = Inst(e, "MOV", "R") BY SMT, <1>1, <1>9
  <2> QED BY Zenon, <1>4, <2>1, SmallNames, MoveShown
<1>10. CASE k = 3 /\ low # 0
  <2>1. k # 0 /\ k # 1 /\ k # 2 BY SMT, <1>10
  <2>2. d = Inst(e, "UNKNOWN", "") BY Zenon, <1>1, <1>10, <2>1
  <2> QED BY Zenon, <1>4, <2>2, SmallNames, NothingShown
<1>11. CASE k = 3 /\ low = 0
  <2>1. k # 0 /\ k # 1 /\ k # 2 BY SMT, <1>11
  <2>2. d = Inst(e, name, "") BY Zenon, <1>1, <1>11, <2>1
  <2>3. name \in {"BX", "BLX"} BY Zenon
  <2> HIDE DEF name
  <2>4. Operands(d, e) /\ Is(d.inst, name, "") BY Zenon, <1>4, <2>2, Insts
  <2>5. Formats(d.inst) = {"rm"} BY Zenon, <2>3, <2>4, FormatsOfOthers DEF Is
  <2>6. d.rm \in Nat BY Zenon, <1>4, <2>4 DEF Operands
  <2>7. Fresh(d, "rm") BY Zenon, <2>6, FreshFields
  <2> QED BY Zenon, <2>5, <2>7 DEF Shown
<1> QED BY Zenon, <1>6, <1>7, <1>8, <1>9, <1>10, <1>11

\* Data operations on two low registers.
LEMMA T010000 ==
  ASSUME NEW op \in Word, NEW c, IsContext(c), c.op = op, NEW d, d = decode_t010000_dataproc(c)
  PROVE  Shown(d)
<1> DEFINE k == Bits(op, 6, 4)
           low == Bits(op, 0, 3)
           high == Bits(op, 3, 3)
           e == [c EXCEPT !.rd = low, !.rn = high, !.shift = "LSL", !.imm = 0, !.s = TRUE]
           shift == CASE k = 2 -> "LSL" [] k = 3 -> "LSR" [] k = 4 -> "ASR" [] k = 7 -> "ROR"
           e1 == [e EXCEPT !.rm = low, !.rs = high, !.shift = shift]
           e2 == [e EXCEPT !.rm = high, !.rs = low]
           e3 == [e EXCEPT !.rm = high]
           e4 == [e EXCEPT !.rn = low, !.rm = high]
<1>1. d = CASE k \in {2, 3, 4, 7} -> Inst(e1, "MOV", "RR")
            [] k = 9 -> Inst(e, "RSB", "I")
            [] k = 11 -> Inst(e, "UD", "")
            [] k = 13 -> Inst(e2, "MUL", "R")
            [] k = 15 -> Inst(e3, "MVN", "R")
            [] k \in {0, 1, 5, 6, 8, 10, 12, 14} -> Inst(e4, DataOps[k + 1], "R")
  BY Zenon DEF decode_t010000_dataproc, decode_regt, inst_ud
<1>2. low \in Nat /\ high \in Nat /\ k \in 0 .. 15 BY Zenon, ThumbFields
<1> HIDE DEF k, low, high, shift
<1>3. IsContext(e) /\ e.rd \in Nat /\ e.rn \in Nat /\ e.imm \in Nat BY SMT, <1>2 DEF IsContext
<1>4. IsContext(e1) /\ e1.rd \in Nat /\ e1.rn \in Nat /\ e1.rm \in Nat /\ e1.rs \in Nat
  BY SMT, <1>2 DEF IsContext
<1>5. IsContext(e2) /\ e2.rd \in Nat /\ e2.rn \in Nat /\ e2.rm \in Nat /\ e2.rs \in Nat
  BY SMT, <1>2 DEF IsContext
<1>6. IsContext(e3) /\ e3.rd \in Nat /\ e3.rn \in Nat /\ e3.rm \in Nat /\ e3.imm \in Nat
  BY SMT, <1>2 DEF IsContext
<1>7. IsContext(e4) /\ e4.rd \in Nat /\ e4.rn \in Nat /\ e4.rm \in Nat /\ e4.imm \in Nat
  BY SMT, <1>2 DEF IsContext
<1> HIDE DEF e, e1, e2, e3, e4
<1>8. CASE k \in {2, 3, 4, 7}
  <2>1. k # 9 /\ k # 11 /\ k # 13 /\ k # 15 /\ k \notin {0, 1, 5, 6, 8, 10, 12, 14} BY SMT, <1>8
  <2>2. d = Inst(e1, "MOV", "RR") BY Zenon, <1>1, <1>8, <2>1
  <2> QED BY Zenon, <1>4, <2>2, SmallNames, DataShown
<1>9. CASE k = 9
  <2>1. d = Inst(e, "RSB", "I") BY SMT, <1>1, <1>9
  <2> QED BY Zenon, <1>3, <2>1, SmallNames, DataShown
<1>10. CASE k = 11
  <2>1. /\ k \notin {2, 3, 4, 7} /\ k # 9 /\ k # 13 /\ k # 15
        /\ k \notin {0, 1, 5, 6, 8, 10, 12, 14}
    BY SMT, <1>10
  <2>2. d = Inst(e, "UD", "") BY Zenon, <1>1, <1>10, <2>1
  <2> QED BY Zenon, <1>3, <2>2, SmallNames, NothingShown
<1>11. CASE k = 13
  <2>1. d = Inst(e2, "MUL", "R") BY SMT, <1>1, <1>11
  <2>2. Operands(d, e2) /\ Is(d.inst, "MUL", "R") BY Zenon, <1>5, <2>1, Insts
  <2>3. d.rd \in Nat /\ d.rn \in Nat /\ d.rm \in Nat /\ d.rs \in Nat
    BY Zenon, <1>5, <2>2 DEF Operands
  <2>4. d.inst[1] \in Multiplies BY Zenon, <2>2 DEF Is, Multiplies
  <2> QED BY Zenon, <2>3, <2>4, ShownMultiply
<1>12. CASE k = 15
  <2>1. d = Inst(e3, "MVN", "R") BY SMT, <1>1, <1>12
  <2> QED BY Zenon, <1>6, <2>1, SmallNames, DataShown
<1>13. CASE k \in {0, 1, 5, 6, 8, 10, 12, 14}
  <2>1. d = Inst(e4, DataOps[k + 1], "R") BY SMT, <1>1, <1>13
  <2>2. DataOps[k + 1] \in DataNames BY Zenon, <1>2, DataName
  <2> QED BY Zenon, <1>7, <2>1, <2>2, SmallNames, DataShown
<1>14. \/ k \in {2, 3, 4, 7} \/ k = 9 \/ k = 11 \/ k = 13 \/ k = 15
       \/ k \in {0, 1, 5, 6, 8, 10, 12, 14}
  BY SMT, <1>2
<1> QED BY Zenon, <1>8, <1>9, <1>10, <1>11, <1>12, <1>13, <1>14

\* Which of its handlers decode_t010 calls: bits 10 to 12.
LEMMA T010 ==
  ASSUME NEW op \in Word, NEW c, IsContext(c), c.op = op, NEW d, d = decode_t010(c)
  PROVE  Shown(d)
<1> DEFINE k == Bits(op, 10, 3)
<1>1. d = CASE Bit(op, 12) -> decode_t0101_loadstore_reg(c)
            [] ~Bit(op, 12) /\ Bit(op, 11) -> decode_t01001_loadliteral(c)
            [] k = 1 -> decode_t010001_sdata_b(c)
            [] k = 0 -> decode_t010000_dataproc(c)
  BY Zenon DEF decode_t010
<1>2. k = Bits(op, 10, 1) + 2 * Bits(op, 11, 1) + 4 * Bits(op, 12, 1)
  <2> DEFINE P(n) == 2 ^ n
             lo == op.lo
  <2>1. lo \in Nat BY WordHalves
  <2>2. P(1) = 2 /\ P(3) = 8 /\ P(10) = 1024 /\ P(11) = 2048 /\ P(12) = 4096 BY SMT
  <2>3. \A first \in {10, 11, 12} : \A n : Bits(op, first, n) = (lo \div P(first)) % P(n)
    <3>1. ~(10 >= 16) /\ ~(11 >= 16) /\ ~(12 >= 16) OBVIOUS
    <3> QED BY Zenon, <3>1 DEF Bits
  <2> HIDE DEF P, lo
  <2>4. /\ k = (lo \div 1024) % 8 /\ Bits(op, 10, 1) = (lo \div 1024) % 2
        /\ Bits(op, 11, 1) = (lo \div 2048) % 2 /\ Bits(op, 12, 1) = (lo \div 4096) % 2
    BY SMT, <2>2, <2>3
  <2>5. (lo \div 1024) % 8 =
          ((lo \div 1024) % 2) + 2 * ((lo \div 2048) % 2) + 4 * ((lo \div 4096) % 2)
    BY SMT, <2>1
  <2> QED BY SMT, <2>4, <2>5
<1>3. ~Bit(op, 12) /\ ~Bit(op, 11) => k = 0 \/ k = 1
  <2>1. ~Bit(op, 12) => Bits(op, 12, 1) = 0 BY SMT, BitValues
  <2>2. ~Bit(op, 11) => Bits(op, 11, 1) = 0 BY SMT, BitValues
  <2>3. Bits(op, 10, 1) \in 0 .. 1 BY SMT, Ranges
  <2> QED BY SMT, <1>2, <2>1, <2>2, <2>3
<1>4. (k = 0 \/ k = 1) => ~Bit(op, 12) /\ ~Bit(op, 11)
  <2>1. Bit(op, 12) => Bits(op, 12, 1) = 1 BY SMT, BitValues
  <2>2. Bit(op, 11) => Bits(op, 11, 1) = 1 BY SMT, BitValues
  <2>3. Bits(op, 10, 1) \in 0 .. 1 /\ Bits(op, 11, 1) \in 0 .. 1 /\ Bits(op, 12, 1) \in 0 .. 1
    BY SMT, Ranges
  <2> QED BY SMT, <1>2, <2>1, <2>2, <2>3
<1> HIDE DEF k
<1>5. CASE Bit(op, 12)
  <2>1. d = decode_t0101_loadstore_reg(c) BY Zenon, <1>1, <1>4, <1>5
  <2> QED BY Zenon, <2>1, T0101
<1>6. CASE ~Bit(op, 12) /\ Bit(op, 11)
  <2>1. d = decode_t01001_loadliteral(c) BY Zenon, <1>1, <1>4, <1>6
  <2> QED BY Zenon, <2>1, T011
<1>7. CASE ~Bit(op, 12) /\ ~Bit(op, 11) /\ k = 1
  <2>1. 1 # 0 OBVIOUS
  <2>2. d = decode_t010001_sdata_b(c) BY Zenon, <1>1, <1>7, <2>1
  <2> QED BY Zenon, <2>2, T010001
<1>8. CASE ~Bit(op, 12) /\ ~Bit(op, 11) /\ k = 0
  <2>1. 1 # 0 OBVIOUS
  <2>2. d = decode_t010000_dataproc(c) BY Zenon, <1>1, <1>8, <2>1
  <2> QED BY Zenon, <2>2, T010000
<1> QED BY Zenon, <1>3, <1>5, <1>6, <1>7, <1>8

\* PUSH, POP, breakpoints and changes of the stack pointer.
LEMMA T1011 ==
  ASSUME NEW op \in Word, NEW c, IsContext(c), c.op = op, NEW d, d = decode_t1011_misc(c)
  PROVE  Shown(d)
<1> DEFINE k == Bits(op, 8, 4)
           imm8 == Bits(op, 0, 8)
           imm7 == 4 * Bits(op, 0, 7)
           e == [c EXCEPT !.imm = imm8]
           e1 == [e EXCEPT !.imm = imm7, !.rd = 13, !.rn = 13]
           e2 == [e EXCEPT !.imm = @ + (IF k = 5 THEN 2 ^ 14 ELSE 0), !.mode = "DB", !.rn = 13]
           e3 == [e EXCEPT !.imm = @ + (IF k = 13 THEN 2 ^ 15 ELSE 0), !.mode = "IA", !.rn = 13]
           name == IF Bit(op, 7) THEN "SUB" ELSE "ADD"
<1>1. d = CASE k = 0 -> Inst(e1, name, "I") [] k \in {4, 5} -> Inst(e2, "STM", "W")
            [] k \in {12, 13} -> Inst(e3, "LDM", "W") [] k = 14 -> Inst(e, "BKPT", "")
            [] k \notin {0, 4, 5, 12, 13, 14} -> Inst(e, "UD", "")
  BY Zenon DEF decode_t1011_misc, inst_ud
<1>2. imm8 \in Nat BY Zenon, ThumbFields
<1>3. imm7 \in Nat BY SMT, ThumbFields
<1>4. name \in DataNames BY Zenon, SmallNames
<1> HIDE DEF k, imm8, imm7, name
<1>5. IsContext(e) /\ e.imm \in Nat BY SMT, <1>2 DEF IsContext
<1>6. e.imm \in Int /\ e.imm >= Floor BY SMT, <1>5, StaleIsSmall
<1>7. IsContext(e1) /\ e1.rd \in Nat /\ e1.rn \in Nat /\ e1.imm \in Nat
  BY SMT, <1>3 DEF IsContext
<1> DEFINE n2 == IF k = 5 THEN 2 ^ 14 ELSE 0
           n3 == IF k = 13 THEN 2 ^ 15 ELSE 0
<1>8. n2 \in Nat /\ n3 \in Nat
  <2>1. 14 \in 0 .. 32 /\ 15 \in 0 .. 32 OBVIOUS
  <2> QED BY Zenon, <2>1, Powers
<1>9. IsContext(e2) /\ e2.rn \in Nat /\ e2.imm \in Nat /\ e2.mode # ""
  <2> DEFINE f2 == [e EXCEPT !.imm = @ + n2, !.mode = "DB", !.rn = 13]
  <2> HIDE DEF e, n2
  <2>1. IsContext(f2) /\ f2.rn \in Nat /\ f2.imm \in Nat /\ f2.mode # ""
    BY SMT, <1>5, <1>8 DEF IsContext
  <2> QED BY Zenon, <2>1 DEF n2
<1>10. IsContext(e3) /\ e3.rn \in Nat /\ e3.imm \in Nat /\ e3.mode # ""
  <2> DEFINE f3 == [e EXCEPT !.imm = @ + n3, !.mode = "IA", !.rn = 13]
  <2> HIDE DEF e, n3
  <2>1. IsContext(f3) /\ f3.rn \in Nat /\ f3.imm \in Nat /\ f3.mode # ""
    BY SMT, <1>5, <1>8 DEF IsContext
  <2> QED BY Zenon, <2>1 DEF n3
<1> HIDE DEF e, e1, e2, e3
<1>11. CASE k = 0
  <2>1. d = Inst(e1, name, "I") BY SMT, <1>1, <1>11
  <2> QED BY Zenon, <1>4, <1>7, <2>1, SmallNames, DataShown
<1>12. CASE k \in {4, 5}
  <2>1. k # 0 /\ k \notin {12, 13} /\ k # 14 BY SMT, <1>12
  <2>2. d = Inst(e2, "STM", "W") BY Zenon, <1>1, <1>12, <2>1
  <2>3. "STM" \in Multiples BY DEF Multiples
  <2> QED BY Zenon, <1>9, <2>2, <2>3, MultipleShown
<1>13. CASE k \in {12, 13}
  <2>1. k # 0 /\ k \notin {4, 5} /\ k # 14 BY SMT, <1>13
  <2>2. d = Inst(e3, "LDM", "W") BY Zenon, <1>1, <1>13, <2>1
  <2>3. "LDM" \in Multiples BY DEF Multiples
  <2> QED BY Zenon, <1>10, <2>2, <2>3, MultipleShown
<1>14. CASE k = 14
  <2>1. k # 0 /\ k \notin {4, 5} /\ k \notin {12, 13} BY SMT, <1>14
  <2>2. d = Inst(e, "BKPT", "") BY Zenon, <1>1, <1>14, <2>1
  <2>3. "BKPT" \in Immediates BY DEF Immediates
  <2> QED BY Zenon, <1>5, <1>6, <2>2, <2>3, ImmediateShown
<1>15. CASE k \notin {0, 4, 5, 12, 13, 14}
  <2>1. k # 0 /\ k \notin {4, 5} /\ k \notin {12, 13} /\ k # 14 BY SMT, <1>15
  <2>2. d = Inst(e, "UD", "") BY Zenon, <1>1, <1>15, <2>1
  <2> QED BY Zenon, <1>5, <2>2, SmallNames, NothingShown
<1> QED BY Zenon, <1>11, <1>12, <1>13, <1>14, <1>15

\* Addresses relative to the stack pointer and to the program counter.
LEMMA T1010 ==
  ASSUME NEW op \in Word, NEW c, IsContext(c), c.op = op, NEW d, d = decode_t1010_add_sp_pc(c)
  PROVE  Shown(d)
<1> DEFINE rd == Bits(op, 8, 3)
           imm == 4 * Bits(op, 0, 8)
           rn == IF Bit(op, 11) THEN 13 ELSE 15
           e == [c EXCEPT !.rd = rd, !.imm = imm, !.rn = rn]
<1>1. d = Inst(e, "ADD", "I") BY Zenon DEF decode_t1010_add_sp_pc, decode_regt
<1>2. rd \in Nat /\ imm \in Nat /\ rn \in Nat BY SMT, ThumbFields
<1> HIDE DEF rd, imm, rn
<1>3. IsContext(e) /\ e.rd \in Nat /\ e.rn \in Nat /\ e.imm \in Nat BY SMT, <1>2 DEF IsContext
<1> HIDE DEF e
<1> QED BY Zenon, <1>1, <1>3, SmallNames, DataShown

\* Conditional branches and software interrupts.
LEMMA T1101 ==
  ASSUME NEW op \in Word, NEW c, IsContext(c), c.op = op, NEW d, d = decode_t1101_bcond_swi(c)
  PROVE  Shown(d)
<1> DEFINE cond == Bits(op, 8, 4)
           imm8 == Bits(op, 0, 8)
           target == 2 * SignExtend(imm8, 8) + 4
           e == [c EXCEPT !.cond = cond]
           e1 == [e EXCEPT !.imm = imm8]
           e2 == [e EXCEPT !.imm = target]
<1>1. d = CASE e.cond = AL -> Inst(e, "UD", "") [] e.cond = NV -> Inst(e1, "SWI", "")
            [] e.cond \notin {AL, NV} -> Inst(e2, "B", "")
  BY Zenon DEF decode_t1101_bcond_swi, inst_ud
<1>2. imm8 \in Nat BY Zenon, ThumbFields
<1>3. imm8 \in Int /\ imm8 >= Floor BY SMT, <1>2, StaleIsSmall
<1> HIDE DEF imm8
<1>4. target \in Int /\ target >= Floor
  <2>1. SignExtend(imm8, 8) \in Int /\ SignExtend(imm8, 8) >= -128 BY SMT, <1>2, SignExtends
  <2> QED BY SMT, <2>1 DEF Floor
<1> HIDE DEF cond, target
<1>5. IsContext(e) BY SMT DEF IsContext
<1>6. IsContext(e1) /\ e1.imm = imm8 BY SMT DEF IsContext
<1>7. IsContext(e2) /\ e2.imm = target BY SMT DEF IsContext
<1> HIDE DEF e, e1, e2
<1>8. "SWI" \in Immediates /\ "B" \in Immediates BY DEF Immediates
<1>9. AL # NV BY DEF AL, NV
<1>10. CASE e.cond = AL
  <2>1. d = Inst(e, "UD", "") BY Zenon, <1>1, <1>9, <1>10
  <2> QED BY Zenon, <1>5, <2>1, SmallNames, NothingShown
<1>11. CASE e.cond = NV
  <2>1. d = Inst(e1, "SWI", "") BY Zenon, <1>1, <1>9, <1>11
  <2> QED BY Zenon, <1>3, <1>6, <1>8, <2>1, ImmediateShown
<1>12. CASE e.cond \notin {AL, NV}
  <2>1. d = Inst(e2, "B", "") BY Zenon, <1>1, <1>12
  <2> QED BY Zenon, <1>4, <1>7, <1>8, <2>1, ImmediateShown
<1> QED BY Zenon, <1>10, <1>11, <1>12

\* Loads and stores of several registers.
LEMMA T1100 ==
  ASSUME NEW op \in Word, NEW c, IsContext(c), c.op = op,
         NEW d, d = decode_t1100_loadstore_multiple(c)
  PROVE  Shown(d)
<1> DEFINE rn == Bits(op, 8, 3)
           imm == Bits(op, 0, 8)
           e == [c EXCEPT !.rn = rn, !.imm = imm, !.mode = "IA"]
           name == IF Bit(op, 11) THEN "LDM" ELSE "STM"
<1>1. d = Inst(e, name, "W") BY Zenon DEF decode_t1100_loadstore_multiple, decode_regt
<1>2. rn \in Nat /\ imm \in Nat BY Zenon, ThumbFields
<1>3. name \in Multiples BY Zenon DEF Multiples
<1> HIDE DEF rn, imm, name
<1>4. IsContext(e) /\ e.rn \in Nat /\ e.imm \in Nat /\ e.mode # "" BY SMT, <1>2 DEF IsContext
<1> HIDE DEF e
<1> QED BY Zenon, <1>1, <1>3, <1>4, MultipleShown

\* Branches and the two halves of a long branch.
LEMMA T111 ==
  ASSUME NEW op \in Word, NEW c, IsContext(c), c.op = op, NEW d, d = decode_t111(c)
  PROVE  Shown(d)
<1> DEFINE imm == Bits(c.op, 0, 11)
           k == Bits(c.op, 11, 2)
           target == CASE k = 0 -> 2 * SignExtend(imm, 11) + 4
                       [] k = 2 -> 4096 * SignExtend(imm, 11) + 4
                       [] k \in {1, 3} -> 2 * imm
           table == <<"B", "BLX_I", "BPRE", "BL">>
           e == [c EXCEPT !.imm = imm]
           e1 == [c EXCEPT !.imm = target]
<1>1. d = IF k = 1 /\ Bit(c.op, 0) THEN Inst(e, "UD", "") ELSE Inst(e1, table[k + 1], "")
  BY ONLY d = decode_t111(c), Zenon DEF decode_t111, inst_ud
<1>2. imm \in Nat /\ k \in 0 .. 3 BY Zenon, ThumbFields
<1>3. table[1] = "B" /\ table[2] = "BLX_I" /\ table[3] = "BPRE" /\ table[4] = "BL" OBVIOUS
<1> HIDE DEF imm, k, table
<1>4. target \in Int /\ target >= Floor
  <2>1. SignExtend(imm, 11) \in Int /\ SignExtend(imm, 11) >= -1024 BY SMT, <1>2, SignExtends
  <2>2. CASE k = 0 BY SMT, <2>1, <2>2 DEF Floor
  <2>3. CASE k = 2 BY SMT, <2>1, <2>3 DEF Floor
  <2>4. CASE k \in {1, 3} BY SMT, <1>2, <2>4 DEF Floor
  <2>5. k = 0 \/ k = 2 \/ k \in {1, 3} BY SMT, <1>2
  <2> QED BY Zenon, <2>2, <2>3, <2>4, <2>5
<1>5. table[k + 1] \in Immediates
  <2>1. k + 1 = 1 \/ k + 1 = 2 \/ k + 1 = 3 \/ k + 1 = 4 BY SMT, <1>2
  <2> QED BY Zenon, <1>3, <2>1 DEF Immediates
<1> HIDE DEF target
<1>6. IsContext(e) /\ IsContext(e1) /\ e1.imm = target BY SMT DEF IsContext
<1> HIDE DEF e, e1
<1>7. CASE k = 1 /\ Bit(c.op, 0)
  <2>1. d = Inst(e, "UD", "") BY Zenon, <1>1, <1>7
  <2> QED BY Zenon, <1>6, <2>1, SmallNames, NothingShown
<1>8. CASE ~(k = 1 /\ Bit(c.op, 0))
  <2>1. d = Inst(e1, table[k + 1], "") BY Zenon, <1>1, <1>8
  <2> QED BY Zenon, <1>4, <1>5, <1>6, <2>1, ImmediateShown
<1> QED BY <1>7, <1>8

\* A halfword decoded in a context that the words before have left.
LEMMA ThumbDecoded ==
  ASSUME NEW op \in Word, NEW c, IsContext(c), NEW d, d = decode_thumb(c, op)
  PROVE  Shown(d)
<1> DEFINE v == <<"DEBUG", "">>
           e == [Cleared(c, op) EXCEPT !.inst = v, !.cond = AL, !.imm = 0]
           k == Bits(Cleared(c, op).op, 13, 3)
<1>1. d = CASE k = 0 -> decode_t000(e) [] k = 1 -> decode_t001(e) [] k = 2 -> decode_t010(e)
            [] k = 3 -> decode_t011(e) [] k = 4 -> decode_t100(e)
            [] k = 5 -> IF Bit(e.op, 12) THEN decode_t1011_misc(e) ELSE decode_t1010_add_sp_pc(e)
            [] k = 6 -> IF Bit(e.op, 12) THEN decode_t1101_bcond_swi(e)
                        ELSE decode_t1100_loadstore_multiple(e)
            [] k = 7 -> decode_t111(e)
  BY Zenon DEF decode_thumb, decode_instruction_thumb
<1> HIDE DEF v
<1>2. IsContext(e) /\ e.op = op BY SMT DEF Cleared, IsContext
<1>3. Cleared(c, op).op = op BY SMT DEF Cleared, IsContext
<1>4. k \in 0 .. 7 BY SMT, <1>3, Ranges
<1> HIDE DEF e, k
<1>5. CASE k = 0
  <2>1. d = decode_t000(e) BY SMT, <1>1, <1>5
  <2> QED BY Zenon, <1>2, <2>1, T000
<1>6. CASE k = 1
  <2>1. d = decode_t001(e) BY SMT, <1>1, <1>6
  <2> QED BY Zenon, <1>2, <2>1, T001
<1>7. CASE k = 2
  <2>1. d = decode_t010(e) BY SMT, <1>1, <1>7
  <2> QED BY Zenon, <1>2, <2>1, T010
<1>8. CASE k = 3
  <2>1. d = decode_t011(e) BY SMT, <1>1, <1>8
  <2> QED BY Zenon, <1>2, <2>1, T011
<1>9. CASE k = 4
  <2>1. d = decode_t100(e) BY SMT, <1>1, <1>9
  <2> QED BY Zenon, <1>2, <2>1, T011
<1>10. CASE k = 5
  <2>1. d = decode_t1011_misc(e) \/ d = decode_t1010_add_sp_pc(e) BY SMT, <1>1, <1>10
  <2> QED BY Zenon, <1>2, <2>1, T1011, T1010
<1>11. CASE k = 6
  <2>1. d = decode_t1101_bcond_swi(e) \/ d = decode_t1100_loadstore_multiple(e)
    BY SMT, <1>1, <1>11
  <2> QED BY Zenon, <1>2, <2>1, T1101, T1100
<1>12. CASE k = 7
  <2>1. d = decode_t111(e) BY SMT, <1>1, <1>12
  <2> QED BY Zenon, <1>2, <2>1, T111
<1>13. k = 0 \/ k = 1 \/ k = 2 \/ k = 3 \/ k = 4 \/ k = 5 \/ k = 6 \/ k = 7 BY SMT, <1>4
<1> QED BY Zenon, <1>5, <1>6, <1>7, <1>8, <1>9, <1>10, <1>11, <1>12, <1>13

------------------------------------------------------------------------------
\* An undecoded context is the one that all words before may have left; a decoded
\* one shows nothing of it and, for an ARM word, agrees with the architecture.
DecoderInv ==
    /\ isa = "none" => ctx = StaleContext
    /\ isa # "none" => Shown(ctx)
    /\ isa = "arm" => Agrees(ctx)

\* A new disassembler has decoded nothing.
LEMMA DecoderInvInit == Init => DecoderInv
BY Zenon DEF Init, DecoderInv

\* Decoding any word or halfword establishes the invariant.
LEMMA DecoderInvNext == DecoderInv /\ [Next]_vars => DecoderInv'
<1> SUFFICES ASSUME DecoderInv, [Next]_vars PROVE DecoderInv'
  OBVIOUS
<1>1. IsContext(StaleContext) BY DEF IsContext, StaleContext
<1>2. ASSUME DecodeArm PROVE DecoderInv'
  <2>1. PICK hi \in Highs, lo \in Lows : ctx' = decode_arm(ctx, [hi |-> hi, lo |-> lo])
    BY Zenon, <1>2 DEF DecodeArm
  <2> DEFINE op == [hi |-> hi, lo |-> lo]
  <2>2. op \in Word BY Zenon, HalvesAreHalfwords DEF Word
  <2>3. isa' = "arm" /\ ctx = StaleContext BY Zenon, <1>2 DEF DecodeArm, DecoderInv
  <2> HIDE DEF op
  <2>4. Decoded(ctx', op) BY Zenon, <1>1, <2>1, <2>2, <2>3, ArmDecoded DEF op
  <2> QED BY Zenon, <2>3, <2>4 DEF DecoderInv, Decoded
<1>3. ASSUME DecodeThumb PROVE DecoderInv'
  <2>1. PICK lo \in Thumbs : ctx' = decode_thumb(ctx, [hi |-> 0, lo |-> lo])
    BY Zenon, <1>3 DEF DecodeThumb
  <2> DEFINE op == [hi |-> 0, lo |-> lo]
  <2>2. 0 \in Halfword BY DEF Halfword
  <2>3. op \in Word BY Zenon, <2>2, HalvesAreHalfwords DEF Word
  <2>4. isa' = "thumb" /\ ctx = StaleContext BY Zenon, <1>3 DEF DecodeThumb, DecoderInv
  <2> HIDE DEF op
  <2>5. Shown(ctx') BY Zenon, <1>1, <2>1, <2>3, <2>4, ThumbDecoded DEF op
  <2> QED BY Zenon, <2>4, <2>5 DEF DecoderInv
<1>4. CASE UNCHANGED vars BY Zenon, <1>4 DEF vars, DecoderInv, Shown, Fresh, Agrees, Named
<1> QED BY <1>2, <1>3, <1>4 DEF Next

\* DecoderInv is an invariant, for whatever words and halfwords are decoded.
THEOREM DecoderInvariant == Spec => []DecoderInv
BY DecoderInvInit, DecoderInvNext, PTL DEF Spec

\* The text of a decoded word or halfword shows no operand that decode_instruction,
\* its handlers and their Thumb counterparts did not set from that word: nothing of
\* an earlier word is left in it.
THEOREM DecoderShowsNothingStale == Spec => []NothingStale
<1>1. DecoderInv => NothingStale BY Zenon DEF DecoderInv, NothingStale, Shown, Fresh
<1> QED BY <1>1, DecoderInvariant, PTL

\* decode_instruction gives every ARM word with a condition the operation and the
\* registers of the architecture, and rejects the undefined and the irregular ones
\* (all words, with the exceptions that Misread names).
THEOREM DecoderAgreesOnArm == Spec => []ArmAgrees
<1>1. DecoderInv => ArmAgrees BY Zenon DEF DecoderInv, ArmAgrees, Agrees, Named
<1> QED BY <1>1, DecoderInvariant, PTL

\* The same of one call of decode, with anything at all in the context: what a
\* disassembler object decoded before does not change the result.
THEOREM ArmAgreesInAnyContext ==
  ASSUME NEW op \in Word, NEW c, IsContext(c)
  PROVE  Agrees(decode_arm(c, op)) /\ Shown(decode_arm(c, op))
BY Zenon, ArmDecoded DEF Decoded
==============================================================================
