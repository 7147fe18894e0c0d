---------------------------- MODULE MCTranslation ----------------------------
EXTENDS Translation

Blank == [inst |-> <<"UD", "">>, cond |-> AL, s |-> FALSE, u |-> TRUE, shift |-> "LSL",
          ext |-> "", mode |-> "", imm |-> 0, rd |-> 0, rn |-> 1, rm |-> 2, rs |-> 3,
          cp_num |-> 15, cp_op1 |-> 0, cp_op2 |-> 0, at |-> 0, bits |-> 2,
          look |-> FALSE, actual |-> FALSE, updated |-> FALSE]

Names == {"AND", "EOR", "SUB", "RSB", "ADD", "ADC", "SBC", "RSC", "TST", "TEQ", "CMP",
          "CMN", "ORR", "MOV", "BIC", "MVN"}
ShiftImms == {<<"LSL", 0>>, <<"LSL", 1>>, <<"LSR", 1>>, <<"LSR", W>>, <<"ASR", 1>>,
              <<"ASR", W>>, <<"ROR", 3>>, <<"RRX", 0>>}
Immediates ==
    {[Blank EXCEPT !.inst = <<name, "I">>, !.s = s, !.imm = imm, !.rd = rd] :
        name \in Names, s \in BOOLEAN, imm \in {0, 1, 200}, rd \in {0, 1}}
Registered ==
    {[Blank EXCEPT !.inst = <<name, "R">>, !.s = s, !.shift = sh[1], !.imm = sh[2], !.rd = rd] :
        name \in Names, s \in BOOLEAN, sh \in ShiftImms, rd \in {0, 1, 2}}
ByRegister ==
    {[Blank EXCEPT !.inst = <<name, "RR">>, !.s = s, !.shift = sh, !.rd = rd] :
        name \in {"MOV", "ORR", "EOR"}, s \in BOOLEAN, sh \in {"LSL", "LSR", "ASR", "ROR"},
        rd \in {0, 1, 3}}
Products ==
    {[Blank EXCEPT !.inst = <<name, "R">>, !.s = s, !.rd = 0, !.rn = rn] :
        name \in {"MUL", "MLA", "UMULL", "UMLAL", "SMULL", "SMLAL"}, s \in BOOLEAN,
        rn \in {1, 4}}
LeadingZeroCounts ==
    {[Blank EXCEPT !.inst = <<"CLZ", "">>, !.rd = rd] : rd \in {0, 2}}
Kinds == {<<name, "">> : name \in {"STR", "LDR", "STRB", "LDRB"}}
         \cup {<<name, ext>> : name \in {"STRX", "LDRX"}, ext \in {"H", "SB", "SH"}}
Transfers ==
    {[Blank EXCEPT !.inst = <<kind[1], "I", index>>, !.imm = imm, !.u = imm >= 0, !.rd = rd,
                   !.rn = rn, !.ext = kind[2]] :
        kind \in Kinds, index \in {"", "W", "P", "PW"}, imm \in {-4, 0, 5}, rd \in {0, 1, 15},
        rn \in {1, 15}}
    \cup
    {[Blank EXCEPT !.inst = <<kind[1], "R", index>>, !.shift = sh[1], !.imm = sh[2], !.u = u,
                   !.rd = rd, !.ext = kind[2]] :
        kind \in Kinds, index \in {"", "W", "P", "PW"}, u \in BOOLEAN, rd \in {0, 1},
        sh \in {<<"LSL", 0>>, <<"LSR", 1>>, <<"RRX", 0>>}}
Swaps == {[Blank EXCEPT !.inst = <<name, "">>, !.rd = rd, !.rn = 1, !.rm = 2] :
             name \in {"SWP", "SWPB"}, rd \in {0, 1, 2}}
\* {R0}, {R1}, {R2, R3}, {R1, R2}, {R0, R1, R4}, {R1, R4, R14}, {R13, R14}
Lists == {1, 2, 12, 6, 19, 2 + 16 + 2 ^ 14, 2 ^ 13 + 2 ^ 14}
Blocks ==
    {[Blank EXCEPT !.inst = <<name, w>>, !.mode = mode, !.imm = list, !.s = s] :
        name \in {"STM", "LDM"}, w \in {"", "W"}, mode \in {"IA", "IB", "DA", "DB"},
        list \in Lists, s \in BOOLEAN}
    \cup
    {[Blank EXCEPT !.inst = <<"LDM", "W">>, !.mode = mode, !.imm = list] :
        mode \in {"IA", "DB"}, list \in {2 ^ 15, 2 ^ 14 + 2 ^ 15, 1 + 2 ^ 15}}
Branches ==
    {[Blank EXCEPT !.inst = <<name, "">>, !.imm = imm, !.bits = bits] :
        name \in {"B"}, imm \in {-16, 8, 20}, bits \in {1, 2}}
    \cup {[Blank EXCEPT !.inst = <<"BL", "">>, !.imm = imm] : imm \in {-16, 8, 20}}
    \cup {[Blank EXCEPT !.inst = <<name, "">>, !.rm = rm] : name \in {"BX", "BLX"},
                                                            rm \in {2, 14}}
Systems ==
    {[Blank EXCEPT !.inst = <<"MRS", psr>>] : psr \in {"CPSR", "SPSR"}}
    \cup {[Blank EXCEPT !.inst = <<name, psr>>, !.rn = rn, !.imm = 171] :
            name \in {"MSR_I", "MSR_R"}, psr \in {"CPSR", "SPSR"}, rn \in {0, 1, 8, 9, 15}}
    \cup {[Blank EXCEPT !.inst = <<name, "">>, !.rn = rn, !.rm = rm, !.cp_op2 = 1] :
            name \in {"MRC", "MCR"}, rn \in {0, 1, 7, 9}, rm \in {0, 1}}
    \cup {[Blank EXCEPT !.inst = <<"SWI", "">>, !.imm = 6],
          [Blank EXCEPT !.inst = <<"PLD", "I">>, !.cond = NV]}
Singles == Immediates \cup Registered \cup ByRegister \cup Products \cup LeadingZeroCounts
           \cup Transfers \cup Swaps \cup Blocks \cup Branches \cup Systems

\* Instructions that set flags, and ones that read them.
Producers ==
    {[Blank EXCEPT !.inst = <<name, "I">>, !.s = TRUE, !.imm = 1, !.rd = 1, !.cond = cond] :
        name \in {"CMP", "ADD", "SUB", "MOV", "SBC"}, cond \in {AL, 0}}
    \cup {[Blank EXCEPT !.inst = <<"MOV", "R">>, !.s = TRUE, !.shift = "LSR", !.imm = 1],
          [Blank EXCEPT !.inst = <<"SMLAL", "R">>, !.s = TRUE, !.rn = 4]}
Consumers ==
    {[Blank EXCEPT !.inst = <<"MOV", "I">>, !.cond = cond, !.s = s, !.imm = 77] :
        cond \in 0 .. 14, s \in BOOLEAN}
    \cup {[Blank EXCEPT !.inst = <<name, "R">>, !.s = s, !.cond = cond] :
            name \in {"ADC", "SBC", "RSC"}, s \in BOOLEAN, cond \in {AL, 1, 8}}
    \cup {[Blank EXCEPT !.inst = <<"MOV", "R">>, !.s = s, !.shift = "RRX", !.rd = 4] :
            s \in BOOLEAN}
    \cup {[Blank EXCEPT !.inst = <<"LDM", "">>, !.mode = "IA", !.imm = 2 ^ 13 + 2 ^ 14, !.s = TRUE],
          [Blank EXCEPT !.inst = <<"B", "">>, !.imm = 8, !.cond = 11]}
Pairs == {<<p, c>> : p \in Producers, c \in Consumers}
Triples == {<<[Blank EXCEPT !.inst = <<"CMP", "I">>, !.s = TRUE, !.imm = 1], c, d>> :
               c \in {e \in Consumers : e.s /\ e.cond \in {AL, 0, 1, 8}},
               d \in {e \in Consumers : e.cond \in {AL, 2, 8}}}
ThumbCalls ==
    {<<[Blank EXCEPT !.inst = <<"BPRE", "">>, !.imm = imm, !.bits = 1],
       [Blank EXCEPT !.inst = <<name, "">>, !.imm = 8, !.bits = 1]>> :
        name \in {"BL", "BLX_I"}, imm \in {-16, 20}}
MCPages == {<<c>> : c \in Singles} \cup Pairs \cup Triples \cup ThumbCalls
Computing == Immediates \cup Registered \cup ByRegister \cup Products
MCValues(p) == IF Len(p) = 1 /\ p[1] \in Computing THEN {0, 1, 127, 128, 255} ELSE {0, 129}
MCAmounts == {0, 1, W - 1, W, W + 1}
MCFlags == {NoFlags, Flag(FALSE, FALSE, TRUE, FALSE), Flag(TRUE, TRUE, FALSE, TRUE)}
==============================================================================
