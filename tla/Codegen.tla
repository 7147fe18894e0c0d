------------------------------- MODULE Codegen -------------------------------
(***************************************************************************)
(* The JIT's code generator (Compiler.cpp, Compiler.h): the host code that *)
(* compile_instruction emits for one decoded instruction.  c is the state  *)
(* of the compiler object: the context that the decoder filled in (inst,   *)
(* cond, s, u, shift, imm, ...) and, besides, at (the index in the page),  *)
(* bits (INST_BITS), look (lookahead_s), actual (flags_actual) and updated *)
(* (flags_updated of the instruction before).                              *)
(*                                                                         *)
(* Code is a sequence of the host's instructions <<operation, to, from>>.  *)
(* An access to the context by ebp is R(n) or Field(name).                 *)
(***************************************************************************)
EXTENDS X86, FiniteSetsExt

CONSTANT PageSize           \* Bytes in a page (PAGING::SIZE).
ASSUME PageAssumption == PageSize \in {8, 16, 32, 64} /\ PageSize < M

AL == 14
NV == 15
x(op, to, from) == <<<<op, to, from>>>>
x1(op, to) == <<<<op, to>>>>
x0(op) == <<<<op>>>>
DEBUG_BREAK == x0("int3")
NOP == <<>>
If(test, code) == IF test THEN code ELSE NOP

store_carry == x("rcl", esi, Imm(1))
load_carry == x("rcr", esi, Imm(1))
load_flags == x0("load_flags")
store_flags(c) == If(~c.look, x0("save_flags"))
SetFlags(c, code) == If(c.s, code \o store_flags(c))

break_if_pc(reg) == If(reg = 15, DEBUG_BREAK)
add_imm(to, imm) == If(imm % M # 0, x("add", to, Imm(imm)))

\* load_ecx_reg_or_pc, load_eax_reg_or_pc: R15 is the page, and the place in it.
load_reg_or_pc(c, to, reg, offset) ==
    IF reg # 15 THEN x("mov", to, R(reg)) \o add_imm(to, offset)
    ELSE x("mov", to, R(15)) \o x("and", to, Imm(M - PageSize))
         \o add_imm(to, offset + 4 * (((c.at + 2) * 2 ^ c.bits) \div 4))
load_eax_ecx_or_reg(c, r1, r2) ==
    IF r1 = r2 THEN x("mov", eax, ecx)
    ELSE load_reg_or_pc(c, eax, r1, IF r1 = 15 THEN 2 ^ c.bits ELSE 0)
load_edx_ecx_or_reg(r1, r2) ==
    x("mov", edx, IF r1 = r2 THEN ecx ELSE R(r1))
load_r15_ecx ==
    x("mov", ecx, R(15)) \o x("and", ecx, Imm(M - PageSize + 1))
\* record_callstack, update_callstack: ecx survives.
callstack(call) == x1("push", ecx) \o <<<<"callstack", call>>>> \o x1("pop", ecx)
NextInstruction(c) == x("add", ecx, Imm((c.at + 1) * 2 ^ c.bits))

------------------------------------------------------------------------------
\* The shifter.

ShiftOp(kind) == CASE kind = "LSL" -> "shl" [] kind = "LSR" -> "shr"
                   [] kind = "ASR" -> "sar" [] kind = "ROR" -> "ror"
Twice(op) == x(op, eax, Imm(W - 1)) \o x(op, eax, Imm(1))
shift_eax_imm(c) ==
    CASE c.shift = "RRX" -> x("rcr", eax, Imm(1))
      [] c.shift # "RRX" /\ c.imm = 0 ->
           IF c.shift = "LSR" THEN x("shr", eax, Imm(0)) ELSE NOP
      [] c.shift \in {"LSL", "LSR", "ASR"} /\ c.imm >= W -> Twice(ShiftOp(c.shift))
      [] c.shift # "RRX" /\ c.imm \in 1 .. W - 1 ->
           x(ShiftOp(c.shift), eax, Imm(c.imm))
load_shifter_imm(c) ==
    If(c.shift = "RRX", load_flags) \o load_reg_or_pc(c, eax, c.rm, 0)
    \o shift_eax_imm(c) \o store_carry

\* A shift by a register: 0 keeps the saved carry; the others are clamped.
shiftop_eax_ecx(c) ==
    LET clamp == x1("push", Imm(W - 1)) \o x1("pop", esi)
                 \o x("cmp", ecx, esi) \o x("cmova", ecx, esi)
        shifting ==
            CASE c.shift = "ROR" -> x("and", ecx, Imm(W - 1)) \o x("ror", eax, ecx)
              [] c.shift = "LSL" -> clamp \o x("shl", eax, ecx)
              [] c.shift \in {"LSR", "ASR"} ->
                   x("dec", ecx, ecx) \o clamp \o x(ShiftOp(c.shift), eax, ecx)
                   \o x(ShiftOp(c.shift), eax, Imm(1))
        code == shifting \o store_carry
    IN  x0("saved_carry") \o x("or", ecx, ecx) \o <<<<"if", "jz", Len(code)>>>> \o code

------------------------------------------------------------------------------
\* Data operations.

HostOp(name) ==
    CASE name = "AND" -> "and" [] name = "BIC" -> "and" [] name = "EOR" -> "xor"
      [] name = "ORR" -> "or"  [] name = "ADD" -> "add" [] name = "SUB" -> "sub"

MOV_I(c) == break_if_pc(c.rd) \o x("mov", R(c.rd), Imm(c.imm))
            \o SetFlags(c, x("or", R(c.rd), Imm(0)))
DebugMagic(c) == load_r15_ecx \o NextInstruction(c) \o <<<<"callstack", "debug_magic">>>>
MOV_R(c) ==
    IF c.rd = c.rm /\ c.imm = 0 THEN If(c.rd = 12, DebugMagic(c))
    ELSE load_shifter_imm(c)
         \o (IF c.rd = 15
             THEN If(c.s, DEBUG_BREAK)
                  \o x("mov", ecx, R(15)) \o x("and", ecx, Imm(1)) \o x("or", ecx, eax)
                  \o x("mov", R(15), ecx) \o x0("jump")
             ELSE x("mov", R(c.rd), eax))
         \o load_carry \o SetFlags(c, If(c.imm = 0, x("or", eax, Imm(0))))
ShiftedByRegister(c) ==
    break_if_pc(c.rd) \o load_reg_or_pc(c, ecx, c.rs, 0)
    \o load_eax_ecx_or_reg(c, c.rm, c.rs) \o shiftop_eax_ecx(c)
MOV_RR(c) == ShiftedByRegister(c) \o x("mov", R(c.rd), eax)
             \o SetFlags(c, x("or", eax, Imm(0)) \o load_carry)
ORR_RR(c) == ShiftedByRegister(c) \o x("or", R(c.rd), eax) \o SetFlags(c, load_carry)
MVN_I(c) == break_if_pc(c.rd) \o x("mov", R(c.rd), Imm(M - 1 - c.imm))
MVN_R(c) ==
    break_if_pc(c.rd)
    \o (IF c.rd = c.rm /\ c.shift = "LSL" /\ c.imm = 0 THEN x1("not", R(c.rd))
        ELSE load_shifter_imm(c) \o x1("not", eax) \o x("mov", R(c.rd), eax))
    \o load_carry \o SetFlags(c, NOP)

\* rd = rn OP eax, in the context itself when they are one register.
IntoRd(c, op) ==
    IF c.rn = c.rd THEN x(op, R(c.rn), eax)
    ELSE x(op, eax, R(c.rn)) \o x("mov", R(c.rd), eax)
Logical_R(c) ==
    load_shifter_imm(c) \o If(c.inst[1] = "BIC", x1("not", eax))
    \o IntoRd(c, HostOp(c.inst[1])) \o load_carry \o SetFlags(c, NOP)
ORR_R(c) == load_shifter_imm(c) \o x("or", eax, R(c.rn)) \o x("mov", R(c.rd), eax)
            \o load_carry \o SetFlags(c, NOP)
Logical_I(c) ==
    LET op == HostOp(c.inst[1])
        imm == Imm(IF c.inst[1] = "BIC" THEN M - 1 - c.imm ELSE c.imm)
    IN  break_if_pc(c.rn) \o break_if_pc(c.rd)
        \o (IF c.rn = c.rd /\ c.inst[1] # "BIC" THEN x(op, R(c.rn), imm)
            ELSE x("mov", eax, R(c.rn)) \o x(op, eax, imm) \o x("mov", R(c.rd), eax))
        \o SetFlags(c, NOP)

\* ADD_I, SUB_I: only in place is the host's operation the guest's.
AddSub_I(c) ==
    break_if_pc(c.rd)
    \o (IF c.rn = c.rd THEN break_if_pc(c.rn) \o x(HostOp(c.inst[1]), R(c.rn), Imm(c.imm))
        ELSE load_reg_or_pc(c, ecx, c.rn, IF c.inst[1] = "SUB" THEN -c.imm ELSE c.imm)
             \o x("mov", R(c.rd), ecx))
    \o SetFlags(c, NOP)
ADD_R(c) == load_shifter_imm(c) \o IntoRd(c, "add") \o SetFlags(c, NOP)
SubFrom(c, op, from) ==
    IF c.rn = c.rd THEN x(op, R(c.rn), from)
    ELSE x("mov", edx, R(c.rn)) \o x(op, edx, from) \o x("mov", R(c.rd), edx)
SUB_R(c) == load_shifter_imm(c) \o SubFrom(c, "sub", eax) \o SetFlags(c, NOP)
ADC_I(c) ==
    break_if_pc(c.rd)
    \o (IF c.rn = c.rd
        THEN break_if_pc(c.rn) \o load_flags \o x("adc", R(c.rn), Imm(c.imm))
        ELSE load_reg_or_pc(c, ecx, c.rn, c.imm) \o load_flags
             \o x("adc", ecx, Imm(0)) \o x("mov", R(c.rd), ecx))
    \o SetFlags(c, NOP)
ADC_R(c) ==
    load_shifter_imm(c) \o x1("push", eax) \o load_flags \o x1("pop", eax)
    \o IntoRd(c, "adc") \o SetFlags(c, NOP)

\* The guest's carry is the host's borrow inverted.
Borrow(c) == If(~c.actual, load_flags)
SBC_I(c) ==
    Borrow(c) \o x("mov", eax, R(c.rn)) \o x0("cmc") \o x("sbb", eax, Imm(c.imm))
    \o x("mov", R(c.rd), eax) \o SetFlags(c, x0("cmc"))
SBC_R(c) ==
    load_shifter_imm(c) \o x("mov", ecx, eax) \o Borrow(c) \o x0("cmc")
    \o SubFrom(c, "sbb", ecx) \o SetFlags(c, x0("cmc"))
RSC_R(c) ==
    Borrow(c) \o x0("cmc") \o x("mov", ecx, R(c.rn)) \o x("adc", ecx, Imm(0))
    \o load_shifter_imm(c) \o x("sub", eax, ecx) \o x("mov", R(c.rd), eax)
    \o SetFlags(c, x0("cmc"))
RSB_I(c) ==
    break_if_pc(c.rn) \o break_if_pc(c.rd)
    \o CASE c.imm = 0 /\ c.rn = c.rd -> x1("neg", R(c.rn)) \o SetFlags(c, NOP)
         [] c.imm = 0 /\ c.rn # c.rd ->
              x("mov", eax, R(c.rn)) \o x1("neg", eax) \o x("mov", R(c.rd), eax)
              \o SetFlags(c, NOP)
         [] c.imm # 0 /\ c.rn # c.rd -> NOP
         [] c.imm # 0 /\ c.rn = c.rd ->
              x("mov", eax, Imm(c.imm)) \o x("sub", eax, R(c.rn)) \o x("mov", R(c.rd), eax)
RSB_R(c) == load_shifter_imm(c) \o x("sub", eax, R(c.rn)) \o x("mov", R(c.rd), eax)
            \o SetFlags(c, NOP)

\* The four that compare set the flags whether or not there is an S.
\* Mutant: the host's borrow is saved for the guest's carry.
Compare_I_borrow(c) ==
    break_if_pc(c.rn)
    \o (CASE c.inst[1] = "TST" -> x("test", R(c.rn), Imm(c.imm))
         [] c.inst[1] = "TEQ" -> x("mov", eax, R(c.rm)) \o x("xor", eax, Imm(c.imm))
         [] c.inst[1] = "CMP" -> x("cmp", R(c.rn), Imm(c.imm))
         [] c.inst[1] = "CMN" -> x("mov", eax, Imm(c.imm)) \o x("add", eax, R(c.rn)))
    \o store_flags(c)
Compare_I(c) ==
    break_if_pc(c.rn)
    \o (CASE c.inst[1] = "TST" -> x("test", R(c.rn), Imm(c.imm))
         [] c.inst[1] = "TEQ" -> x("mov", eax, R(c.rm)) \o x("xor", eax, Imm(c.imm))
         [] c.inst[1] = "CMP" -> x("cmp", R(c.rn), Imm(c.imm)) \o x0("cmc")
         [] c.inst[1] = "CMN" -> x("mov", eax, Imm(c.imm)) \o x("add", eax, R(c.rn)))
    \o store_flags(c)
Compare_R(c) ==
    break_if_pc(c.rn) \o load_shifter_imm(c)
    \o (CASE c.inst[1] = "TST" -> x("test", R(c.rn), eax)
         [] c.inst[1] = "TEQ" -> x("xor", eax, R(c.rn))
         [] c.inst[1] = "CMP" -> x("cmp", R(c.rn), eax) \o x0("cmc")
         [] c.inst[1] = "CMN" -> x("add", eax, R(c.rn)))
    \o store_flags(c)

CLZ(c) ==
    break_if_pc(c.rm) \o break_if_pc(c.rd) \o x("mov", ecx, Imm(M - 1))
    \o x("mov", R(c.rd), Imm(W)) \o x("clz", R(c.rd), R(c.rm))
Multiply(c) ==
    LET Unsigned == c.inst[1] \in {"MLA", "UMULL", "UMLAL"}
        product == x("mov", eax, R(c.rm)) \o x1(IF Unsigned THEN "mul" ELSE "imul", R(c.rs))
    IN  (CASE c.inst[1] = "MUL" ->
               break_if_pc(c.rm) \o break_if_pc(c.rs) \o break_if_pc(c.rd) \o product
               \o x("mov", R(c.rd), eax) \o x("or", eax, eax)
          [] c.inst[1] = "MLA" ->
               break_if_pc(c.rm) \o break_if_pc(c.rs) \o break_if_pc(c.rd)
               \o break_if_pc(c.rn) \o product
               \o x("add", eax, R(c.rn)) \o x("mov", R(c.rd), eax)
          [] c.inst[1] \in {"UMULL", "SMULL"} ->
               product \o x("mov", R(c.rd), eax) \o x("mov", R(c.rn), edx)
          [] c.inst[1] \in {"UMLAL", "SMLAL"} ->
               product \o x("add", R(c.rd), eax) \o x("adc", R(c.rn), edx))
        \o SetFlags(c, NOP)

------------------------------------------------------------------------------
\* Loads and stores.  The address is in ecx, the word to store in edx.

Access(c, kind) ==
    CASE c.inst[1] \in {"LDR", "STR"} -> <<<<kind, "32">>>>
      [] c.inst[1] \in {"LDRB", "STRB"} -> <<<<kind, "8u">>>>
      [] c.inst[1] = "LDRX" ->              \* generic_load_x
           (CASE c.ext = "H" -> <<<<kind, "16u">>>>
              [] c.ext = "SB" -> <<<<kind, "8u">>>> \o x1("movsx", eax)
              [] c.ext = "SH" -> <<<<kind, "16s">>>>)
      [] c.inst[1] = "STRX" ->              \* generic_store_x
           IF c.ext = "H" THEN <<<<kind, "16u">>>> ELSE DEBUG_BREAK

generic_loadstore_shift(c) ==
    IF c.shift = "LSL" /\ c.imm = 0 THEN x("add", ecx, R(c.rm))
    ELSE x("mov", eax, R(c.rm)) \o shift_eax_imm(c) \o store_carry \o x("add", ecx, eax)
generic_loadstore_postupdate_imm(c) ==
    If(c.imm % M # 0, x("add", R(c.rn), Imm(c.imm)))
generic_store(c) ==
    break_if_pc(c.rd) \o load_reg_or_pc(c, ecx, c.rn, 0) \o load_edx_ecx_or_reg(c.rd, c.rn)
generic_load_post(c) == break_if_pc(c.rd) \o load_reg_or_pc(c, ecx, c.rn, 0)
generic_load(c) == load_reg_or_pc(c, ecx, c.rn, c.imm)
generic_load_r(c) ==
    break_if_pc(c.rd) \o load_reg_or_pc(c, ecx, c.rn, 0) \o If(~c.u, x1("neg", ecx))
    \o generic_loadstore_shift(c)
generic_load_rs(c) ==       \* eax, ecx = rn +- shifted rm
    break_if_pc(c.rd) \o break_if_pc(c.rn) \o load_shifter_imm(c) \o If(~c.u, x1("neg", eax))
    \o x("add", eax, R(c.rn)) \o x("mov", ecx, eax)
\* Mutant: the loaded word is left on the stack.
generic_postload_shift_left(c) ==
    x1("push", eax) \o load_shifter_imm(c) \o If(~c.u, x1("neg", eax))
    \o x("add", R(c.rn), eax)
generic_postload_shift(c) ==
    x1("push", eax) \o load_shifter_imm(c) \o If(~c.u, x1("neg", eax))
    \o x("add", R(c.rn), eax) \o x1("pop", R(c.rd))
store_rd_eax(c) ==
    x("mov", R(c.rd), eax) \o If(c.rd = 15, x("mov", ecx, eax) \o x0("jump"))

Store(c) ==
    CASE c.inst \in {<<name, "I", "">> : name \in {"STR", "STRB", "STRX"}} ->
           generic_store(c) \o Access(c, "store") \o generic_loadstore_postupdate_imm(c)
      [] c.inst \in {<<name, "I", "P">> : name \in {"STR", "STRB", "STRX"}} ->
           generic_store(c) \o add_imm(ecx, c.imm) \o Access(c, "store")
      [] c.inst = <<"STR", "I", "PW">> ->
           generic_store(c) \o add_imm(ecx, c.imm) \o Access(c, "store")
           \o generic_loadstore_postupdate_imm(c)
      [] c.inst \in {<<name, "R", "P">> : name \in {"STR", "STRB", "STRX"}} ->
           generic_store(c) \o generic_loadstore_shift(c) \o Access(c, "store")
      [] OTHER -> DEBUG_BREAK
Load(c) ==
    CASE c.inst \in {<<"LDR", "I", "">>, <<"LDRB", "I", "">>} ->
           generic_load_post(c) \o generic_loadstore_postupdate_imm(c)
           \o Access(c, "load") \o x("mov", R(c.rd), eax)
      [] c.inst \in {<<"LDR", "I", "P">>, <<"LDRX", "I", "P">>} ->
           generic_load(c) \o Access(c, "load") \o store_rd_eax(c)
      [] c.inst \in {<<name, "I", "PW">> : name \in {"LDR", "LDRB", "LDRX"}} ->
           generic_load(c) \o Access(c, "load") \o generic_loadstore_postupdate_imm(c)
           \o store_rd_eax(c)
      [] c.inst = <<"LDRB", "I", "P">> ->
           break_if_pc(c.rd) \o generic_load(c) \o Access(c, "load")
           \o x("mov", R(c.rd), eax)
      [] c.inst = <<"LDR", "R", "">> ->
           load_reg_or_pc(c, ecx, c.rn, 0) \o Access(c, "load") \o generic_postload_shift(c)
      [] c.inst \in {<<"LDR", "R", "P">>, <<"LDR", "R", "PW">>} ->
           generic_load_rs(c) \o If(c.inst[3] = "PW", x("mov", R(c.rn), eax))
           \o Access(c, "load") \o x("mov", R(c.rd), eax)
      [] c.inst \in {<<"LDRB", "R", "P">>, <<"LDRX", "R", "P">>} ->
           generic_load_r(c) \o Access(c, "load") \o x("mov", R(c.rd), eax)
      [] OTHER -> DEBUG_BREAK
Swap(c) ==
    LET size == IF c.inst[1] = "SWP" THEN "32" ELSE "8u"
    IN  x("mov", ecx, R(c.rn)) \o x1("push", ecx) \o <<<<"load", size>>>> \o x1("pop", ecx)
        \o x("mov", edx, R(c.rm)) \o x("mov", R(c.rd), eax) \o <<<<"store", size>>>>

------------------------------------------------------------------------------
\* Block transfers.  count: the number of registers, and whether they are a
\* region, which the context's array of registers then serves as it is.

List(c) == {i \in 0 .. 15 : (c.imm \div 2 ^ i) % 2 = 1}
Count(c) == Cardinality(List(c))
Lowest(c) == CHOOSE i \in List(c) : \A j \in List(c) : i <= j
Highest(c) == CHOOSE i \in List(c) : \A j \in List(c) : i >= j
Region(c) == Highest(c) - Lowest(c) + 1 = Count(c)
Ascending(c) == SetToSortSeq(List(c), <)
Concat(s, op(_)) == FoldLeft(LAMBDA code, i : code \o op(i), NOP, s)

\* update_dest, load_ecx_single, push_multiple
update_dest(c) ==
    x(IF c.mode \in {"DA", "DB"} THEN "sub" ELSE "add", R(c.rn), Imm(4 * Count(c)))
load_ecx_single(c) ==
    x("mov", ecx, R(c.rn))
    \o If(c.mode = "DB", x("sub", ecx, Imm(4))) \o If(c.mode = "IB", x("add", ecx, Imm(4)))
\* Mutant: decrement after starts as low as decrement before.
push_multiple_low(c) ==
    IF c.mode = "IA" THEN x1("push", R(c.rn))
    ELSE x("mov", ecx, R(c.rn))
         \o (IF c.mode = "IB" THEN x("add", ecx, Imm(4)) ELSE x("sub", ecx, Imm(4 * Count(c))))
         \o x1("push", ecx)
push_multiple(c) ==
    LET n == Count(c)
    IN  IF c.mode = "IA" THEN x1("push", R(c.rn))
        ELSE x("mov", ecx, R(c.rn))
             \o (CASE c.mode = "IB" -> x("add", ecx, Imm(4))
                   [] c.mode = "DA" -> x("sub", ecx, Imm(4 * (n - 1)))
                   [] c.mode = "DB" -> x("sub", ecx, Imm(4 * n)))
             \o x1("push", ecx)
Arguments(c, pointer) ==
    x1("push", Const(pointer)) \o x1("push", Const(Count(c))) \o push_multiple(c)
OnStack == <<"stack">>
InContext(c) == <<"regs", Lowest(c)>>

STM(c) ==
    LET n == Count(c)
        Push15 == load_r15_ecx \o NextInstruction(c) \o x1("push", ecx)
    IN  If(c.s, DEBUG_BREAK)
        \o (CASE n = 0 -> DEBUG_BREAK
              [] n = 1 -> load_ecx_single(c) \o x("mov", edx, R(Highest(c)))
                          \o <<<<"store", "32">>>>
              [] n > 1 /\ Region(c) ->
                   Arguments(c, InContext(c)) \o x0("store_array") \o <<<<"drop", 3>>>>
              [] n > 1 /\ ~Region(c) ->
                   If(15 \in List(c), Push15)
                   \o Concat(Reverse(SetToSortSeq(List(c) \ {15}, <)),
                             LAMBDA i : x1("push", R(i)))
                   \o Arguments(c, OnStack) \o x0("store_array") \o <<<<"drop", n + 3>>>>)
        \o If(c.inst[2] = "W", update_dest(c))

\* A base in the list: loaded, unless it is the lowest, which stays and moves.
LDM(c) ==
    LET n == Count(c)
        special == c.inst[2] = "W" /\ c.rn \in List(c) /\ c.rn = Lowest(c)
        writeback == c.inst[2] = "W" /\ (special \/ c.rn \notin List(c))
        OntoStack == <<<<"reserve", n>>>> \o Arguments(c, OnStack) \o x0("load_array")
                     \o <<<<"drop", 3>>>>
        switch == x1("push", Field("cpsr")) \o x("mov", ecx, Const("user"))
                  \o x0("loadcpsr_mode") \o x1("pop", ecx)
    IN  If(special, x1("push", R(c.rn)))
        \o (CASE c.s -> OntoStack \o switch
                        \o Concat(Ascending(c), LAMBDA i : x1("pop", User(i)))
                        \o x0("loadcpsr_mode")
              [] ~c.s /\ n = 0 -> DEBUG_BREAK
              [] ~c.s /\ n = 1 -> load_ecx_single(c) \o <<<<"load", "32">>>>
                                  \o x("mov", R(Highest(c)), eax)
              [] ~c.s /\ n > 1 /\ Region(c) ->
                   Arguments(c, InContext(c)) \o x0("load_array") \o <<<<"drop", 3>>>>
              [] ~c.s /\ n > 1 /\ ~Region(c) ->
                   OntoStack \o Concat(Ascending(c), LAMBDA i : x1("pop", R(i))))
        \o If(special, x1("pop", R(c.rn))) \o If(writeback, update_dest(c))
        \o If(15 \in List(c), x("mov", ecx, R(15)) \o callstack("pop") \o x0("jump"))

------------------------------------------------------------------------------
\* Branches and the rest.

Link(c) == load_r15_ecx \o NextInstruction(c) \o x("mov", R(14), ecx) \o callstack("push")
add_ecx_bpre(c) ==
    x("add", ecx, Imm(c.imm - 4)) \o x("add", ecx, Field("bpre"))
    \o x("mov", Field("bpre"), Imm(0))
Jump == x("mov", R(15), ecx) \o x0("jump")
Branch(c) ==
    CASE c.inst[1] = "B" -> load_r15_ecx \o x("add", ecx, Imm(c.imm + c.at * 2 ^ c.bits))
                            \o x("mov", R(15), ecx) \o callstack("pop") \o x0("jump")
      [] c.inst[1] = "BL" -> Link(c) \o add_ecx_bpre(c) \o Jump
      [] c.inst[1] = "BLX_I" -> Link(c) \o x("and", ecx, Imm(M - 2))
                                \o x("and", eax, Imm(M - 2)) \o add_ecx_bpre(c) \o Jump
      [] c.inst[1] = "BX" -> load_reg_or_pc(c, ecx, c.rm, 0) \o x("mov", R(15), ecx)
                             \o callstack("pop") \o x0("jump")
      [] c.inst[1] = "BLX" -> Link(c) \o load_reg_or_pc(c, ecx, c.rm, 0) \o Jump
      [] c.inst[1] = "BPRE" -> x("mov", Field("bpre"), Imm(c.imm))

\* The system control coprocessor.
MRC(c) ==
    CASE c.cp_num # 15 \/ c.cp_op1 # 0 \/ c.rd = 15 \/ c.rn \notin {0, 1} -> DEBUG_BREAK
      [] c.cp_num = 15 /\ c.cp_op1 = 0 /\ c.rd # 15 /\ c.rn = 0 ->
           x("mov", R(c.rd), Imm(96))            \* 0x41059460
      [] c.cp_num = 15 /\ c.cp_op1 = 0 /\ c.rd # 15 /\ c.rn = 1 ->
           x("mov", eax, Field("control_register")) \o x("mov", R(c.rd), eax)
MCR(c) ==
    CASE c.cp_num # 15 \/ c.cp_op1 # 0 \/ c.rd = 15 -> DEBUG_BREAK
      [] c.cp_num = 15 /\ c.cp_op1 = 0 /\ c.rd # 15 ->
           (CASE c.rn = 1 -> x("mov", eax, R(c.rd)) \o x("mov", Field("control_register"), eax)
                             \o x("or", eax, eax) \o <<<<"if", "jnz", 1>>>>
                             \o x("mov", eax, Imm(1))
              [] c.rn \in {2, 3, 5, 6, 7} -> NOP
              [] c.rn = 9 ->
                   If(c.rm = 1, x("mov", ecx, R(c.rd)) \o x("mov", edx, Imm(c.cp_op2))
                                \o x0("remap_tcm"))
              [] c.rn \notin {1, 2, 3, 5, 6, 7, 9} -> DEBUG_BREAK)

\* One bit of rn selects one byte of the word.
cpsr_masks(n) ==
    LET byte == 2 ^ (W \div 4)
    IN  FoldSet(LAMBDA k, sum : sum + (byte - 1) * byte ^ k, 0,
                {k \in 0 .. 3 : (n \div 2 ^ k) % 2 = 1})
MRS(c) ==
    break_if_pc(c.rd)
    \o (IF c.inst[2] = "SPSR" THEN x("mov", eax, Field("spsr")) ELSE x0("storecpsr"))
    \o x("mov", R(c.rd), eax)
MSR(c) ==
    LET value == IF c.inst[1] = "MSR_I" THEN Imm(c.imm) ELSE R(c.rm)
    IN  break_if_pc(c.rm)
        \o (CASE c.rn = 0 -> NOP
              [] c.rn # 0 /\ c.inst[2] = "SPSR" ->
                   x("mov", eax, value) \o If(c.rn # 15, x("and", eax, Imm(cpsr_masks(c.rn))))
                   \o x("mov", Field("spsr"), eax)
              [] c.rn # 0 /\ c.inst[2] = "CPSR" ->
                   x("mov", ecx, value) \o x("mov", edx, Imm(cpsr_masks(c.rn)))
                   \o x0("loadcpsr"))

------------------------------------------------------------------------------
\* compile_instruction: the switch over the instruction.
Body(c) ==
    LET name == c.inst[1]
        form == c.inst[2]
    IN  CASE name = "PLD" -> NOP
          [] c.inst = <<"MOV", "I">> -> MOV_I(c)
          [] c.inst = <<"MOV", "R">> -> MOV_R(c)
          [] c.inst = <<"MOV", "RR">> -> MOV_RR(c)
          [] c.inst = <<"MVN", "I">> -> MVN_I(c)
          [] c.inst = <<"MVN", "R">> -> MVN_R(c)
          [] name \in {"AND", "BIC", "EOR"} /\ form = "R" -> Logical_R(c)
          [] name \in {"AND", "BIC", "EOR", "ORR"} /\ form = "I" -> Logical_I(c)
          [] c.inst = <<"ORR", "R">> -> ORR_R(c)
          [] c.inst = <<"ORR", "RR">> -> ORR_RR(c)
          [] name \in {"ADD", "SUB"} /\ form = "I" -> AddSub_I(c)
          [] c.inst = <<"ADD", "R">> -> ADD_R(c)
          [] c.inst = <<"SUB", "R">> -> SUB_R(c)
          [] c.inst = <<"ADC", "I">> -> ADC_I(c)
          [] c.inst = <<"ADC", "R">> -> ADC_R(c)
          [] c.inst = <<"SBC", "I">> -> SBC_I(c)
          [] c.inst = <<"SBC", "R">> -> SBC_R(c)
          [] c.inst = <<"RSB", "I">> -> RSB_I(c)
          [] c.inst = <<"RSB", "R">> -> RSB_R(c)
          [] c.inst = <<"RSC", "R">> -> RSC_R(c)
          [] name \in {"TST", "TEQ", "CMP", "CMN"} /\ form = "I" -> Compare_I(c)
          [] name \in {"TST", "TEQ", "CMP", "CMN"} /\ form = "R" -> Compare_R(c)
          [] name = "CLZ" -> CLZ(c)
          [] name \in {"MUL", "MLA", "UMULL", "UMLAL", "SMULL", "SMLAL"} -> Multiply(c)
          [] name \in {"STR", "STRB", "STRX"} -> Store(c)
          [] name \in {"LDR", "LDRB", "LDRX"} -> Load(c)
          [] name \in {"SWP", "SWPB"} -> Swap(c)
          [] name = "STM" -> STM(c)
          [] name = "LDM" -> LDM(c)
          [] name \in {"B", "BL", "BLX", "BLX_I", "BX", "BPRE"} -> Branch(c)
          [] name = "MRC" -> MRC(c)
          [] name = "MCR" -> MCR(c)
          [] name = "MRS" -> MRS(c)
          [] name \in {"MSR_I", "MSR_R"} -> MSR(c)
          [] name = "SWI" -> x("mov", ecx, Imm(c.imm)) \o x0("swi")
          [] OTHER -> DEBUG_BREAK

\* flags_updated after an instruction: store_flags was called for it, whether
\* or not it emitted the store.
flags_updated(c) ==
    \E k \in 1 .. Len(Body([c EXCEPT !.look = FALSE])) :
        Body([c EXCEPT !.look = FALSE])[k] = <<"save_flags">>

\* Conditions are reversed: the jump skips the instruction.
Unless(cond) == <<"jnz", "jz", "jnc", "jc", "jns", "js", "jno", "jo",
                  "jbe", "jnbe", "jl", "jge", "jle", "jg">>[cond + 1]
compile_instruction(c) ==
    LET actual == c.updated /\ ~c.look
        body == Body([c EXCEPT !.actual = actual \/ c.cond \notin {AL, NV}])
    IN  If(c.look, x0("inc_ebx"))
        \o (IF c.cond \in {AL, NV} THEN body
            ELSE If(~actual, load_flags) \o If(c.cond \in {8, 9}, x0("cmc"))
                 \o <<<<"if", Unless(c.cond), Len(body)>>>> \o body)

\* compile: the k-th of a page's last instructions, and what is known of its
\* neighbours.
\* Mutant: an instruction that reads the carry is taken for one that does not.
lookahead_s_reading(next) == next.s
lookahead_s(next) ==
    next.s /\ next.inst[1] \notin {"ADC", "SBC"} /\ next.shift # "RRX"
AtIndex(page, k) ==
    [page[k] EXCEPT !.at = (PageSize \div 2 ^ page[k].bits) - Len(page) + k - 1,
                    !.look = k < Len(page) /\ lookahead_s(page[k + 1]),
                    !.updated = k > 1 /\ flags_updated(page[k - 1])]

\* epilogue: on to the first instruction of the next page.
epilogue == load_r15_ecx \o x("add", ecx, Imm(PageSize)) \o Jump
==============================================================================
