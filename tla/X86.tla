--------------------------------- MODULE X86 ---------------------------------
(***************************************************************************)
(* The host machine that generated code runs on, as far as Compiler.cpp    *)
(* uses it: a few registers, the four flags, the stack, and the context    *)
(* that ebp points to (the guest's registers, its saved flags x86_flags).  *)
(* Words have W bits instead of 32, and a byte is a quarter of a word.     *)
(* Memory and the functions of HLE are outside: an access or a call is     *)
(* logged, a load returns Content.  What an instruction leaves undefined,  *)
(* or what a called function may destroy, is spoiled.                      *)
(***************************************************************************)
EXTENDS Integers, Sequences, SequencesExt, Bitwise

CONSTANT W
ASSUME WAssumption == W \in {4, 8, 16}

M == 2 ^ W
Word == 0 .. M - 1
Negative(v) == v >= M \div 2
Signed(v) == IF Negative(v) THEN v - M ELSE v
Num(b) == IF b THEN 1 ELSE 0
Flag(n, z, c, v) == [n |-> n, z |-> z, c |-> c, v |-> v]
Extended(v, bits) ==
    LET low == v % 2 ^ bits
    IN  (IF low >= 2 ^ (bits - 1) THEN low - 2 ^ bits ELSE low) % M

Content(a) == (5 * a + 3 + (a \div 8)) % M
Loaded(size, a) ==
    CASE size = "32" -> Content(a)
      [] size = "16u" -> Content(a) % 2 ^ (W \div 2)
      [] size = "16s" -> Extended(Content(a), W \div 2)
      [] size = "8u" -> Content(a) % 2 ^ (W \div 4)

\* Operands: host register, guest register, its copy in the user's context,
\* another field of the context, constant.
eax == <<"host", "eax">>
ecx == <<"host", "ecx">>
edx == <<"host", "edx">>
esi == <<"host", "esi">>
R(n) == <<"guest", n>>
User(n) == <<"user", n>>
Field(name) == <<"host", name>>
Imm(v) == <<"imm", v % M>>
Const(v) == <<"imm", v>>

Get(m, o) == CASE o[1] = "host" -> m[o[2]]
               [] o[1] = "guest" -> m.r[o[2]]
               [] o[1] = "imm" -> o[2]
Put(m, o, v) == CASE o[1] = "host" -> [m EXCEPT ![o[2]] = v]
                  [] o[1] = "guest" -> [m EXCEPT !.r[o[2]] = v]
                  [] o[1] = "user" -> [m EXCEPT !.user[o[2]] = v]
Flagged(m, v, c, o) == [m EXCEPT !.f = Flag(Negative(v), v = 0, c, o)]
Spoiled(m) == Flag(~m.x.n, ~m.x.z, ~m.x.c, ~m.x.v)

Sum(m, a, b, c) ==
    Flagged(m, (a + b + c) % M, a + b + c >= M,
            Signed(a) + Signed(b) + c # Signed((a + b + c) % M))
Difference(m, a, b, c) ==
    Flagged(m, (a - b - c) % M, a < b + c,
            Signed(a) - Signed(b) - c # Signed((a - b - c) % M))

\* Shifts: the count is taken modulo the width; a count of 0 changes nothing.
Shifted(kind, v, n) ==
    CASE kind = "shl" -> (v * 2 ^ n) % M
      [] kind = "shr" -> v \div 2 ^ n
      [] kind = "sar" -> (Signed(v) \div 2 ^ n) % M
      [] kind = "ror" -> (v \div 2 ^ n) + (v % 2 ^ n) * 2 ^ (W - n)
ShiftedOut(kind, v, n) ==
    IF kind = "shl" THEN (v \div 2 ^ (W - n)) % 2 = 1 ELSE (v \div 2 ^ (n - 1)) % 2 = 1
Shift(m, kind, d, count) ==
    LET n == count % W
        v == Shifted(kind, Get(m, d), n)
        c == ShiftedOut(kind, Get(m, d), n)
    IN  IF n = 0 THEN m
        ELSE IF kind = "ror" THEN Put([m EXCEPT !.f.c = c, !.f.v = ~m.x.v], d, v)
        ELSE Put(Flagged(m, v, c, ~m.x.v), d, v)

\* A call: eax, ecx, edx and the flags belong to the function called.
Unlogged(m) ==
    [m EXCEPT !.eax = M - 1, !.ecx = M - 3, !.edx = M - 5, !.f = Spoiled(m)]
Called(m, entry, result) ==
    [Unlogged(m) EXCEPT !.log = Append(@, entry), !.eax = result]

\* load32_array(address, number, destination), store32_array likewise: the
\* arguments are on the stack, the words in the context or below them.
ArrayLog(kind, m) == <<kind, m.stack[1], m.stack[2]>>
LoadArray(m) ==
    LET Item(k) == Content((m.stack[1] + 4 * k) % M)
        n == m.stack[2]
        p == m.stack[3]
        l == Called(m, ArrayLog("load_array", m), 0)
    IN  IF p[1] = "regs"
        THEN [l EXCEPT !.r = [i \in DOMAIN @ |->
                               IF i \in p[2] .. p[2] + n - 1 THEN Item(i - p[2]) ELSE @[i]]]
        ELSE [l EXCEPT !.stack = [i \in DOMAIN @ |->
                                   IF i \in 4 .. 3 + n THEN Item(i - 4) ELSE @[i]]]
StoreArray(m) ==
    LET n == m.stack[2]
        p == m.stack[3]
        Words == [k \in 1 .. n |-> IF p[1] = "regs" THEN m.r[p[2] + k - 1]
                                                    ELSE m.stack[3 + k]]
    IN  Called(m, Append(ArrayLog("store_array", m), Words), 0)

\* loadcpsr with the mode in its mask: the shared registers go along.
Banked == {13, 14}
Switched(m) ==
    IF m.ecx = "user"
    THEN [m EXCEPT !.cpsr = "user",
                   !.user = [i \in DOMAIN @ |-> IF i \in Banked THEN @[i] ELSE m.r[i]]]
    ELSE IF m.cpsr = "user"
         THEN [m EXCEPT !.cpsr = m.ecx,
                        !.r = [i \in DOMAIN @ |-> IF i \in Banked THEN @[i] ELSE m.user[i]]]
         ELSE m

Taken(f, jump) ==
    CASE jump = "jnz" -> ~f.z   [] jump = "jz" -> f.z
      [] jump = "jnc" -> ~f.c   [] jump = "jc" -> f.c
      [] jump = "jns" -> ~f.n   [] jump = "js" -> f.n
      [] jump = "jno" -> ~f.v   [] jump = "jo" -> f.v
      [] jump = "jbe" -> f.c \/ f.z   [] jump = "jnbe" -> ~f.c /\ ~f.z
      [] jump = "jl" -> f.n # f.v     [] jump = "jge" -> f.n = f.v
      [] jump = "jle" -> f.z \/ f.n # f.v   [] jump = "jg" -> ~f.z /\ f.n = f.v

\* The instructions with two operands that compute.
Compute(m, i) ==
    LET a == Get(m, i[2])
        b == Get(m, i[3])
        k == Num(m.f.c)
        Logical(v) == Put(Flagged(m, v, FALSE, FALSE), i[2], v)
    IN  CASE i[1] = "mov" -> Put(m, i[2], b)
          [] i[1] = "add" -> Put(Sum(m, a, b, 0), i[2], (a + b) % M)
          [] i[1] = "adc" -> Put(Sum(m, a, b, k), i[2], (a + b + k) % M)
          [] i[1] = "sub" -> Put(Difference(m, a, b, 0), i[2], (a - b) % M)
          [] i[1] = "sbb" -> Put(Difference(m, a, b, k), i[2], (a - b - k) % M)
          [] i[1] = "cmp" -> Difference(m, a, b, 0)
          [] i[1] = "and" -> Logical(a & b)
          [] i[1] = "or" -> Logical(a | b)
          [] i[1] = "xor" -> Logical(a ^^ b)
          [] i[1] = "test" -> Flagged(m, a & b, FALSE, FALSE)
          [] i[1] = "not" -> Put(m, i[2], M - 1 - a)
          [] i[1] = "neg" -> Put(Difference(m, 0, a, 0), i[2], (-a) % M)
          [] i[1] = "dec" -> Put([Difference(m, a, 1, 0) EXCEPT !.f.c = m.f.c],
                                 i[2], (a - 1) % M)
          [] i[1] = "movsx" -> Put(m, i[2], Extended(a, W \div 4))
          [] i[1] = "cmova" -> IF ~m.f.c /\ ~m.f.z THEN Put(m, i[2], b) ELSE m
          [] i[1] \in {"shl", "shr", "sar", "ror"} -> Shift(m, i[1], i[2], b)
          [] i[1] = "rcr" -> Put([m EXCEPT !.f.c = a % 2 = 1, !.f.v = ~m.x.v], i[2],
                                 (a \div 2) + k * (M \div 2))
          [] i[1] = "rcl" -> Put([m EXCEPT !.f.c = Negative(a), !.f.v = ~m.x.v], i[2],
                                 (2 * a + k) % M)
          [] i[1] = "push" -> [m EXCEPT !.stack = <<a>> \o @]
          [] i[1] = "pop" -> Put([m EXCEPT !.stack = Tail(@)], i[2], Head(m.stack))

\* Products: the high word in edx; the sign and zero flags are undefined.
Multiplied(m, p) ==
    [m EXCEPT !.eax = p % M, !.edx = (p \div M) % M, !.f = Spoiled(m)]

\* clz: the loop of CLZ, d = the width less the shifts until m & mask = 0.
RECURSIVE Loop(_, _, _)
Loop(m, d, s) ==
    IF m.ecx & Get(m, s) = 0 THEN Flagged([m EXCEPT !.eax = 0], 0, FALSE, FALSE)
    ELSE Loop(Put([m EXCEPT !.ecx = (2 * @) % M], d, (Get(m, d) - 1) % M), d, s)

Execute(m, i) ==
    CASE i[1] = "jump" -> [m EXCEPT !.jump = m.ecx]
      [] i[1] = "int3" -> [m EXCEPT !.broken = TRUE]
      [] i[1] = "save_flags" -> [m EXCEPT !.x = m.f, !.eax = M - 2]
      [] i[1] = "load_flags" -> [m EXCEPT !.f = m.x, !.eax = M - 2]
      [] i[1] = "saved_carry" -> [m EXCEPT !.esi = Num(m.x.c)]
      [] i[1] = "cmc" -> [m EXCEPT !.f.c = ~@]
      [] i[1] = "inc_ebx" -> [m EXCEPT !.f.n = FALSE, !.f.z = FALSE, !.f.v = FALSE]
      [] i[1] = "if" -> IF Taken(m.f, i[2]) THEN [m EXCEPT !.skip = i[3]] ELSE m
      [] i[1] = "load" -> Called(m, <<"load", i[2], m.ecx>>, Loaded(i[2], m.ecx))
      [] i[1] = "store" -> Called(m, <<"store", i[2], m.ecx, m.edx>>, 0)
      [] i[1] = "load_array" -> LoadArray(m)
      [] i[1] = "store_array" -> StoreArray(m)
      [] i[1] = "remap_tcm" -> Called(m, <<"remap_tcm", m.ecx, m.edx>>, 0)
      [] i[1] = "loadcpsr" -> Called(m, <<"loadcpsr", m.ecx, m.edx>>, 0)
      [] i[1] = "loadcpsr_mode" -> Unlogged(Switched(m))
      [] i[1] = "swi" -> Called(m, <<"swi", m.ecx>>, 0)
      [] i[1] = "storecpsr" -> Called(m, <<"storecpsr">>, 1)
      [] i[1] = "callstack" -> Unlogged(m)
      [] i[1] = "mul" -> Multiplied(m, m.eax * Get(m, i[2]))
      [] i[1] = "imul" -> Multiplied(m, Signed(m.eax) * Signed(Get(m, i[2])))
      [] i[1] = "drop" -> [m EXCEPT !.stack = SubSeq(@, i[2] + 1, Len(@)), !.f = Spoiled(m)]
      [] i[1] = "reserve" -> [m EXCEPT !.stack = [k \in 1 .. i[2] |-> 0] \o @,
                                       !.f = Spoiled(m)]
      [] i[1] = "clz" -> Loop(m, i[2], i[3])
      [] OTHER -> Compute(m, i)

\* Code runs in order; a taken jump skips instructions; a break, or a jump to
\* another page, ends it.
Run(m, code) ==
    FoldLeft(LAMBDA s, i : IF s.broken \/ s.jump # -1 THEN s
                           ELSE IF s.skip > 0 THEN [s EXCEPT !.skip = @ - 1]
                           ELSE Execute(s, i), m, code)
==============================================================================
