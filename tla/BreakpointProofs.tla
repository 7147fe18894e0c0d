--------------------------- MODULE BreakpointProofs ---------------------------
(***************************************************************************)
(* Proofs about breakpoints: every one that is set is in the code and in   *)
(* the debugger table where its line is, through every order of toggles,   *)
(* steps, stops and compilations of the page, for pages of every size and  *)
(* code placed anywhere, unless two breakpoints have met at one position.  *)
(***************************************************************************)
EXTENDS Breakpoint, FiniteSetTheorems, WellFoundedInduction, TLAPS

USE NumAssumption, SizeAssumption

-----------------------------------------------------------------------------
(* What holds at 0 and is handed on holds up to N: the least number for    *)
(* which it fails has one before it.                                       *)
LEMMA Induct ==
  ASSUME NEW N \in Nat, NEW S \in SUBSET (0 .. N), 0 \in S,
         \A n \in 0 .. N - 1 : n \in S => n + 1 \in S
  PROVE  \A n \in 0 .. N : n \in S
<1> SUFFICES ASSUME NEW m \in 0 .. N, m \notin S PROVE FALSE
  OBVIOUS
<1> DEFINE T == (0 .. N) \ S
<1>1. T \subseteq Nat /\ T # {}
  OBVIOUS
<1>2. PICK x \in T : \A y \in T : ~ (<<y, x>> \in OpToRel(<, Nat))
  <2> HIDE DEF T
  <2> QED BY <1>1, NatLessThanWellFounded, WFMin
<1>3. x # 0 /\ x \in Nat
  OBVIOUS
<1>4. x - 1 \in T
  OBVIOUS
<1>5. <<x - 1, x>> \in OpToRel(<, Nat)
  BY <1>3 DEF OpToRel
<1> QED BY <1>2, <1>4, <1>5

(* A loop of N rounds over the values of X has a function of its results.  *)
Loops(N, X, b, round) ==
  \E g \in [0 .. N -> X] :
    \A n \in 0 .. N : g[n] = IF n = 0 THEN b ELSE round[n][g[n - 1]]

LEMMA Rounds ==
  ASSUME NEW N \in Nat, NEW X, NEW b \in X, NEW round \in [1 .. N -> [X -> X]]
  PROVE  Loops(N, X, b, round)
<1> DEFINE R(k) == Loops(k, X, b, round)
           S == {k \in 0 .. N : R(k)}
<1>1. 0 \in S
  <2> DEFINE h == [n \in 0 .. 0 |-> b]
  <2>1. h \in [0 .. 0 -> X] /\ \A n \in 0 .. 0 : n = 0 /\ h[n] = b
    OBVIOUS
  <2>2. R(0)
    BY <2>1 DEF Loops
  <2> QED BY <2>2
<1>2. ASSUME NEW k \in 0 .. N - 1, k \in S PROVE k + 1 \in S
  <2>1. PICK g \in [0 .. k -> X] :
          \A n \in 0 .. k : g[n] = IF n = 0 THEN b ELSE round[n][g[n - 1]]
    BY <1>2 DEF Loops
  <2> DEFINE next == round[k + 1][g[k]]
             h == [n \in 0 .. k + 1 |-> IF n = k + 1 THEN next ELSE g[n]]
  <2>2. next \in X
    <3>1. g[k] \in X /\ k + 1 \in 1 .. N
      OBVIOUS
    <3> QED BY <3>1
  <2>3. h[k + 1] = round[k + 1][g[k]] /\ \A n \in 0 .. k : h[n] = g[n]
    BY DEF h
  <2> HIDE DEF next
  <2>4. h \in [0 .. k + 1 -> X]
    BY <2>2
  <2> HIDE DEF h
  <2>5. ASSUME NEW n \in 0 .. k + 1
        PROVE  h[n] = IF n = 0 THEN b ELSE round[n][h[n - 1]]
    <3>1. CASE n = 0
      <4>1. g[0] = b
        BY <2>1
      <4> QED BY <2>3, <3>1, <4>1
    <3>2. CASE n \in 1 .. k
      <4>1. n - 1 \in 0 .. k /\ n \in 0 .. k
        BY <3>2
      <4> QED BY <2>1, <2>3, <3>2, <4>1
    <3>3. CASE n = k + 1
      <4>1. h[k] = g[k] /\ n - 1 = k /\ n # 0
        BY <2>3, <3>3
      <4> QED BY <2>3, <3>3, <4>1
    <3> QED BY <3>1, <3>2, <3>3
  <2>6. R(k + 1)
    BY <2>4, <2>5 DEF Loops
  <2> HIDE DEF R
  <2> QED BY <2>6
<1>3. S \in SUBSET (0 .. N)
  OBVIOUS
<1> HIDE DEF S
<1>4. \A n \in 0 .. N : n \in S
  BY <1>1, <1>2, <1>3, Induct
<1>5. N \in S
  BY <1>4
<1> QED BY <1>5 DEF S

-----------------------------------------------------------------------------
(* Instructions are laid out one behind the other, none without code.      *)
LEMMA Placement ==
  ASSUME NEW b \in Base, NEW size \in [Inst -> Sizes]
  PROVE  /\ Placed(b, size) \in [1 .. NUM + 1 -> Nat]
         /\ \A a \in Inst : Placed(b, size)[a] < Placed(b, size)[a + 1]
<1> DEFINE P(place) == place = [i \in 1 .. NUM + 1 |->
                                  IF i = 1 THEN b ELSE place[i - 1] + size[i - 1]]
           round == [n \in 1 .. NUM |-> [x \in Nat |-> x + size[n]]]
           r == Placed(b, size)
<1>0. b \in Nat /\ NUM \in Nat /\ \A n \in 1 .. NUM : size[n] \in Nat \ {0}
  BY DEF Inst
<1>1. round \in [1 .. NUM -> [Nat -> Nat]]
  BY <1>0
<1> HIDE DEF round
<1>2. PICK g \in [0 .. NUM -> Nat] :
        \A n \in 0 .. NUM : g[n] = IF n = 0 THEN b ELSE round[n][g[n - 1]]
  <2>1. Loops(NUM, Nat, b, round)
    BY <1>0, <1>1, Rounds
  <2> QED BY <2>1 DEF Loops
<1>3. ASSUME NEW n \in 1 .. NUM
      PROVE  g[n] = g[n - 1] + size[n]
  <2>1. n \in 0 .. NUM /\ n # 0 /\ n - 1 \in 0 .. NUM
    OBVIOUS
  <2>2. g[n] = round[n][g[n - 1]] /\ g[n - 1] \in Nat
    BY <1>2, <2>1
  <2> QED BY <2>2 DEF round
<1> DEFINE place == [i \in 1 .. NUM + 1 |-> g[i - 1]]
<1>4. P(place)
  <2>1. ASSUME NEW i \in 1 .. NUM + 1
        PROVE  g[i - 1] = IF i = 1 THEN b ELSE place[i - 1] + size[i - 1]
    <3>1. CASE i = 1
      <4>1. g[0] = b
        BY <1>0, <1>2
      <4> QED BY <3>1, <4>1
    <3>2. CASE i # 1
      <4>1. i - 1 \in 1 .. NUM /\ i - 1 \in 1 .. NUM + 1
        BY <3>2
      <4>2. place[i - 1] = g[(i - 1) - 1]
        BY <4>1
      <4> QED BY <1>3, <3>2, <4>1, <4>2
    <3> QED BY <3>1, <3>2
  <2> QED BY <2>1
<1> HIDE DEF place
<1>5. r = CHOOSE f : P(f)
  BY Zenon DEF Placed
<1> HIDE DEF P, r
<1>6. P(r)
  BY <1>4, <1>5, Zenon
<1>7. r = [i \in 1 .. NUM + 1 |-> IF i = 1 THEN b ELSE r[i - 1] + size[i - 1]]
  BY <1>6, Zenon DEF P
<1>8. \A a \in Inst : r[a + 1] = r[a] + size[a]
  BY <1>7 DEF Inst
<1> DEFINE S == {k \in 0 .. NUM : r[k + 1] \in Nat}
<1>9. 0 \in S
  BY <1>0, <1>7
<1>10. \A n \in 0 .. NUM - 1 : n \in S => n + 1 \in S
  <2> SUFFICES ASSUME NEW n \in 0 .. NUM - 1, r[n + 1] \in Nat
               PROVE  r[n + 2] \in Nat
    OBVIOUS
  <2>1. n + 1 \in Inst
    BY DEF Inst
  <2>2. r[(n + 1) + 1] = r[n + 1] + size[n + 1]
    BY <1>8, <2>1
  <2> QED BY <1>0, <2>1, <2>2 DEF Inst
<1>11. S \in SUBSET (0 .. NUM)
  OBVIOUS
<1> HIDE DEF S
<1>12. \A n \in 0 .. NUM : n \in S
  BY <1>9, <1>10, <1>11, Induct
<1>13. \A i \in 1 .. NUM + 1 : r[i] \in Nat
  <2> SUFFICES ASSUME NEW i \in 1 .. NUM + 1 PROVE r[i] \in Nat
    OBVIOUS
  <2>1. i - 1 \in S
    BY <1>12
  <2> QED BY <2>1 DEF S
<1>14. r \in [1 .. NUM + 1 -> Nat]
  BY <1>7, <1>13
<1>15. \A a \in Inst : r[a] < r[a + 1]
  BY <1>0, <1>8, <1>13 DEF Inst
<1> QED BY <1>14, <1>15 DEF r

(* Every instruction of the page begins within its code.                   *)
LEMMA LayoutType ==
  ASSUME NEW r \in Layout
  PROVE  /\ r \in [1 .. NUM + 1 -> Nat] /\ r # <<>>
         /\ \A a \in Inst : r[a] \in r[1] .. r[NUM + 1] - 1
<1>1. r \in [1 .. NUM + 1 -> Nat] /\ \A a \in Inst : r[a] < r[a + 1]
  BY Placement DEF Layout
<1>2. r # <<>>
  <2>1. DOMAIN r = 1 .. NUM + 1 /\ 1 \in 1 .. NUM + 1
    BY <1>1
  <2> QED BY <2>1
<1>3. NUM - 1 \in Nat
  OBVIOUS
<1> DEFINE Up == {k \in 0 .. NUM - 1 : r[1] <= r[k + 1]}
           Down == {k \in 0 .. NUM - 1 : r[NUM - k] < r[NUM + 1]}
<1>4. 0 \in Up /\ 0 \in Down
  BY <1>1 DEF Inst
<1>5. \A n \in 0 .. (NUM - 1) - 1 : n \in Up => n + 1 \in Up
  <2> SUFFICES ASSUME NEW n \in 0 .. (NUM - 1) - 1, r[1] <= r[n + 1]
               PROVE  r[1] <= r[n + 2]
    OBVIOUS
  <2>1. n + 1 \in Inst /\ 1 \in 1 .. NUM + 1 /\ n + 1 \in 1 .. NUM + 1
        /\ n + 2 \in 1 .. NUM + 1
    BY DEF Inst
  <2>2. r[n + 1] < r[(n + 1) + 1]
    BY <1>1, <2>1
  <2>3. r[1] \in Nat /\ r[n + 1] \in Nat /\ r[n + 2] \in Nat
    BY <1>1, <2>1
  <2> QED BY <2>2, <2>3
<1>6. \A n \in 0 .. (NUM - 1) - 1 : n \in Down => n + 1 \in Down
  <2> SUFFICES ASSUME NEW n \in 0 .. (NUM - 1) - 1, r[NUM - n] < r[NUM + 1]
               PROVE  r[NUM - (n + 1)] < r[NUM + 1]
    OBVIOUS
  <2> DEFINE a == NUM - (n + 1)
  <2>1. a \in Inst /\ a + 1 = NUM - n /\ NUM + 1 \in 1 .. NUM + 1
    BY DEF Inst
  <2> HIDE DEF a
  <2>2. r[a] < r[a + 1] /\ a \in 1 .. NUM + 1 /\ a + 1 \in 1 .. NUM + 1
    BY <1>1, <2>1 DEF Inst
  <2>3. r[a] \in Nat /\ r[a + 1] \in Nat /\ r[NUM + 1] \in Nat
    BY <1>1, <2>1, <2>2
  <2> QED BY <2>1, <2>2, <2>3 DEF a
<1>7. Up \in SUBSET (0 .. NUM - 1) /\ Down \in SUBSET (0 .. NUM - 1)
  OBVIOUS
<1> HIDE DEF Up, Down
<1>8. \A n \in 0 .. NUM - 1 : n \in Up
  BY <1>3, <1>4, <1>5, <1>7, Induct
<1>9. \A n \in 0 .. NUM - 1 : n \in Down
  BY <1>3, <1>4, <1>6, <1>7, Induct
<1>10. ASSUME NEW a \in Inst
       PROVE  r[a] \in r[1] .. r[NUM + 1] - 1
  <2>1. a - 1 \in 0 .. NUM - 1 /\ NUM - a \in 0 .. NUM - 1
    BY DEF Inst
  <2>2. a - 1 \in Up /\ NUM - a \in Down
    BY <1>8, <1>9, <2>1
  <2>3. (a - 1) + 1 = a /\ NUM - (NUM - a) = a
    BY DEF Inst
  <2>4. r[1] <= r[a] /\ r[a] < r[NUM + 1]
    BY <2>2, <2>3 DEF Up, Down
  <2>5. a \in 1 .. NUM + 1 /\ 1 \in 1 .. NUM + 1 /\ NUM + 1 \in 1 .. NUM + 1
    BY DEF Inst
  <2>6. r[a] \in Nat /\ r[1] \in Nat /\ r[NUM + 1] \in Nat
    BY <1>1, <2>5
  <2> QED BY <2>4, <2>6
<1> QED BY <1>1, <1>2, <1>10

-----------------------------------------------------------------------------
(* What the loops and calls over breakpoints work on.                      *)
TableEntry == [owner : Owner, sub : Sub]
DebugTable == UNION {[P -> TableEntry] : P \in SUBSET Nat}
Heaps == [byte : SUBSET Nat, data : [Owner -> BreakData], dt : DebugTable,
          confused : BOOLEAN]

LEMMA TableIs ==
  ASSUME NEW P \in SUBSET Nat, NEW t, t = [p \in P |-> t[p]],
         \A p \in P : t[p] \in TableEntry
  PROVE  t \in DebugTable
<1>1. t \in [P -> TableEntry]
  OBVIOUS
<1> QED BY <1>1 DEF DebugTable

LEMMA TableType ==
  ASSUME NEW t \in DebugTable
  PROVE  /\ DOMAIN t \in SUBSET Nat /\ t = [p \in DOMAIN t |-> t[p]]
         /\ \A p \in DOMAIN t : t[p] \in TableEntry
<1>1. PICK P \in SUBSET Nat : t \in [P -> TableEntry]
  BY DEF DebugTable
<1>2. DOMAIN t = P
  BY <1>1
<1> QED BY <1>1, <1>2

LEMMA HeapType ==
  ASSUME NEW h \in Heaps
  PROVE  /\ h.byte \in SUBSET Nat /\ h.data \in [Owner -> BreakData]
         /\ h.dt \in DebugTable /\ h.confused \in BOOLEAN
         /\ h = [byte |-> h.byte, data |-> h.data, dt |-> h.dt,
                 confused |-> h.confused]
BY DEF Heaps

LEMMA DataType ==
  ASSUME NEW d \in BreakData
  PROVE  /\ d.addr \in Addr /\ d.count \in 0 .. MAX_SUBINSTRUCTIONS
         /\ d.used \in SUBSET Sub /\ d.patched \in SUBSET Sub
         /\ d.pos \in [Sub -> Nat \cup {None}]
         /\ d.original \in [Sub -> {"code", "break"}]
         /\ d = [addr |-> d.addr, count |-> d.count, used |-> d.used,
                 patched |-> d.patched, pos |-> d.pos, original |-> d.original]
BY DEF BreakData

(* A table without the positions P, and with new entries there.            *)
LEMMA Taken ==
  ASSUME NEW t \in DebugTable, NEW P
  PROVE  /\ Without(t, P) \in DebugTable
         /\ DOMAIN Without(t, P) = DOMAIN t \ P
         /\ \A p \in DOMAIN t \ P : Without(t, P)[p] = t[p]
<1> DEFINE u == Without(t, P)
<1>1. u = [p \in DOMAIN t \ P |-> t[p]]
  BY DEF Without, Restrict
<1>2. DOMAIN t \in SUBSET Nat /\ \A p \in DOMAIN t : t[p] \in TableEntry
  BY TableType
<1> HIDE DEF u
<1>3. DOMAIN u = DOMAIN t \ P /\ \A p \in DOMAIN t \ P : u[p] = t[p]
  BY <1>1
<1>4. u \in DebugTable
  <2> DEFINE D == DOMAIN t \ P
  <2>1. D \in SUBSET Nat /\ u = [p \in D |-> u[p]] /\ \A p \in D : u[p] \in TableEntry
    BY <1>1, <1>2, <1>3
  <2> HIDE DEF D
  <2> QED BY <2>1, TableIs
<1> QED BY <1>3, <1>4 DEF u

(* What the code knows of the breakpoint d when its line s is switched and *)
(* the lines of Q are patched then.                                        *)
Switched(d, s, Q) ==
  [addr |-> d.addr, count |-> d.count,
   used |-> IF s \in d.used THEN d.used \ {s} ELSE d.used \cup {s},
   patched |-> Q, pos |-> d.pos, original |-> d.original]

LEMMA Fields ==
  ASSUME NEW d \in BreakData, NEW U, NEW Q
  PROVE  /\ [d EXCEPT !.used = U] =
              [addr |-> d.addr, count |-> d.count, used |-> U, patched |-> d.patched,
               pos |-> d.pos, original |-> d.original]
         /\ [d EXCEPT !.patched = Q] =
              [addr |-> d.addr, count |-> d.count, used |-> d.used, patched |-> Q,
               pos |-> d.pos, original |-> d.original]
BY DEF BreakData

LEMMA HeapFields ==
  ASSUME NEW h \in Heaps, NEW X
  PROVE  [h EXCEPT !.data = X] =
           [byte |-> h.byte, data |-> X, dt |-> h.dt, confused |-> h.confused]
BY DEF Heaps

LEMMA SwitchedType ==
  ASSUME NEW d \in BreakData, NEW s \in Sub, NEW Q \in SUBSET Sub
  PROVE  LET e == Switched(d, s, Q)
         IN /\ e \in BreakData
            /\ e.addr = d.addr /\ e.count = d.count /\ e.pos = d.pos
            /\ e.original = d.original /\ e.patched = Q
            /\ e.used = IF s \in d.used THEN d.used \ {s} ELSE d.used \cup {s}
<1> DEFINE e == Switched(d, s, Q)
<1>1. e \in BreakData
  BY DataType DEF Switched, BreakData
<1> QED BY <1>1 DEF Switched

(* toggle_sub: the line is unpatched, or patched, or neither.              *)
Toggled(g, h, o, s, Q) ==
  /\ g.data = [h.data EXCEPT ![o] = Switched(h.data[o], s, Q)]
  /\ LET d == h.data[o]
         p == d.pos[s]
     IN \/ /\ p = None \/ (s \in d.used <=> s \notin d.patched)
           /\ Q = d.patched /\ g.byte = h.byte /\ g.dt = h.dt
           /\ g.confused = h.confused
        \/ /\ p # None /\ s \in d.used /\ s \in d.patched
           /\ Q = d.patched \ {s}
           /\ g.byte = IF d.original[s] = "break" THEN h.byte \cup {p} ELSE h.byte \ {p}
           /\ g.dt = Without(h.dt, {p}) /\ g.confused = h.confused
        \/ /\ p # None /\ s \notin d.used /\ s \notin d.patched
           /\ Q = d.patched \cup {s} /\ g.byte = h.byte \cup {p}
           /\ DOMAIN g.dt = DOMAIN h.dt \cup {p}
           /\ \A q \in DOMAIN g.dt :
                g.dt[q] = IF q = p THEN [owner |-> o, sub |-> s] ELSE h.dt[q]
           /\ g.confused = (h.confused \/ p \in DOMAIN h.dt)

LEMMA ToggleIs ==
  ASSUME NEW h \in Heaps, NEW o \in Owner, NEW s \in Sub
  PROVE  LET g == toggle_sub(h, o, s)
         IN g \in Heaps /\ \E Q \in SUBSET Sub : Toggled(g, h, o, s, Q)
<1> DEFINE d == h.data[o]
           p == d.pos[s]
           U == IF s \in d.used THEN d.used \ {s} ELSE d.used \cup {s}
           f == [h EXCEPT !.data = [h.data EXCEPT ![o].used = U]]
           g == toggle_sub(h, o, s)
<1>1. /\ h.byte \in SUBSET Nat /\ h.data \in [Owner -> BreakData]
      /\ h.dt \in DebugTable /\ h.confused \in BOOLEAN
      /\ h = [byte |-> h.byte, data |-> h.data, dt |-> h.dt, confused |-> h.confused]
  BY HeapType
<1>2. d \in BreakData
  BY <1>1
<1>3. /\ d.used \in SUBSET Sub /\ d.patched \in SUBSET Sub
      /\ p \in Nat \cup {None}
  BY <1>2, DataType
<1> DEFINE data0 == [h.data EXCEPT ![o] = Switched(d, s, d.patched)]
<1>4. f = [byte |-> h.byte, data |-> data0, dt |-> h.dt, confused |-> h.confused]
  <2> DEFINE X == [h.data EXCEPT ![o].used = U]
  <2>1. [d EXCEPT !.used = U] = Switched(d, s, d.patched)
    BY <1>2, Fields DEF Switched
  <2>2. X = data0
    BY <2>1
  <2>3. f = [h EXCEPT !.data = X]
    OBVIOUS
  <2> HIDE DEF f, X, data0
  <2> QED BY <2>2, <2>3, HeapFields
<1> HIDE DEF f
<1>5. /\ f.byte = h.byte /\ f.dt = h.dt /\ f.confused = h.confused
      /\ f.data = data0 /\ f.data[o] = Switched(d, s, d.patched)
      /\ f.data[o].pos[s] = p /\ f.data[o].patched = d.patched
      /\ f.data[o].original = d.original /\ DOMAIN f.data = Owner
  BY <1>1, <1>4 DEF Switched
<1>6. ASSUME NEW Q \in SUBSET Sub
      PROVE  [f.data EXCEPT ![o].patched = Q] = [h.data EXCEPT ![o] = Switched(d, s, Q)]
  <2> HIDE DEF d
  <2>1. [Switched(d, s, d.patched) EXCEPT !.patched = Q] = Switched(d, s, Q)
    <3>1. Switched(d, s, d.patched) \in BreakData
      BY <1>2, <1>3, SwitchedType
    <3> QED BY <3>1, Fields DEF Switched
  <2>2. [f.data EXCEPT ![o].patched = Q]
          = [f.data EXCEPT ![o] = Switched(d, s, Q)]
    BY <1>5, <2>1
  <2> QED BY <1>1, <1>5, <2>2
<1>7. g = IF p = None THEN f ELSE IF s \in d.used THEN unpatch_bi(f, o, s)
                                  ELSE patch_bi(f, o, s)
  BY DEF toggle_sub, f
<1> HIDE DEF g, d, data0, U
<1>8. \A Q \in SUBSET Sub : [h.data EXCEPT ![o] = Switched(d, s, Q)] \in [Owner -> BreakData]
  BY <1>1, <1>2, SwitchedType
<1>9. CASE p = None \/ (s \in d.used <=> s \notin d.patched)
  <2>1. /\ s \notin d.patched => unpatch_bi(f, o, s) = f
        /\ s \in d.patched => patch_bi(f, o, s) = f
    BY <1>5 DEF patch_bi, unpatch_bi
  <2>4. g = f
    BY <1>7, <1>9, <2>1
  <2>2. Toggled(g, h, o, s, d.patched)
    BY <1>5, <1>9, <2>4 DEF Toggled, d, data0
  <2>3. g \in Heaps
    BY <1>1, <1>3, <1>4, <1>8, <2>4 DEF Heaps, data0
  <2> QED BY <1>3, <2>2, <2>3 DEF g
<1>10. CASE p # None /\ s \in d.used /\ s \in d.patched
  <2> DEFINE Q == d.patched \ {s}
             B == IF d.original[s] = "break" THEN h.byte \cup {p} ELSE h.byte \ {p}
  <2>1. Q \in SUBSET Sub /\ B \in SUBSET Nat /\ p \in Nat
    BY <1>1, <1>3, <1>10
  <2>2. g = [byte |-> B, data |-> [h.data EXCEPT ![o] = Switched(d, s, Q)],
             dt |-> Without(h.dt, {p}), confused |-> h.confused]
    <3>1. g = unpatch_bi(f, o, s)
      BY <1>7, <1>10
    <3>2. unpatch_bi(f, o, s) =
            [byte |-> B, dt |-> Without(h.dt, {p}),
             data |-> [f.data EXCEPT ![o].patched = Q], confused |-> h.confused]
      BY <1>5, <1>10 DEF unpatch_bi
    <3>3. [f.data EXCEPT ![o].patched = Q] = [h.data EXCEPT ![o] = Switched(d, s, Q)]
      BY <1>6, <2>1
    <3> HIDE DEF Q, B
    <3> QED BY <1>4, <1>5, <3>1, <3>2, <3>3
  <2>3. Without(h.dt, {p}) \in DebugTable
    BY <1>1, Taken
  <2>4. g \in Heaps
    BY <1>1, <1>8, <2>1, <2>2, <2>3 DEF Heaps
  <2>5. Toggled(g, h, o, s, Q)
    BY <1>10, <2>2 DEF Toggled, d
  <2> QED BY <2>1, <2>4, <2>5 DEF g
<1>11. CASE p # None /\ s \notin d.used /\ s \notin d.patched
  <2> DEFINE Q == d.patched \cup {s}
             t == With(h.dt, {p}, LAMBDA q : [owner |-> o, sub |-> s])
             c == h.confused \/ p \in DOMAIN h.dt
  <2>1. Q \in SUBSET Sub /\ p \in Nat /\ c \in BOOLEAN
    BY <1>1, <1>3, <1>11
  <2>2. g = [byte |-> h.byte \cup {p},
             data |-> [h.data EXCEPT ![o] = Switched(d, s, Q)],
             dt |-> t, confused |-> c]
    <3>1. g = patch_bi(f, o, s)
      BY <1>7, <1>11
    <3>2. patch_bi(f, o, s) = [byte |-> h.byte \cup {p}, dt |-> t,
                               data |-> [f.data EXCEPT ![o].patched = Q],
                               confused |-> c]
      BY <1>5, <1>11 DEF patch_bi
    <3>3. [f.data EXCEPT ![o].patched = Q] = [h.data EXCEPT ![o] = Switched(d, s, Q)]
      BY <1>6, <2>1
    <3> HIDE DEF Q, t, c
    <3> QED BY <3>1, <3>2, <3>3
  <2>3. /\ DOMAIN t = DOMAIN h.dt \cup {p}
        /\ \A q \in DOMAIN t :
             t[q] = IF q = p THEN [owner |-> o, sub |-> s] ELSE h.dt[q]
        /\ t = [q \in DOMAIN t |-> t[q]]
    BY DEF With
  <2> HIDE DEF t
  <2>4. t \in DebugTable
    <3>1. DOMAIN h.dt \in SUBSET Nat /\ \A q \in DOMAIN h.dt : h.dt[q] \in TableEntry
      BY <1>1, TableType
    <3>2. [owner |-> o, sub |-> s] \in TableEntry
      BY DEF TableEntry
    <3> DEFINE D == DOMAIN t
    <3>3. D \in SUBSET Nat /\ t = [q \in D |-> t[q]] /\ \A q \in D : t[q] \in TableEntry
      BY <2>1, <2>3, <3>1, <3>2
    <3> HIDE DEF D
    <3> QED BY <3>3, TableIs
  <2>5. g \in Heaps
    BY <1>1, <1>8, <2>1, <2>2, <2>4 DEF Heaps
  <2>6. Toggled(g, h, o, s, Q)
    BY <1>11, <2>2, <2>3 DEF Toggled, d
  <2> QED BY <2>1, <2>5, <2>6 DEF g
<1> QED BY <1>9, <1>10, <1>11

-----------------------------------------------------------------------------
(* Breakpoints, table and code belong together: a line that is set and     *)
(* known is patched, the table has the patched lines and nothing else, and *)
(* all its bytes but those of hole are in the code.                        *)
Patched(h) ==
  \A o \in Owner, s \in Sub :
    s \in h.data[o].patched <=> s \in h.data[o].used /\ h.data[o].pos[s] # None
Entered(h) ==
  \A o \in Owner : \A s \in h.data[o].patched :
    /\ h.data[o].pos[s] \in DOMAIN h.dt
    /\ h.dt[h.data[o].pos[s]] = [owner |-> o, sub |-> s]
Owned(h) ==
  \A p \in DOMAIN h.dt :
    /\ h.dt[p].sub \in h.data[h.dt[p].owner].patched
    /\ p = h.data[h.dt[p].owner].pos[h.dt[p].sub]
Original(h) == \A o \in Owner, s \in Sub : h.data[o].original[s] = "code"
Linked(h, hole) ==
  /\ Patched(h) /\ Entered(h) /\ Owned(h) /\ Original(h)
  /\ h.byte \subseteq DOMAIN h.dt /\ DOMAIN h.dt \ h.byte \subseteq hole

(* Owner o alone may be switched, and nobody moves.                        *)
Unmoved(g, h, o) ==
  \A q \in Owner :
    /\ g.data[q].addr = h.data[q].addr /\ g.data[q].count = h.data[q].count
    /\ g.data[q].pos = h.data[q].pos
    /\ q # o => g.data[q].used = h.data[q].used

LEMMA ToggleUnmoved ==
  ASSUME NEW h \in Heaps, NEW o \in Owner, NEW s \in Sub, NEW g,
         g = toggle_sub(h, o, s)
  PROVE  /\ g \in Heaps /\ Unmoved(g, h, o) /\ (h.confused => g.confused)
         /\ g.data[o].used = IF s \in h.data[o].used THEN h.data[o].used \ {s}
                             ELSE h.data[o].used \cup {s}
<1>1. g \in Heaps
  BY ToggleIs
<1>2. PICK Q \in SUBSET Sub : Toggled(g, h, o, s, Q)
  BY ToggleIs
<1>3. h.data \in [Owner -> BreakData] /\ h.confused \in BOOLEAN
  BY HeapType
<1>4. /\ g.data = [h.data EXCEPT ![o] = Switched(h.data[o], s, Q)]
      /\ h.confused => g.confused
  BY <1>2 DEF Toggled
<1>5. \A q \in Owner : q # o => g.data[q] = h.data[q]
  BY <1>3, <1>4
<1>6. g.data[o] = Switched(h.data[o], s, Q)
  BY <1>3, <1>4
<1> QED BY <1>1, <1>4, <1>5, <1>6 DEF Unmoved, Switched

LEMMA ToggleLinked ==
  ASSUME NEW h \in Heaps, NEW hole, Linked(h, hole), NEW o \in Owner, NEW s \in Sub,
         NEW g, g = toggle_sub(h, o, s), ~g.confused
  PROVE  Linked(g, hole)
<1> DEFINE d == h.data[o]
           p == d.pos[s]
<1>1. h.data \in [Owner -> BreakData] /\ h.dt \in DebugTable
  BY HeapType
<1>2. PICK Q \in SUBSET Sub : Toggled(g, h, o, s, Q)
  BY ToggleIs
<1>3. /\ d \in BreakData /\ \A q \in Owner : q # o => g.data[q] = h.data[q]
      /\ g.data[o] = Switched(d, s, Q)
  BY <1>1, <1>2 DEF Toggled
<1>4. /\ g.data[o].used = IF s \in d.used THEN d.used \ {s} ELSE d.used \cup {s}
      /\ g.data[o].patched = Q
      /\ \A q \in Owner : /\ g.data[q].pos = h.data[q].pos
                          /\ g.data[q].original = h.data[q].original
  BY <1>3 DEF Switched
<1>5. \A r \in Sub : r \in d.patched <=> r \in d.used /\ d.pos[r] # None
  BY DEF Linked, Patched
<1>6. Original(g)
  BY <1>4 DEF Linked, Original
<1>7. d.original[s] = "code"
  BY DEF Linked, Original
<1>8. \A r \in DOMAIN h.dt : h.dt[r] \in TableEntry
  BY <1>1, TableType
<1> HIDE DEF d
<1>9. CASE p = None \/ (s \in d.used <=> s \notin d.patched)
  <2>1. Q = d.patched /\ g.byte = h.byte /\ g.dt = h.dt /\ p = None
    BY <1>2, <1>5, <1>9 DEF Toggled, d
  <2>2. \A q \in Owner : g.data[q].patched = h.data[q].patched
    BY <1>3, <1>4, <2>1 DEF d
  <2>3. Patched(g)
    <3>1. \A r \in Sub : r \in Q <=> r \in g.data[o].used /\ d.pos[r] # None
      BY <1>4, <1>5, <2>1
    <3> QED BY <1>3, <1>4, <3>1 DEF Patched, Linked, d
  <2>4. Entered(g)
    <3> SUFFICES ASSUME NEW q \in Owner, NEW r \in g.data[q].patched
                 PROVE  /\ g.data[q].pos[r] \in DOMAIN g.dt
                        /\ g.dt[g.data[q].pos[r]] = [owner |-> q, sub |-> r]
      BY DEF Entered
    <3>1. g.data[q].pos = h.data[q].pos /\ r \in h.data[q].patched
      BY <1>4, <2>2
    <3> QED BY <2>1, <3>1 DEF Entered, Linked
  <2>5. Owned(g)
    <3> SUFFICES ASSUME NEW r \in DOMAIN h.dt
                 PROVE  /\ h.dt[r].sub \in g.data[h.dt[r].owner].patched
                        /\ r = g.data[h.dt[r].owner].pos[h.dt[r].sub]
      BY <2>1 DEF Owned
    <3>1. h.dt[r].owner \in Owner
      BY <1>8 DEF TableEntry
    <3> QED BY <1>4, <2>2, <3>1 DEF Owned, Linked
  <2> QED BY <1>6, <2>1, <2>3, <2>4, <2>5 DEF Linked
<1>10. CASE p # None /\ s \in d.used /\ s \in d.patched
  <2>1. /\ Q = d.patched \ {s} /\ g.byte = h.byte \ {p}
        /\ g.dt = Without(h.dt, {p})
    BY <1>2, <1>7, <1>10 DEF Toggled, d
  <2>2. /\ DOMAIN g.dt = DOMAIN h.dt \ {p}
        /\ \A r \in DOMAIN g.dt : g.dt[r] = h.dt[r]
    <3> DEFINE P == {p}
    <3>1. g.dt = Without(h.dt, P)
      BY <2>1
    <3> HIDE DEF P
    <3>2. /\ DOMAIN Without(h.dt, P) = DOMAIN h.dt \ P
          /\ \A r \in DOMAIN h.dt \ P : Without(h.dt, P)[r] = h.dt[r]
      BY <1>1, Taken
    <3> QED BY <3>1, <3>2 DEF P
  <2>3. p \in DOMAIN h.dt /\ h.dt[p] = [owner |-> o, sub |-> s]
    BY <1>10 DEF Linked, Entered, d
  <2>4. Patched(g)
    <3>1. \A r \in Sub : r \in Q <=> r \in g.data[o].used /\ d.pos[r] # None
      BY <1>4, <1>5, <1>10, <2>1
    <3> QED BY <1>3, <1>4, <3>1 DEF Patched, Linked, d
  <2>5. ASSUME NEW q \in Owner, NEW r \in g.data[q].patched
        PROVE  /\ g.data[q].pos[r] \in DOMAIN g.dt
               /\ g.dt[g.data[q].pos[r]] = [owner |-> q, sub |-> r]
    <3>0. g.data[q].pos = h.data[q].pos
      BY <1>4
    <3>1. r \in h.data[q].patched /\ ~(q = o /\ r = s)
      BY <1>3, <1>4, <2>1 DEF d
    <3>2. /\ h.data[q].pos[r] \in DOMAIN h.dt
          /\ h.dt[h.data[q].pos[r]] = [owner |-> q, sub |-> r]
      BY <3>1 DEF Linked, Entered
    <3>3. h.data[q].pos[r] # p
      BY <2>3, <3>1, <3>2
    <3> QED BY <2>2, <3>0, <3>2, <3>3
  <2>6. Entered(g)
    BY <2>5 DEF Entered
  <2>7. Owned(g)
    <3> SUFFICES ASSUME NEW r \in DOMAIN h.dt, r # p
                 PROVE  /\ h.dt[r].sub \in g.data[h.dt[r].owner].patched
                        /\ r = g.data[h.dt[r].owner].pos[h.dt[r].sub]
      BY <2>2 DEF Owned
    <3>1. h.dt[r].owner \in Owner
      BY <1>8 DEF TableEntry
    <3>2. /\ h.dt[r].sub \in h.data[h.dt[r].owner].patched
          /\ r = h.data[h.dt[r].owner].pos[h.dt[r].sub]
      BY DEF Linked, Owned
    <3>3. ~(h.dt[r].owner = o /\ h.dt[r].sub = s)
      BY <3>2 DEF d
    <3>4. h.dt[r].sub \in g.data[h.dt[r].owner].patched
      BY <1>3, <1>4, <2>1, <3>1, <3>2, <3>3 DEF d
    <3> QED BY <1>4, <3>1, <3>2, <3>4
  <2> QED BY <1>6, <2>1, <2>2, <2>4, <2>6, <2>7 DEF Linked
<1>11. CASE p # None /\ s \notin d.used /\ s \notin d.patched
  <2>1. /\ Q = d.patched \cup {s} /\ g.byte = h.byte \cup {p}
        /\ DOMAIN g.dt = DOMAIN h.dt \cup {p}
        /\ \A q \in DOMAIN g.dt :
             g.dt[q] = IF q = p THEN [owner |-> o, sub |-> s] ELSE h.dt[q]
        /\ p \notin DOMAIN h.dt
    BY <1>2, <1>11 DEF Toggled, d
  <2>2. Patched(g)
    <3>1. \A r \in Sub : r \in Q <=> r \in g.data[o].used /\ d.pos[r] # None
      BY <1>4, <1>5, <1>11, <2>1
    <3> QED BY <1>3, <1>4, <3>1 DEF Patched, Linked, d
  <2>3. ASSUME NEW q \in Owner, NEW r \in g.data[q].patched
        PROVE  /\ g.data[q].pos[r] \in DOMAIN g.dt
               /\ g.dt[g.data[q].pos[r]] = [owner |-> q, sub |-> r]
    <3>0. g.data[q].pos = h.data[q].pos
      BY <1>4
    <3>1. CASE q = o /\ r = s
      <4>1. g.data[q].pos[r] = p
        BY <3>0, <3>1 DEF d
      <4> QED BY <2>1, <3>1, <4>1
    <3>2. CASE ~(q = o /\ r = s)
      <4>1. r \in h.data[q].patched
        BY <1>3, <1>4, <2>1, <3>2 DEF d
      <4>2. /\ h.data[q].pos[r] \in DOMAIN h.dt
            /\ h.dt[h.data[q].pos[r]] = [owner |-> q, sub |-> r]
        BY <4>1 DEF Linked, Entered
      <4> QED BY <2>1, <3>0, <4>2
    <3> QED BY <3>1, <3>2
  <2>4. Entered(g)
    BY <2>3 DEF Entered
  <2>5. Owned(g)
    <3> SUFFICES ASSUME NEW r \in DOMAIN g.dt
                 PROVE  /\ g.dt[r].sub \in g.data[g.dt[r].owner].patched
                        /\ r = g.data[g.dt[r].owner].pos[g.dt[r].sub]
      BY DEF Owned
    <3>1. CASE r = p
      <4>1. g.dt[r].owner = o /\ g.dt[r].sub = s
        BY <2>1, <3>1
      <4>2. s \in g.data[o].patched
        BY <1>4, <2>1
      <4>3. g.data[o].pos[s] = p
        BY <1>4 DEF d
      <4> QED BY <3>1, <4>1, <4>2, <4>3
    <3>2. CASE r # p
      <4>1. g.dt[r] = h.dt[r] /\ r \in DOMAIN h.dt /\ h.dt[r].owner \in Owner
        BY <1>8, <2>1, <3>2 DEF TableEntry
      <4>2. /\ h.dt[r].sub \in h.data[h.dt[r].owner].patched
            /\ r = h.data[h.dt[r].owner].pos[h.dt[r].sub]
        BY <4>1 DEF Linked, Owned
      <4>3. h.dt[r].sub \in g.data[h.dt[r].owner].patched
        BY <1>3, <1>4, <2>1, <4>1, <4>2 DEF d
      <4> QED BY <1>4, <4>1, <4>2, <4>3
    <3> QED BY <3>1, <3>2
  <2> QED BY <1>6, <2>1, <2>2, <2>4, <2>5 DEF Linked
<1> QED BY <1>9, <1>10, <1>11

-----------------------------------------------------------------------------
(* Where the disassembler finds lines.                                     *)
LEMMA LineType ==
  ASSUME NEW r \in Layout \cup {<<>>}, NEW a \in Addr
  PROVE  /\ \A s \in Sub : Line(r, a, s) \in Nat \cup {None}
         /\ \A s, t \in Sub : Line(r, a, s) # None /\ Line(r, a, s) = Line(r, a, t) => s = t
         /\ r = <<>> \/ a \notin Inst => \A s \in Sub : Line(r, a, s) = None
         /\ \A s \in Sub : Line(r, a, s) # None =>
              /\ r # <<>> /\ a \in Inst /\ Line(r, a, s) = r[a] + s
              /\ Line(r, a, s) \in r[a] .. r[a + 1] - 1
<1>1. r = <<>> \/ a \notin Inst => \A s \in Sub : Line(r, a, s) = None
  BY DEF Line
<1>2. CASE r # <<>> /\ a \in Inst
  <2>1. r \in [1 .. NUM + 1 -> Nat]
    BY <1>2, LayoutType
  <2>2. r[a] \in Nat /\ r[a + 1] \in Nat
    BY <1>2, <2>1 DEF Inst
  <2>3. Sub \subseteq Nat /\ None = -1
    BY DEF Sub, None
  <2>4. \A s \in Sub : Line(r, a, s) = IF r[a] + s < r[a + 1] THEN r[a] + s ELSE None
    BY <1>2 DEF Line
  <2> QED BY <1>2, <2>2, <2>3, <2>4
<1> QED BY <1>1, <1>2 DEF None

(* What is left of the breakpoint d by remove_all, and what it is when its *)
(* lines have been looked up.                                              *)
Bare(d) ==
  [addr |-> d.addr, count |-> d.count, used |-> d.used, patched |-> {},
   pos |-> [s \in Sub |-> None], original |-> d.original]
Lines(r, d) == {s \in Sub : Line(r, d.addr, s) # None}
Spots(r, d) == {Line(r, d.addr, s) : s \in d.used \cap Lines(r, d)}

LEMMA RemoveIs ==
  ASSUME NEW h \in Heaps, NEW o \in Owner, NEW g, g = remove_all(h, o)
  PROVE  LET d == h.data[o]
             mine == {d.pos[s] : s \in d.patched}
         IN /\ g \in Heaps /\ (h.confused => g.confused)
            /\ g.byte = h.byte
            /\ g.data = [h.data EXCEPT ![o] = Bare(d)]
            /\ DOMAIN g.dt = DOMAIN h.dt \ mine
            /\ \A p \in DOMAIN g.dt : g.dt[p] = h.dt[p]
            /\ ~g.confused => \A s \in d.patched :
                 d.pos[s] \in DOMAIN h.dt /\ h.dt[d.pos[s]] = [owner |-> o, sub |-> s]
<1> DEFINE d == h.data[o]
           mine == {d.pos[s] : s \in d.patched}
           c == \/ h.confused
                \/ \E s \in d.patched : \/ d.pos[s] \notin DOMAIN h.dt
                                        \/ h.dt[d.pos[s]] # [owner |-> o, sub |-> s]
           X == [h.data EXCEPT ![o].patched = {}, ![o].pos = [s \in Sub |-> None]]
<1>1. /\ h.byte \in SUBSET Nat /\ h.data \in [Owner -> BreakData]
      /\ h.dt \in DebugTable /\ h.confused \in BOOLEAN /\ d \in BreakData
  BY HeapType
<1>2. X = [h.data EXCEPT ![o] = Bare(d)]
  <2> DEFINE none == [s \in Sub |-> None]
             e == [addr |-> d.addr, count |-> d.count, used |-> d.used, patched |-> {},
                   pos |-> d.pos, original |-> d.original]
  <2>1. [d EXCEPT !.patched = {}] = e
    BY <1>1, Fields
  <2>2. Bare(d) = [addr |-> d.addr, count |-> d.count, used |-> d.used, patched |-> {},
                   pos |-> none, original |-> d.original]
    BY DEF Bare
  <2> HIDE DEF none
  <2>3. [e EXCEPT !.pos = none] = Bare(d)
    BY <2>2
  <2>4. X = [h.data EXCEPT ![o].patched = {}, ![o].pos = none]
    BY DEF none
  <2> HIDE DEF X, e, d
  <2>5. [h.data EXCEPT ![o].patched = {}, ![o].pos = none]
          = [h.data EXCEPT ![o] = [[d EXCEPT !.patched = {}] EXCEPT !.pos = none]]
    BY <1>1 DEF d
  <2> QED BY <2>1, <2>3, <2>4, <2>5
<1>3. g = [byte |-> h.byte, dt |-> Without(h.dt, mine), data |-> X, confused |-> c]
  BY DEF remove_all
<1>4. c \in BOOLEAN
  BY <1>1
<1> HIDE DEF mine, X, c
<1>5. Bare(d) \in BreakData
  <2>1. [s \in Sub |-> None] \in [Sub -> Nat \cup {None}]
    OBVIOUS
  <2> QED BY <1>1, <2>1, DataType DEF Bare, BreakData
<1>6. X \in [Owner -> BreakData]
  BY <1>1, <1>2, <1>5
<1>7. /\ Without(h.dt, mine) \in DebugTable
      /\ DOMAIN Without(h.dt, mine) = DOMAIN h.dt \ mine
      /\ \A p \in DOMAIN h.dt \ mine : Without(h.dt, mine)[p] = h.dt[p]
  BY <1>1, Taken
<1>8. g \in Heaps
  BY <1>1, <1>3, <1>4, <1>6, <1>7 DEF Heaps
<1>9. /\ DOMAIN g.dt = DOMAIN h.dt \ mine
      /\ \A p \in DOMAIN g.dt : g.dt[p] = h.dt[p]
  BY <1>3, <1>7
<1>10. /\ h.confused => g.confused
       /\ ~g.confused => \A s \in d.patched :
            d.pos[s] \in DOMAIN h.dt /\ h.dt[d.pos[s]] = [owner |-> o, sub |-> s]
  BY <1>3 DEF c
<1> QED BY <1>2, <1>3, <1>8, <1>9, <1>10 DEF mine

(* The lines of an instruction are counted in count.                       *)
LEMMA LinesCount ==
  ASSUME NEW S \in SUBSET Sub
  PROVE  Cardinality(S) \in 0 .. MAX_SUBINSTRUCTIONS
<1>1. 0 \in Int /\ MAX_SUBINSTRUCTIONS - 1 \in Int
  OBVIOUS
<1>2. IsFiniteSet(Sub) /\ Cardinality(Sub) = MAX_SUBINSTRUCTIONS
  <2>1. /\ IsFiniteSet(0 .. MAX_SUBINSTRUCTIONS - 1)
        /\ Cardinality(0 .. MAX_SUBINSTRUCTIONS - 1) =
             IF 0 > MAX_SUBINSTRUCTIONS - 1 THEN 0 ELSE (MAX_SUBINSTRUCTIONS - 1) - 0 + 1
    BY <1>1, FS_Interval
  <2> QED BY <2>1 DEF Sub
<1>3. /\ IsFiniteSet(S) /\ Cardinality(S) <= Cardinality(Sub)
  BY <1>2, FS_Subset
<1>4. Cardinality(S) \in Nat
  BY <1>3, FS_CardinalityType
<1> QED BY <1>2, <1>3, <1>4

(* The lines of o are looked up in the layout r and those set are patched. *)
Looked(g, h, r, o) ==
  LET d == h.data[o]
      e == g.data[o]
  IN /\ \A q \in Owner : q # o => g.data[q] = h.data[q]
     /\ e.addr = d.addr /\ e.used = d.used
     /\ \A s \in Sub : e.pos[s] = Line(r, d.addr, s)
     /\ e.patched = d.used \cap Lines(r, d)
     /\ g.byte = h.byte \cup Spots(r, d)
     /\ ~g.confused =>
          /\ ~h.confused /\ h.byte \cap Spots(r, d) = {}
          /\ (\A s \in Sub : d.original[s] = "code") => \A s \in Sub : e.original[s] = "code"
     /\ DOMAIN g.dt = DOMAIN h.dt \cup Spots(r, d)
     /\ \A s \in e.patched : g.dt[Line(r, d.addr, s)] = [owner |-> o, sub |-> s]
     /\ \A p \in DOMAIN h.dt \ Spots(r, d) : g.dt[p] = h.dt[p]

LEMMA DisassembleIs ==
  ASSUME NEW h \in Heaps, NEW o \in Owner, NEW r \in Layout \cup {<<>>},
         h.data[o].patched = {}, \A s \in Sub : h.data[o].pos[s] = None,
         NEW g, g = disassemble_breakdata(h, r, o)
  PROVE  g \in Heaps /\ Looked(g, h, r, o)
<1> DEFINE d == h.data[o]
           a == d.addr
           spots == Spots(r, d)
           hit == d.used \cap Lines(r, d)
<1>1. /\ h.byte \in SUBSET Nat /\ h.data \in [Owner -> BreakData]
      /\ h.dt \in DebugTable /\ h.confused \in BOOLEAN /\ d \in BreakData
  BY HeapType
<1>2. /\ a \in Addr /\ d.used \in SUBSET Sub /\ d.original \in [Sub -> {"code", "break"}]
      /\ d.patched = {} /\ \A s \in Sub : d.pos[s] = None
  BY <1>1, DataType
<1>3. /\ \A s \in Sub : Line(r, a, s) \in Nat \cup {None}
      /\ \A s, t \in Sub : Line(r, a, s) # None /\ Line(r, a, s) = Line(r, a, t) => s = t
      /\ r = <<>> \/ a \notin Inst => \A s \in Sub : Line(r, a, s) = None
      /\ \A s \in Sub : Line(r, a, s) # None => Line(r, a, s) \in r[a] .. r[a + 1] - 1
  BY <1>2, LineType
<1>4. /\ hit \in SUBSET Sub /\ \A s \in hit : Line(r, a, s) \in Nat
      /\ spots = {Line(r, a, s) : s \in hit} /\ spots \in SUBSET Nat
  BY <1>2, <1>3 DEF Lines, Spots
<1>5. CASE r = <<>> \/ a \notin Inst
  <2>1. g = h
    BY <1>5 DEF disassemble_breakdata
  <2>2. hit = {} /\ spots = {} /\ \A s \in Sub : Line(r, a, s) = None
    BY <1>3, <1>4, <1>5 DEF Lines
  <2> QED BY <1>2, <2>1, <2>2 DEF Looked
<1>6. CASE ~(r = <<>> \/ a \notin Inst)
  <2> DEFINE pos == [s \in Sub |-> Line(r, a, s)]
             at(p) == [owner |-> o, sub |-> CHOOSE s \in hit : pos[s] = p]
             t == With(h.dt, spots, at)
             e == [addr |-> a, used |-> d.used, patched |-> hit, pos |-> pos,
                   count |-> Cardinality({s \in Sub : pos[s] # None}),
                   original |-> [s \in Sub |->
                                   IF pos[s] = None THEN d.original[s]
                                   ELSE IF pos[s] \in h.byte THEN "break" ELSE "code"]]
             c == h.confused \/ \E p \in r[a] .. r[a + 1] - 1 : p \in h.byte
  <2>1. {s \in d.used : pos[s] # None} = hit /\ {pos[s] : s \in hit} = spots
    BY <1>2, <1>4 DEF Lines
  <2>2. g = [byte |-> h.byte \cup spots, dt |-> t, data |-> [h.data EXCEPT ![o] = e],
             confused |-> c]
    <3> DEFINE hit2 == {s \in d.used : pos[s] # None}
               spots2 == {pos[s] : s \in hit2}
               t2 == [p \in DOMAIN h.dt \cup spots2 |->
                        IF p \in spots2
                        THEN [owner |-> o, sub |-> CHOOSE s \in hit2 : pos[s] = p]
                        ELSE h.dt[p]]
               e2 == [addr |-> a, used |-> d.used, patched |-> hit2, pos |-> pos,
                      count |-> Cardinality({s \in Sub : pos[s] # None}),
                      original |-> [s \in Sub |->
                                      IF pos[s] = None THEN d.original[s]
                                      ELSE IF pos[s] \in h.byte THEN "break" ELSE "code"]]
    <3>1. g = [byte |-> h.byte \cup spots2, dt |-> t2,
               data |-> [h.data EXCEPT ![o] = e2], confused |-> c]
      BY <1>6 DEF disassemble_breakdata, With
    <3>2. hit2 = hit /\ spots2 = spots
      BY <2>1
    <3>3. t = [p \in DOMAIN h.dt \cup spots |->
                 IF p \in spots
                 THEN [owner |-> o, sub |-> CHOOSE s \in hit : pos[s] = p]
                 ELSE h.dt[p]]
      BY DEF With
    <3> HIDE DEF t, c, hit, spots, pos, hit2, spots2, d
    <3>4. t2 = t /\ e2 = e
      BY <3>2, <3>3
    <3> HIDE DEF t2, e2, e
    <3> QED BY <3>1, <3>2, <3>4
  <2>3. /\ DOMAIN t = DOMAIN h.dt \cup spots /\ t = [p \in DOMAIN t |-> t[p]]
        /\ \A p \in DOMAIN h.dt \ spots : t[p] = h.dt[p]
    BY DEF With
  <2>15. \A p \in spots : t[p] = at(p)
    BY DEF With
  <2> HIDE DEF t
  <2>4. ASSUME NEW s \in hit
        PROVE  pos[s] \in spots /\ at(pos[s]) = [owner |-> o, sub |-> s]
    <3>1. pos[s] = Line(r, a, s) /\ pos[s] \in spots
      BY <1>4
    <3>2. \A q \in hit : pos[q] = pos[s] => q = s
      BY <1>3, <1>4 DEF Lines
    <3>3. (CHOOSE q \in hit : pos[q] = pos[s]) = s
      <4> HIDE DEF pos, hit
      <4> QED BY <3>2
    <3> QED BY <3>1, <3>3
  <2>5. t \in DebugTable
    <3>1. DOMAIN h.dt \in SUBSET Nat /\ \A q \in DOMAIN h.dt : h.dt[q] \in TableEntry
      BY <1>1, TableType
    <3>2. \A p \in spots : t[p] \in TableEntry
      <4> SUFFICES ASSUME NEW p \in spots PROVE t[p] \in TableEntry
        OBVIOUS
      <4>1. PICK s \in hit : p = pos[s]
        BY <1>4
      <4>2. t[p] = [owner |-> o, sub |-> s]
        BY <2>4, <2>15, <4>1
      <4> QED BY <1>4, <4>2 DEF TableEntry
    <3> DEFINE D == DOMAIN t
    <3> HIDE DEF at, pos, spots
    <3>3. /\ D = DOMAIN h.dt \cup spots /\ t = [q \in D |-> t[q]]
          /\ \A p \in DOMAIN h.dt \ spots : t[p] = h.dt[p]
      BY <2>3
    <3>4. spots \in SUBSET Nat
      BY <1>4
    <3> HIDE DEF D
    <3>5. D \in SUBSET Nat /\ \A q \in D : t[q] \in TableEntry
      BY <3>1, <3>2, <3>3, <3>4
    <3> QED BY <3>3, <3>5, TableIs
  <2>6. e \in BreakData
    <3>1. pos \in [Sub -> Nat \cup {None}]
      BY <1>3
    <3>2. Cardinality({s \in Sub : pos[s] # None}) \in 0 .. MAX_SUBINSTRUCTIONS
      BY LinesCount
    <3>3. [s \in Sub |-> IF pos[s] = None THEN d.original[s]
                         ELSE IF pos[s] \in h.byte THEN "break" ELSE "code"]
            \in [Sub -> {"code", "break"}]
      BY <1>2
    <3> HIDE DEF pos, hit
    <3> QED BY <1>2, <1>4, <3>1, <3>2, <3>3 DEF BreakData
  <2>7. /\ e.addr = a /\ e.used = d.used /\ e.patched = hit
        /\ \A s \in Sub : e.pos[s] = Line(r, a, s)
        /\ \A s \in Sub : e.original[s] =
             IF Line(r, a, s) = None THEN d.original[s]
             ELSE IF Line(r, a, s) \in h.byte THEN "break" ELSE "code"
    OBVIOUS
  <2>8. /\ c \in BOOLEAN
        /\ ~c => /\ ~h.confused
                 /\ \A s \in Sub : Line(r, a, s) # None => Line(r, a, s) \notin h.byte
    BY <1>1, <1>3
  <2> HIDE DEF e, c, hit, spots
  <2>9. g \in Heaps
    BY <1>1, <1>4, <2>2, <2>5, <2>6, <2>8 DEF Heaps
  <2>10. /\ g.data[o] = e /\ \A q \in Owner : q # o => g.data[q] = h.data[q]
         /\ g.byte = h.byte \cup spots /\ g.dt = t /\ g.confused = c
    BY <1>1, <2>2
  <2>11. ~c => h.byte \cap spots = {}
    BY <1>3, <1>4, <2>8 DEF None
  <2>12. \A s \in hit : t[Line(r, a, s)] = [owner |-> o, sub |-> s]
    BY <1>4, <2>4, <2>15
  <2>13. ~c /\ (\A s \in Sub : d.original[s] = "code") =>
               \A s \in Sub : e.original[s] = "code"
    BY <2>7, <2>8
  <2> HIDE DEF d
  <2>14. Looked(g, h, r, o)
    <3> USE DEF d, hit, spots
    <3> HIDE DEF at, pos
    <3> QED BY <2>3, <2>7, <2>8, <2>10, <2>11, <2>12, <2>13 DEF Looked
  <2> QED BY <2>9, <2>14
<1> QED BY <1>5, <1>6

(* A breakpoint loses its old lines, wherever they are, and gets new ones. *)
Updated(g, h, r, o) ==
  LET d == h.data[o]
      e == g.data[o]
      mine == {d.pos[s] : s \in d.patched}
  IN /\ \A q \in Owner : q # o => g.data[q] = h.data[q]
     /\ e.addr = d.addr /\ e.used = d.used
     /\ \A s \in Sub : e.pos[s] = Line(r, d.addr, s)
     /\ e.patched = d.used \cap Lines(r, d)
     /\ g.byte = h.byte \cup Spots(r, d)
     /\ ~g.confused =>
          /\ ~h.confused /\ h.byte \cap Spots(r, d) = {}
          /\ \A s \in d.patched : /\ d.pos[s] \in DOMAIN h.dt
                                  /\ h.dt[d.pos[s]] = [owner |-> o, sub |-> s]
          /\ (\A s \in Sub : d.original[s] = "code") => \A s \in Sub : e.original[s] = "code"
     /\ DOMAIN g.dt = (DOMAIN h.dt \ mine) \cup Spots(r, d)
     /\ \A s \in e.patched : g.dt[Line(r, d.addr, s)] = [owner |-> o, sub |-> s]
     /\ \A p \in (DOMAIN h.dt \ mine) \ Spots(r, d) : g.dt[p] = h.dt[p]

LEMMA UpdateIs ==
  ASSUME NEW h \in Heaps, NEW o \in Owner, NEW r \in Layout \cup {<<>>},
         NEW g, g = update_breakdata(h, r, o)
  PROVE  g \in Heaps /\ Updated(g, h, r, o)
<1> DEFINE d == h.data[o]
           mine == {d.pos[s] : s \in d.patched}
           b == remove_all(h, o)
<1>1. /\ b \in Heaps /\ (h.confused => b.confused)
      /\ b.byte = h.byte
      /\ b.data = [h.data EXCEPT ![o] = Bare(d)]
      /\ DOMAIN b.dt = DOMAIN h.dt \ mine
      /\ \A p \in DOMAIN b.dt : b.dt[p] = h.dt[p]
      /\ ~b.confused => \A s \in d.patched :
           d.pos[s] \in DOMAIN h.dt /\ h.dt[d.pos[s]] = [owner |-> o, sub |-> s]
  BY RemoveIs
<1>2. g = disassemble_breakdata(b, r, o)
  BY DEF update_breakdata
<1> HIDE DEF b, d, mine
<1>3. /\ b.data[o] = Bare(d) /\ \A q \in Owner : q # o => b.data[q] = h.data[q]
  <2>1. h.data \in [Owner -> BreakData]
    BY HeapType
  <2> QED BY <1>1, <2>1
<1>4. /\ b.data[o].patched = {} /\ \A s \in Sub : b.data[o].pos[s] = None
      /\ b.data[o].addr = d.addr /\ b.data[o].used = d.used
      /\ b.data[o].original = d.original
  BY <1>3 DEF Bare
<1>5. g \in Heaps /\ Looked(g, b, r, o)
  BY <1>1, <1>2, <1>4, DisassembleIs
<1>6. Lines(r, b.data[o]) = Lines(r, d) /\ Spots(r, b.data[o]) = Spots(r, d)
  BY <1>4 DEF Lines, Spots
<1>7. /\ \A q \in Owner : q # o => g.data[q] = h.data[q]
      /\ g.data[o].addr = d.addr /\ g.data[o].used = d.used
      /\ \A s \in Sub : g.data[o].pos[s] = Line(r, d.addr, s)
      /\ g.data[o].patched = d.used \cap Lines(r, d)
      /\ g.byte = h.byte \cup Spots(r, d)
  BY <1>1, <1>3, <1>4, <1>5, <1>6 DEF Looked
<1>8. ~g.confused =>
        /\ ~h.confused /\ h.byte \cap Spots(r, d) = {}
        /\ \A s \in d.patched : /\ d.pos[s] \in DOMAIN h.dt
                                /\ h.dt[d.pos[s]] = [owner |-> o, sub |-> s]
        /\ (\A s \in Sub : d.original[s] = "code") =>
             \A s \in Sub : g.data[o].original[s] = "code"
  BY <1>1, <1>4, <1>5, <1>6 DEF Looked
<1>9. /\ DOMAIN g.dt = (DOMAIN h.dt \ mine) \cup Spots(r, d)
      /\ \A s \in g.data[o].patched : g.dt[Line(r, d.addr, s)] = [owner |-> o, sub |-> s]
      /\ \A p \in (DOMAIN h.dt \ mine) \ Spots(r, d) : g.dt[p] = h.dt[p]
  BY <1>1, <1>4, <1>5, <1>6 DEF Looked
<1> QED BY <1>5, <1>7, <1>8, <1>9 DEF Updated, d, mine

(* Looking up the lines of a breakpoint that is not set changes neither    *)
(* code nor table.                                                         *)
LEMMA UpdateLinked ==
  ASSUME NEW h \in Heaps, NEW hole, Linked(h, hole), NEW o \in Owner,
         NEW r \in Layout \cup {<<>>}, h.data[o].used = {},
         NEW g, g = update_breakdata(h, r, o), ~g.confused
  PROVE  Linked(g, hole)
<1> DEFINE d == h.data[o]
<1>1. Updated(g, h, r, o) /\ h.dt \in DebugTable /\ g \in Heaps
  BY UpdateIs, HeapType
<1>2. d.patched \in SUBSET Sub
  BY HeapType, DataType
<1>3. d.patched = {} /\ Spots(r, d) = {} /\ {d.pos[s] : s \in d.patched} = {}
  BY <1>2 DEF Linked, Patched, Spots
<1>4. /\ \A q \in Owner : q # o => g.data[q] = h.data[q]
      /\ g.data[o].used = {} /\ g.data[o].patched = {}
      /\ \A s \in Sub : g.data[o].original[s] = "code"
      /\ g.byte = h.byte
      /\ DOMAIN g.dt = DOMAIN h.dt /\ \A p \in DOMAIN g.dt : g.dt[p] = h.dt[p]
  BY <1>1, <1>3 DEF Updated, Linked, Original
<1>5. Patched(g) /\ Original(g)
  BY <1>4 DEF Linked, Patched, Original
<1>6. Entered(g)
  <2> SUFFICES ASSUME NEW q \in Owner, NEW s \in g.data[q].patched
               PROVE  /\ g.data[q].pos[s] \in DOMAIN g.dt
                      /\ g.dt[g.data[q].pos[s]] = [owner |-> q, sub |-> s]
    BY DEF Entered
  <2>1. g.data[q] = h.data[q]
    BY <1>4
  <2> QED BY <1>4, <2>1 DEF Linked, Entered
<1>7. Owned(g)
  <2> SUFFICES ASSUME NEW p \in DOMAIN g.dt
               PROVE  /\ g.dt[p].sub \in g.data[g.dt[p].owner].patched
                      /\ p = g.data[g.dt[p].owner].pos[g.dt[p].sub]
    BY DEF Owned
  <2>1. g.dt[p] = h.dt[p] /\ p \in DOMAIN h.dt
    BY <1>4
  <2>2. /\ h.dt[p].sub \in h.data[h.dt[p].owner].patched
        /\ p = h.data[h.dt[p].owner].pos[h.dt[p].sub]
    BY <2>1 DEF Linked, Owned
  <2>3. h.dt[p].owner \in Owner
    BY <1>1, <2>1, TableType DEF TableEntry
  <2>4. h.dt[p].owner # o
    BY <1>3, <2>2
  <2> QED BY <1>4, <2>1, <2>2, <2>3, <2>4
<1> QED BY <1>4, <1>5, <1>6, <1>7 DEF Linked

-----------------------------------------------------------------------------
(* Where the lines of the listed breakpoints are in the layout r, B being  *)
(* the instructions with an entry in the map of that name.                 *)
Known(h, r, B) ==
  /\ \A o \in Owner, s \in Sub :
       h.data[o].pos[s] = IF o \in Inst \ B THEN None ELSE Line(r, h.data[o].addr, s)
  /\ \A a \in Inst : h.data[a].addr = a /\ (a \notin B => h.data[a].used = {})

(* The rounds of recompile.                                                *)
LEMMA FoundIs ==
  ASSUME Heap \in Heaps, NEW r \in Layout
  PROVE  /\ \A k \in 0 .. NUM + 2 : Found(r)[k] \in Heaps
         /\ Found(r)[0] = [Heap EXCEPT !.byte = {}]
         /\ \A o \in Owner : Found(r)[o] = IF Listed(o)
                                           THEN update_breakdata(Found(r)[o - 1], r, o)
                                           ELSE Found(r)[o - 1]
<1> DEFINE N == NUM + 2
           b == [Heap EXCEPT !.byte = {}]
           P(found) == found = [o \in 0 .. NUM + 2 |->
                                  IF o = 0 THEN b
                                  ELSE IF Listed(o) THEN update_breakdata(found[o - 1], r, o)
                                  ELSE found[o - 1]]
           round == [o \in 1 .. N |-> [h \in Heaps |-> IF Listed(o)
                                                       THEN update_breakdata(h, r, o)
                                                       ELSE h]]
           f == Found(r)
<1>1. b \in Heaps
  BY DEF Heaps, Heap
<1>2. N \in Nat /\ Owner = 1 .. N
  BY DEF Owner
<1>3. \A o \in Owner, h \in Heaps : update_breakdata(h, r, o) \in Heaps
  BY UpdateIs
<1> HIDE DEF b, N
<1>4. round \in [1 .. N -> [Heaps -> Heaps]]
  BY <1>2, <1>3
<1> HIDE DEF round
<1>5. PICK g \in [0 .. N -> Heaps] :
        \A n \in 0 .. N : g[n] = IF n = 0 THEN b ELSE round[n][g[n - 1]]
  <2>1. Loops(N, Heaps, b, round)
    BY <1>1, <1>2, <1>4, Rounds
  <2> QED BY <2>1 DEF Loops
<1>6. ASSUME NEW n \in 1 .. N
      PROVE  g[n] = IF Listed(n) THEN update_breakdata(g[n - 1], r, n) ELSE g[n - 1]
  <2>1. n \in 0 .. N /\ n # 0 /\ n - 1 \in 0 .. N
    BY <1>2
  <2>2. g[n] = round[n][g[n - 1]] /\ g[n - 1] \in Heaps
    BY <1>5, <2>1
  <2> QED BY <2>2 DEF round
<1>7. 0 \in 0 .. N /\ g[0] = b
  BY <1>2, <1>5
<1>8. P(g)
  <2>1. g = [n \in 0 .. N |-> g[n]]
    OBVIOUS
  <2>2. \A n \in 0 .. N : n # 0 => n \in 1 .. N
    BY <1>2
  <2>3. \A n \in 0 .. N : g[n] = IF n = 0 THEN b
                                 ELSE IF Listed(n) THEN update_breakdata(g[n - 1], r, n)
                                 ELSE g[n - 1]
    BY <1>6, <1>7, <2>2
  <2> QED BY <2>1, <2>3 DEF N
<1>9. f = CHOOSE found : P(found)
  BY Zenon DEF Found, b
<1> HIDE DEF P, f
<1>10. P(f)
  BY <1>8, <1>9, Zenon
<1>11. f = [o \in 0 .. NUM + 2 |->
              IF o = 0 THEN b
              ELSE IF Listed(o) THEN update_breakdata(f[o - 1], r, o) ELSE f[o - 1]]
  BY <1>10, Zenon DEF P
<1>12. f[0] = b /\ \A o \in 1 .. N : f[o] = IF Listed(o) THEN update_breakdata(f[o - 1], r, o)
                                            ELSE f[o - 1]
  <2>1. \A o \in 0 .. NUM + 2 : f[o] =
          IF o = 0 THEN b
          ELSE IF Listed(o) THEN update_breakdata(f[o - 1], r, o) ELSE f[o - 1]
    BY <1>11
  <2>2. \A o \in 1 .. N : o \in 0 .. NUM + 2 /\ o # 0
    BY <1>2 DEF N
  <2>3. 0 \in 0 .. NUM + 2
    OBVIOUS
  <2> QED BY <2>1, <2>2, <2>3
<1> DEFINE S == {k \in 0 .. N : f[k] \in Heaps}
<1>13. 0 \in S
  BY <1>1, <1>7, <1>12
<1>14. \A n \in 0 .. N - 1 : n \in S => n + 1 \in S
  <2> SUFFICES ASSUME NEW n \in 0 .. N - 1, f[n] \in Heaps
               PROVE  n + 1 \in 0 .. N /\ f[n + 1] \in Heaps
    OBVIOUS
  <2>1. n + 1 \in 1 .. N /\ n + 1 \in 0 .. N /\ (n + 1) - 1 = n
    BY <1>2
  <2>2. f[n + 1] = IF Listed(n + 1) THEN update_breakdata(f[n], r, n + 1) ELSE f[n]
    BY <1>12, <2>1
  <2> QED BY <1>2, <1>3, <2>1, <2>2
<1>15. S \in SUBSET (0 .. N)
  OBVIOUS
<1> HIDE DEF S
<1>16. \A k \in 0 .. N : k \in S
  BY <1>2, <1>13, <1>14, <1>15, Induct
<1>17. \A k \in 0 .. N : f[k] \in Heaps
  BY <1>16 DEF S
<1> QED BY <1>2, <1>12, <1>17 DEF f, b, N

(* After k rounds: the owners up to k that are listed have their new lines *)
(* in code and table, the other ones are as before; old entries may still  *)
(* be in the table, but their bytes are not in the new code.               *)
Half(g, r, k) ==
  /\ \A o \in Owner :
       /\ g.data[o].addr = data[o].addr /\ g.data[o].used = data[o].used
       /\ ~(o <= k /\ Listed(o)) => g.data[o] = data[o]
       /\ o <= k /\ Listed(o) =>
            /\ \A s \in Sub : g.data[o].pos[s] = Line(r, data[o].addr, s)
            /\ g.data[o].patched = data[o].used \cap Lines(r, data[o])
            /\ \A s \in g.data[o].patched :
                 /\ g.data[o].pos[s] \in g.byte
                 /\ g.dt[g.data[o].pos[s]] = [owner |-> o, sub |-> s]
  /\ Original(g) /\ Owned(g)
  /\ \A p \in g.byte : p \in DOMAIN g.dt /\ g.dt[p].owner <= k

LEMMA HalfStart ==
  ASSUME Heap \in Heaps, NEW hole, Linked(Heap, hole), NEW r \in Layout
  PROVE  Half([Heap EXCEPT !.byte = {}], r, 0)
<1> DEFINE b == [Heap EXCEPT !.byte = {}]
<1>1. b.byte = {} /\ b.data = data /\ b.dt = dt /\ Heap.data = data /\ Heap.dt = dt
  BY DEF Heap
<1>2. \A o \in Owner : ~(o <= 0)
  BY DEF Owner
<1> HIDE DEF b
<1> QED BY <1>1, <1>2 DEF Half, Linked, Original, Owned, b

(* A round of recompile.                                                   *)
LEMMA HalfNext ==
  ASSUME NEW h \in Heaps, NEW r \in Layout, NEW o \in Owner, Half(h, r, o - 1), Listed(o),
         NEW g, g = update_breakdata(h, r, o), ~g.confused
  PROVE  Half(g, r, o)
<1> DEFINE d == h.data[o]
           e == g.data[o]
           mine == {d.pos[s] : s \in d.patched}
           spots == Spots(r, d)
<1>1. \A q \in Owner : q # o => (q <= o <=> q <= o - 1)
  BY DEF Owner
<1>2. ~(o <= o - 1) /\ o <= o
  BY DEF Owner
<1>3. d = data[o]
  BY <1>2 DEF Half
<1>4. Updated(g, h, r, o)
  BY UpdateIs
<1>5. h.dt \in DebugTable /\ h.data \in [Owner -> BreakData]
  BY HeapType
<1>6. /\ \A q \in Owner : q # o => g.data[q] = h.data[q]
      /\ e.addr = d.addr /\ e.used = d.used
      /\ \A s \in Sub : e.pos[s] = Line(r, d.addr, s)
      /\ e.patched = d.used \cap Lines(r, d)
      /\ g.byte = h.byte \cup spots
      /\ h.byte \cap spots = {}
      /\ \A s \in d.patched : /\ d.pos[s] \in DOMAIN h.dt
                              /\ h.dt[d.pos[s]] = [owner |-> o, sub |-> s]
      /\ (\A s \in Sub : d.original[s] = "code") => \A s \in Sub : e.original[s] = "code"
      /\ DOMAIN g.dt = (DOMAIN h.dt \ mine) \cup spots
      /\ \A s \in e.patched : g.dt[Line(r, d.addr, s)] = [owner |-> o, sub |-> s]
      /\ \A p \in (DOMAIN h.dt \ mine) \ spots : g.dt[p] = h.dt[p]
  BY <1>4 DEF Updated
<1>7. spots = {Line(r, d.addr, s) : s \in e.patched} /\ e.patched \subseteq Sub
  BY <1>6 DEF Spots, Lines
<1>8. ASSUME NEW p \in mine
      PROVE  p \in DOMAIN h.dt /\ h.dt[p].owner = o
  <2> HIDE DEF d
  <2>1. PICK s \in d.patched : p = d.pos[s]
    OBVIOUS
  <2>2. p \in DOMAIN h.dt /\ h.dt[p] = [owner |-> o, sub |-> s]
    BY <1>6, <2>1
  <2> QED BY <2>2
<1>9. \A p \in h.byte : p \in DOMAIN h.dt /\ h.dt[p].owner <= o - 1
  BY DEF Half
<1>10. \A p \in h.byte : p \in (DOMAIN h.dt \ mine) \ spots
  BY <1>2, <1>6, <1>8, <1>9
<1> HIDE DEF d, e, mine, spots
<1>11. ASSUME NEW q \in Owner, q # o
       PROVE  /\ g.data[q].addr = data[q].addr /\ g.data[q].used = data[q].used
              /\ ~(q <= o /\ Listed(q)) => g.data[q] = data[q]
              /\ q <= o /\ Listed(q) =>
                   /\ \A s \in Sub : g.data[q].pos[s] = Line(r, data[q].addr, s)
                   /\ g.data[q].patched = data[q].used \cap Lines(r, data[q])
                   /\ \A s \in g.data[q].patched :
                        /\ g.data[q].pos[s] \in g.byte
                        /\ g.dt[g.data[q].pos[s]] = [owner |-> q, sub |-> s]
  <2>1. g.data[q] = h.data[q]
    BY <1>6, <1>11
  <2>2. q <= o <=> q <= o - 1
    BY <1>1, <1>11
  <2>3. ASSUME q <= o - 1, Listed(q), NEW s \in h.data[q].patched
        PROVE  /\ h.data[q].pos[s] \in g.byte
               /\ g.dt[h.data[q].pos[s]] = [owner |-> q, sub |-> s]
    <3>1. /\ h.data[q].pos[s] \in h.byte
          /\ h.dt[h.data[q].pos[s]] = [owner |-> q, sub |-> s]
      BY <2>3 DEF Half
    <3> QED BY <1>6, <1>10, <3>1
  <2> QED BY <2>1, <2>2, <2>3 DEF Half
<1>12. /\ e.addr = data[o].addr /\ e.used = data[o].used
       /\ \A s \in Sub : e.pos[s] = Line(r, data[o].addr, s)
       /\ e.patched = data[o].used \cap Lines(r, data[o])
       /\ \A s \in e.patched : /\ e.pos[s] \in g.byte
                               /\ g.dt[e.pos[s]] = [owner |-> o, sub |-> s]
  BY <1>3, <1>6, <1>7
<1>13. Original(g)
  BY <1>6 DEF Half, Original, d, e
<1>14. Owned(g)
  <2> SUFFICES ASSUME NEW p \in DOMAIN g.dt
               PROVE  /\ g.dt[p].sub \in g.data[g.dt[p].owner].patched
                      /\ p = g.data[g.dt[p].owner].pos[g.dt[p].sub]
    BY DEF Owned
  <2>1. CASE p \in spots
    <3>1. PICK s \in e.patched : p = Line(r, d.addr, s)
      BY <1>7, <2>1
    <3>2. g.dt[p] = [owner |-> o, sub |-> s] /\ p = e.pos[s]
      BY <1>6, <1>7, <3>1
    <3> QED BY <3>2 DEF e
  <2>2. CASE p \notin spots
    <3>1. p \in DOMAIN h.dt /\ p \notin mine /\ g.dt[p] = h.dt[p]
      BY <1>6, <2>2
    <3>2. /\ h.dt[p].sub \in h.data[h.dt[p].owner].patched
          /\ p = h.data[h.dt[p].owner].pos[h.dt[p].sub]
      BY <3>1 DEF Half, Owned
    <3>3. h.dt[p].owner \in Owner /\ h.dt[p].owner # o
      BY <1>5, <3>1, <3>2, TableType DEF TableEntry, mine, d
    <3> QED BY <1>6, <3>1, <3>2, <3>3
  <2> QED BY <2>1, <2>2
<1>15. ASSUME NEW p \in g.byte
       PROVE  p \in DOMAIN g.dt /\ g.dt[p].owner <= o
  <2>1. CASE p \in spots
    <3>1. PICK s \in e.patched : p = Line(r, d.addr, s)
      BY <1>7, <2>1
    <3>2. g.dt[p] = [owner |-> o, sub |-> s]
      BY <1>6, <3>1
    <3> QED BY <1>2, <1>6, <2>1, <3>2
  <2>2. CASE p \notin spots
    <3>1. p \in h.byte
      BY <1>6, <2>2
    <3>2. p \in DOMAIN g.dt /\ g.dt[p] = h.dt[p] /\ p \in DOMAIN h.dt
      BY <1>6, <1>10, <3>1
    <3>3. h.dt[p].owner \in Owner /\ h.dt[p].owner <= o - 1
      BY <1>5, <1>9, <3>1, <3>2, TableType DEF TableEntry
    <3> QED BY <3>2, <3>3 DEF Owner
  <2> QED BY <2>1, <2>2
<1> QED BY <1>2, <1>11, <1>12, <1>13, <1>14, <1>15 DEF Half, e

(* A breakpoint that is not listed makes no difference to the next round.  *)
LEMMA HalfSame ==
  ASSUME NEW h \in Heaps, NEW r, NEW o \in Owner, Half(h, r, o - 1), ~Listed(o)
  PROVE  Half(h, r, o)
<1>1. \A q \in Owner : q # o => (q <= o <=> q <= o - 1)
  BY DEF Owner
<1>2. ~(o <= o - 1)
  BY DEF Owner
<1>3. \A p \in h.byte : p \in DOMAIN h.dt /\ h.dt[p].owner <= o
  <2> SUFFICES ASSUME NEW p \in h.byte PROVE p \in DOMAIN h.dt /\ h.dt[p].owner <= o
    OBVIOUS
  <2>1. p \in DOMAIN h.dt /\ h.dt[p].owner <= o - 1
    BY DEF Half
  <2>2. h.dt[p].owner \in Owner
    BY <2>1, HeapType, TableType DEF TableEntry
  <2> QED BY <2>1, <2>2 DEF Owner
<1>4. ASSUME NEW q \in Owner
      PROVE  q <= o /\ Listed(q) <=> q <= o - 1 /\ Listed(q)
  BY <1>1, <1>2
<1> QED BY <1>3, <1>4 DEF Half

(* After all rounds code, table and breakpoints belong together again.     *)
LEMMA HalfEnd ==
  ASSUME NEW hole, Linked(Heap, hole), Known(Heap, remap, breaks), breaks \subseteq Inst,
         data \in [Owner -> BreakData],
         NEW r \in Layout, NEW g \in Heaps, Half(g, r, NUM + 2)
  PROVE  Linked(g, hole) /\ Known(g, r, breaks)
<1>1. Heap.data = data
  BY DEF Heap
<1>2. \A o \in Owner : o <= NUM + 2
  BY DEF Owner
<1>3. ASSUME NEW o \in Owner, Listed(o)
      PROVE  /\ \A s \in Sub : g.data[o].pos[s] = Line(r, data[o].addr, s)
             /\ g.data[o].addr = data[o].addr /\ g.data[o].used = data[o].used
             /\ g.data[o].patched = data[o].used \cap Lines(r, data[o])
             /\ \A s \in g.data[o].patched :
                  /\ g.data[o].pos[s] \in g.byte
                  /\ g.dt[g.data[o].pos[s]] = [owner |-> o, sub |-> s]
  BY <1>2, <1>3 DEF Half
<1>4. ASSUME NEW o \in Owner, ~Listed(o)
      PROVE  /\ g.data[o] = data[o] /\ data[o].patched = {}
             /\ \A s \in Sub : data[o].pos[s] = None /\ s \notin data[o].patched
             /\ o \in Inst => data[o].used = {} /\ o \notin breaks
             /\ o \notin Inst => data[o].addr \notin Inst
  <2>1. g.data[o] = data[o]
    BY <1>4 DEF Half
  <2>2. o \in Inst => data[o].used = {} /\ o \notin breaks
    BY <1>1, <1>4 DEF Listed, Known
  <2>3. o \notin Inst => data[o].addr \notin Inst
    BY <1>4 DEF Listed
  <2>4. \A s \in Sub : data[o].pos[s] = None
    <3>1. CASE o \in Inst
      BY <1>1, <2>2, <3>1 DEF Known
    <3>2. CASE o \notin Inst
      <4>1. \A s \in Sub : data[o].pos[s] = Line(remap, data[o].addr, s)
        BY <1>1, <3>2 DEF Known
      <4> QED BY <2>3, <3>2, <4>1 DEF Line
    <3> QED BY <3>1, <3>2
  <2>5. \A s \in Sub : s \notin data[o].patched
    BY <1>1, <2>4 DEF Linked, Patched
  <2>6. data[o].patched \in SUBSET Sub
    BY DataType
  <2> QED BY <2>1, <2>2, <2>3, <2>4, <2>5, <2>6
<1>5. Patched(g)
  <2> SUFFICES ASSUME NEW o \in Owner, NEW s \in Sub
               PROVE  s \in g.data[o].patched <=>
                        s \in g.data[o].used /\ g.data[o].pos[s] # None
    BY DEF Patched
  <2>1. CASE Listed(o)
    BY <1>3, <2>1 DEF Lines
  <2>2. CASE ~Listed(o)
    BY <1>4, <2>2
  <2> QED BY <2>1, <2>2
<1>6. ASSUME NEW o \in Owner, NEW s \in g.data[o].patched
      PROVE  /\ g.data[o].pos[s] \in g.byte
             /\ g.dt[g.data[o].pos[s]] = [owner |-> o, sub |-> s]
  <2>1. Listed(o)
    BY <1>4, <1>6
  <2> QED BY <1>3, <2>1
<1>7. \A p \in g.byte : p \in DOMAIN g.dt
  BY DEF Half
<1>8. Entered(g)
  BY <1>6, <1>7 DEF Entered
<1>9. Owned(g) /\ Original(g)
  BY DEF Half
<1>10. ASSUME NEW p \in DOMAIN g.dt
       PROVE  p \in g.byte
  <2>1. /\ g.dt[p].sub \in g.data[g.dt[p].owner].patched
        /\ p = g.data[g.dt[p].owner].pos[g.dt[p].sub]
    BY <1>9 DEF Owned
  <2>2. g.dt[p].owner \in Owner
    BY HeapType, TableType DEF TableEntry
  <2> QED BY <1>6, <2>1, <2>2
<1>11. Linked(g, hole)
  BY <1>5, <1>7, <1>8, <1>9, <1>10 DEF Linked
<1>12. Known(g, r, breaks)
  <2>1. ASSUME NEW o \in Owner, NEW s \in Sub
        PROVE  g.data[o].pos[s] = IF o \in Inst \ breaks THEN None
                                  ELSE Line(r, g.data[o].addr, s)
    <3>1. CASE Listed(o)
      BY <1>3, <3>1 DEF Listed
    <3>2. CASE ~Listed(o) /\ o \in Inst
      BY <1>4, <3>2
    <3>3. CASE ~Listed(o) /\ o \notin Inst
      BY <1>4, <3>3 DEF Line
    <3> QED BY <3>1, <3>2, <3>3
  <2>2. ASSUME NEW a \in Inst
        PROVE  g.data[a].addr = a /\ (a \notin breaks => g.data[a].used = {})
    <3>1. a \in Owner
      BY DEF Inst, Owner
    <3>2. g.data[a].addr = data[a].addr /\ g.data[a].used = data[a].used
      BY <3>1 DEF Half
    <3> QED BY <1>1, <3>2 DEF Known
  <2> QED BY <2>1, <2>2 DEF Known
<1> QED BY <1>11, <1>12

(* recompile puts every breakpoint where its line is in the new code.      *)
LEMMA RecompileIs ==
  ASSUME Heap \in Heaps, NEW hole, Linked(Heap, hole), Known(Heap, remap, breaks),
         breaks \subseteq Inst, NEW r \in Layout,
         NEW g, g = Found(r)[NUM + 2]
  PROVE  g \in Heaps /\ (g.confused \/ (Linked(g, hole) /\ Known(g, r, breaks)))
<1> DEFINE N == NUM + 2
           f == Found(r)
           S == {k \in 0 .. N : f[k].confused \/ Half(f[k], r, k)}
<1>1. N \in Nat /\ Owner = 1 .. N
  BY DEF Owner
<1>2. /\ \A k \in 0 .. N : f[k] \in Heaps
      /\ f[0] = [Heap EXCEPT !.byte = {}]
      /\ \A o \in Owner : f[o] = IF Listed(o) THEN update_breakdata(f[o - 1], r, o)
                                 ELSE f[o - 1]
  BY FoundIs
<1>3. 0 \in S
  <2>1. Half(f[0], r, 0)
    BY <1>2, HalfStart
  <2> QED BY <1>1, <2>1
<1> HIDE DEF f
<1>4. ASSUME NEW n \in 0 .. N - 1, n \in S
      PROVE  n + 1 \in S
  <2> DEFINE o == n + 1
  <2>1. o \in Owner /\ o - 1 = n /\ o \in 0 .. N /\ n \in 0 .. N
    BY <1>1
  <2>2. f[n].confused \/ Half(f[n], r, n)
    BY <1>4
  <2> HIDE DEF o
  <2>3. CASE ~Listed(o)
    <3>1. f[o] = f[n] /\ f[n] \in Heaps
      BY <1>2, <2>1, <2>3
    <3>2. f[n].confused \/ Half(f[n], r, o)
      BY <2>1, <2>2, <2>3, <3>1, HalfSame
    <3> QED BY <2>1, <3>1, <3>2 DEF o
  <2>4. CASE Listed(o)
    <3>1. f[o] = update_breakdata(f[n], r, o) /\ f[n] \in Heaps
      BY <1>2, <2>1, <2>4
    <3>2. ~f[o].confused => ~f[n].confused
      <4>1. Updated(f[o], f[n], r, o)
        BY <2>1, <3>1, UpdateIs
      <4> QED BY <4>1 DEF Updated
    <3>3. f[o].confused \/ Half(f[o], r, o)
      BY <2>1, <2>2, <2>4, <3>1, <3>2, HalfNext
    <3> QED BY <2>1, <3>3 DEF o
  <2> QED BY <2>3, <2>4
<1>5. S \in SUBSET (0 .. N)
  OBVIOUS
<1> HIDE DEF S
<1>6. \A k \in 0 .. N : k \in S
  BY <1>1, <1>3, <1>4, <1>5, Induct
<1>7. N \in 0 .. N
  BY <1>1
<1>8. f[N] \in Heaps /\ (f[N].confused \/ Half(f[N], r, N))
  BY <1>2, <1>6, <1>7 DEF S
<1>9. data \in [Owner -> BreakData]
  BY HeapType DEF Heap
<1>10. f[N].confused \/ (Linked(f[N], hole) /\ Known(f[N], r, breaks))
  BY <1>8, <1>9, HalfEnd
<1> QED BY <1>8, <1>10 DEF f

-----------------------------------------------------------------------------
(* One-time breakpoints are switched off line after line.                  *)
Steady(g, h) ==
  \A q \in Owner :
    /\ g.data[q].addr = h.data[q].addr /\ g.data[q].count = h.data[q].count
    /\ g.data[q].pos = h.data[q].pos
    /\ q \in Inst => g.data[q].used = h.data[q].used
    /\ g.data[q].used \subseteq h.data[q].used

LEMMA StepOwners ==
  /\ Step0 \in Owner \ Inst /\ Step1 \in Owner \ Inst /\ Step0 # Step1
  /\ Owner = Inst \cup Steps /\ Inst \subseteq Owner
BY DEF Step0, Step1, Owner, Inst, Steps

LEMMA SteadyTwice ==
  ASSUME NEW f, NEW g, NEW h, Steady(f, g), Steady(g, h)
  PROVE  Steady(f, h)
<1> SUFFICES ASSUME NEW q \in Owner
             PROVE  /\ f.data[q].addr = h.data[q].addr /\ f.data[q].count = h.data[q].count
                    /\ f.data[q].pos = h.data[q].pos
                    /\ q \in Inst => f.data[q].used = h.data[q].used
                    /\ f.data[q].used \subseteq h.data[q].used
  BY DEF Steady
<1> QED BY DEF Steady

LEMMA UnsetOne ==
  ASSUME NEW h \in Heaps, NEW hole, Linked(h, hole), NEW o \in Steps, NEW s \in Sub,
         NEW g, g = unset(h, o, s)
  PROVE  /\ g \in Heaps /\ Steady(g, h) /\ s \notin g.data[o].used
         /\ g.confused \/ Linked(g, hole)
<1>1. o \in Owner /\ o \notin Inst
  BY StepOwners DEF Steps
<1>2. CASE s \notin h.data[o].used
  BY <1>2 DEF unset, Steady
<1>3. CASE s \in h.data[o].used
  <2>1. g = toggle_sub(h, o, s)
    BY <1>3 DEF unset
  <2>2. /\ g \in Heaps /\ Unmoved(g, h, o)
        /\ g.data[o].used = h.data[o].used \ {s}
    BY <1>1, <1>3, <2>1, ToggleUnmoved
  <2>3. g.confused \/ Linked(g, hole)
    BY <1>1, <2>1, ToggleLinked
  <2>4. Steady(g, h)
    <3> SUFFICES ASSUME NEW q \in Owner
                 PROVE  /\ g.data[q].addr = h.data[q].addr
                        /\ g.data[q].count = h.data[q].count
                        /\ g.data[q].pos = h.data[q].pos
                        /\ q \in Inst => g.data[q].used = h.data[q].used
                        /\ g.data[q].used \subseteq h.data[q].used
      BY DEF Steady
    <3>1. CASE q = o
      BY <1>1, <2>2, <3>1 DEF Unmoved
    <3>2. CASE q # o
      BY <2>2, <3>2 DEF Unmoved
    <3> QED BY <3>1, <3>2
  <2> QED BY <2>2, <2>3, <2>4
<1> QED BY <1>2, <1>3

LEMMA UnsetType ==
  ASSUME NEW h \in Heaps, NEW o \in Steps, NEW s \in Sub
  PROVE  unset(h, o, s) \in Heaps /\ (h.confused => unset(h, o, s).confused)
<1>1. o \in Owner
  BY StepOwners DEF Steps
<1>2. toggle_sub(h, o, s) \in Heaps /\ (h.confused => toggle_sub(h, o, s).confused)
  BY <1>1, ToggleUnmoved
<1> QED BY <1>2 DEF unset

(* The rounds of unset_onetime.                                            *)
Both(h, s) == unset(unset(h, Step0, s), Step1, s)

LEMMA UnsetIs ==
  ASSUME NEW h \in Heaps
  PROVE  /\ \A k \in 0 .. MAX_SUBINSTRUCTIONS : Unset(h)[k] \in Heaps
         /\ Unset(h)[0] = h
         /\ \A i \in 1 .. MAX_SUBINSTRUCTIONS : Unset(h)[i] = Both(Unset(h)[i - 1], i - 1)
<1> DEFINE N == MAX_SUBINSTRUCTIONS
           P(after) == after = [i \in 0 .. MAX_SUBINSTRUCTIONS |->
                                  IF i = 0 THEN h
                                  ELSE unset(unset(after[i - 1], Step0, i - 1), Step1, i - 1)]
           round == [i \in 1 .. N |-> [g \in Heaps |-> Both(g, i - 1)]]
           f == Unset(h)
<1>1. N \in Nat /\ \A i \in 1 .. N : i - 1 \in Sub
  BY DEF Sub
<1>2. \A g \in Heaps, s \in Sub : Both(g, s) \in Heaps
  BY UnsetType DEF Both, Steps
<1> HIDE DEF N
<1>3. round \in [1 .. N -> [Heaps -> Heaps]]
  BY <1>1, <1>2
<1> HIDE DEF round
<1>4. PICK g \in [0 .. N -> Heaps] :
        \A n \in 0 .. N : g[n] = IF n = 0 THEN h ELSE round[n][g[n - 1]]
  <2>1. Loops(N, Heaps, h, round)
    BY <1>1, <1>3, Rounds
  <2> QED BY <2>1 DEF Loops
<1>5. ASSUME NEW n \in 1 .. N
      PROVE  g[n] = Both(g[n - 1], n - 1)
  <2>1. n \in 0 .. N /\ n # 0 /\ n - 1 \in 0 .. N
    BY <1>1
  <2>2. g[n] = round[n][g[n - 1]] /\ g[n - 1] \in Heaps
    BY <1>4, <2>1
  <2> QED BY <2>2 DEF round
<1>6. 0 \in 0 .. N /\ g[0] = h
  BY <1>1, <1>4
<1>7. P(g)
  <2>1. g = [n \in 0 .. N |-> g[n]]
    OBVIOUS
  <2>2. \A n \in 0 .. N : n # 0 => n \in 1 .. N
    BY <1>1
  <2>3. \A n \in 0 .. N : g[n] = IF n = 0 THEN h
                                 ELSE unset(unset(g[n - 1], Step0, n - 1), Step1, n - 1)
    BY <1>5, <1>6, <2>2 DEF Both
  <2> QED BY <2>1, <2>3 DEF N
<1>8. f = CHOOSE after : P(after)
  BY Zenon DEF Unset
<1> HIDE DEF P, f
<1>9. P(f)
  BY <1>7, <1>8, Zenon
<1>10. f = [i \in 0 .. MAX_SUBINSTRUCTIONS |->
              IF i = 0 THEN h ELSE unset(unset(f[i - 1], Step0, i - 1), Step1, i - 1)]
  BY <1>9, Zenon DEF P
<1>11. f[0] = h /\ \A i \in 1 .. N : f[i] = Both(f[i - 1], i - 1)
  <2>1. \A i \in 0 .. N : f[i] =
          IF i = 0 THEN h ELSE unset(unset(f[i - 1], Step0, i - 1), Step1, i - 1)
    BY <1>10 DEF N
  <2>2. \A i \in 1 .. N : i \in 0 .. N /\ i # 0
    BY <1>1
  <2> QED BY <1>6, <2>1, <2>2 DEF Both
<1> DEFINE S == {k \in 0 .. N : f[k] \in Heaps}
<1>12. 0 \in S
  BY <1>6, <1>11
<1>13. \A n \in 0 .. N - 1 : n \in S => n + 1 \in S
  <2> SUFFICES ASSUME NEW n \in 0 .. N - 1, f[n] \in Heaps
               PROVE  n + 1 \in 0 .. N /\ f[n + 1] \in Heaps
    OBVIOUS
  <2>1. n + 1 \in 1 .. N /\ n + 1 \in 0 .. N /\ (n + 1) - 1 = n /\ n \in Sub
    BY <1>1 DEF N, Sub
  <2>2. f[n + 1] = Both(f[n], n)
    BY <1>11, <2>1
  <2> QED BY <1>2, <2>1, <2>2
<1>14. S \in SUBSET (0 .. N)
  OBVIOUS
<1> HIDE DEF S
<1>15. \A k \in 0 .. N : k \in S
  BY <1>1, <1>12, <1>13, <1>14, Induct
<1> QED BY <1>11, <1>15 DEF S, f, N

(* No one-time breakpoint is left, and the other ones are as they were.    *)
Gone(g, h, hole, k) ==
  /\ Linked(g, hole) /\ Steady(g, h)
  /\ \A o \in Steps : \A s \in g.data[o].used : s >= k

LEMMA OnetimeIs ==
  ASSUME NEW h \in Heaps, NEW hole, Linked(h, hole), NEW g, g = unset_onetime(h)
  PROVE  /\ g \in Heaps
         /\ g.confused \/ ( /\ Linked(g, hole) /\ Steady(g, h)
                            /\ \A o \in Steps : g.data[o].used = {})
<1> DEFINE N == MAX_SUBINSTRUCTIONS
           f == Unset(h)
           S == {k \in 0 .. N : f[k].confused \/ Gone(f[k], h, hole, k)}
<1>1. N \in Nat
  OBVIOUS
<1>2. /\ \A k \in 0 .. N : f[k] \in Heaps
      /\ f[0] = h
      /\ \A i \in 1 .. N : f[i] = Both(f[i - 1], i - 1)
  BY UnsetIs
<1>3. \A b \in Heaps, o \in Steps : b.data[o].used \subseteq Sub
  BY StepOwners, HeapType, DataType DEF Steps
<1> HIDE DEF f
<1>4. 0 \in S
  <2>1. \A o \in Steps : \A s \in h.data[o].used : s >= 0
    BY <1>3 DEF Sub
  <2>2. Steady(h, h)
    BY DEF Steady
  <2>3. Gone(h, h, hole, 0)
    BY <2>1, <2>2 DEF Gone
  <2> QED BY <1>2, <2>3
<1>5. ASSUME NEW n \in 0 .. N - 1, n \in S
      PROVE  n + 1 \in S
  <2> DEFINE a == f[n]
             b == unset(a, Step0, n)
             c == unset(b, Step1, n)
  <2>1. n + 1 \in 1 .. N /\ n + 1 \in 0 .. N /\ n \in 0 .. N /\ (n + 1) - 1 = n /\ n \in Sub
    BY DEF Sub
  <2>2. f[n + 1] = c
    BY <1>2, <2>1 DEF Both
  <2>3. a \in Heaps /\ (a.confused \/ Gone(a, h, hole, n))
    BY <1>2, <1>5, <2>1
  <2> HIDE DEF a, b, c
  <2>4. Step0 \in Steps /\ Step1 \in Steps /\ Steps = {Step0, Step1}
    BY DEF Steps
  <2>5. b \in Heaps /\ (a.confused => b.confused)
    BY <2>1, <2>3, <2>4, UnsetType DEF b
  <2>6. c \in Heaps /\ (b.confused => c.confused)
    BY <2>1, <2>4, <2>5, UnsetType DEF c
  <2>7. ASSUME ~c.confused
        PROVE  Gone(c, h, hole, n + 1)
    <3>1. ~b.confused /\ ~a.confused /\ Gone(a, h, hole, n)
      BY <2>3, <2>5, <2>6, <2>7
    <3>2. Steady(b, a) /\ n \notin b.data[Step0].used /\ Linked(b, hole)
      BY <2>1, <2>3, <2>4, <3>1, UnsetOne DEF Gone, b
    <3>3. Steady(c, b) /\ n \notin c.data[Step1].used /\ Linked(c, hole)
      BY <2>1, <2>4, <2>5, <2>7, <3>2, UnsetOne DEF c
    <3>4. Steady(c, a) /\ Steady(c, h)
      BY <3>1, <3>2, <3>3, SteadyTwice DEF Gone
    <3>5. ASSUME NEW o \in Steps, NEW s \in c.data[o].used
          PROVE  s >= n + 1
      <4>1. o \in Owner
        BY StepOwners DEF Steps
      <4>2. s \in a.data[o].used /\ s \in b.data[o].used
        BY <3>3, <3>4, <4>1 DEF Steady
      <4>3. s >= n /\ s # n
        BY <2>4, <3>1, <3>2, <3>3, <4>2 DEF Gone
      <4>4. s \in Nat
        BY <1>3, <2>6 DEF Sub
      <4> QED BY <4>3, <4>4
    <3> QED BY <3>3, <3>4, <3>5 DEF Gone
  <2> QED BY <2>1, <2>2, <2>7
<1>6. S \in SUBSET (0 .. N)
  OBVIOUS
<1> HIDE DEF S
<1>7. \A k \in 0 .. N : k \in S
  BY <1>1, <1>4, <1>5, <1>6, Induct
<1>8. N \in 0 .. N
  BY <1>1
<1>9. g = f[N]
  BY DEF unset_onetime, f
<1>10. g \in Heaps /\ (g.confused \/ Gone(g, h, hole, N))
  BY <1>2, <1>7, <1>8, <1>9 DEF S
<1>11. Gone(g, h, hole, N) => \A o \in Steps : g.data[o].used = {}
  <2> SUFFICES ASSUME Gone(g, h, hole, N), NEW o \in Steps, NEW s \in g.data[o].used
               PROVE  FALSE
    OBVIOUS
  <2>1. s >= N /\ s \in Sub
    BY <1>3, <1>10 DEF Gone
  <2> QED BY <2>1 DEF Sub
<1> QED BY <1>10, <1>11 DEF Gone

-----------------------------------------------------------------------------
(* Breakpoints that are all as they should be, or two have met.            *)
Right(h, r, B, hole) ==
  h \in Heaps /\ (h.confused \/ (Linked(h, hole) /\ Known(h, r, B)))

LEMMA ToggleRight ==
  ASSUME NEW h, NEW r, NEW B, NEW hole, Right(h, r, B, hole),
         NEW o \in Owner, o \in Inst => o \in B, NEW s \in Sub
  PROVE  Right(toggle_sub(h, o, s), r, B, hole)
<1> DEFINE g == toggle_sub(h, o, s)
<1>1. /\ h \in Heaps /\ g \in Heaps /\ Unmoved(g, h, o)
      /\ (h.confused => g.confused)
  BY ToggleUnmoved DEF Right
<1> HIDE DEF g
<1>2. ASSUME ~g.confused
      PROVE  Linked(g, hole) /\ Known(g, r, B)
  <2>1. Linked(h, hole) /\ Known(h, r, B)
    BY <1>1, <1>2 DEF Right
  <2>2. Linked(g, hole)
    BY <1>1, <1>2, <2>1, ToggleLinked DEF g
  <2>3. Known(g, r, B)
    <3>1. \A q \in Owner, t \in Sub :
            g.data[q].pos[t] = IF q \in Inst \ B THEN None
                               ELSE Line(r, g.data[q].addr, t)
      BY <1>1, <2>1 DEF Known, Unmoved
    <3>2. \A a \in Inst : g.data[a].addr = a /\ (a \notin B => g.data[a].used = {})
      BY <1>1, <2>1, StepOwners DEF Known, Unmoved
    <3> QED BY <3>1, <3>2 DEF Known
  <2> QED BY <2>2, <2>3
<1> QED BY <1>1, <1>2 DEF Right, g

LEMMA OnetimeRight ==
  ASSUME NEW h, NEW r, NEW B, NEW hole, Right(h, r, B, hole), ~h.confused
  PROVE  LET g == unset_onetime(h)
         IN /\ Right(g, r, B, hole)
            /\ g.confused \/ \A o \in Steps : g.data[o].used = {}
<1> DEFINE g == unset_onetime(h)
<1>1. h \in Heaps /\ Linked(h, hole) /\ Known(h, r, B)
  BY DEF Right
<1>2. g \in Heaps /\ (g.confused \/ ( /\ Linked(g, hole) /\ Steady(g, h)
                                      /\ \A o \in Steps : g.data[o].used = {}))
  BY <1>1, OnetimeIs
<1> HIDE DEF g
<1>3. ASSUME ~g.confused
      PROVE  Known(g, r, B)
  <2>1. \A q \in Owner, t \in Sub :
          g.data[q].pos[t] = IF q \in Inst \ B THEN None
                             ELSE Line(r, g.data[q].addr, t)
    BY <1>1, <1>2, <1>3 DEF Known, Steady
  <2>2. \A a \in Inst : g.data[a].addr = a /\ (a \notin B => g.data[a].used = {})
    BY <1>1, <1>2, <1>3, StepOwners DEF Known, Steady
  <2> QED BY <2>1, <2>2 DEF Known
<1> QED BY <1>2, <1>3 DEF Right, g

(* Everything is right but the lines of o, which are not known yet.        *)
KnownBut(h, r, B, o) ==
  /\ \A q \in Owner : q # o =>
       /\ \A s \in Sub : h.data[q].pos[s] = IF q \in Inst \ B THEN None
                                           ELSE Line(r, h.data[q].addr, s)
       /\ q \in Inst => h.data[q].addr = q /\ (q \notin B => h.data[q].used = {})
  /\ o \in Inst => h.data[o].addr = o

LEMMA UpdateRight ==
  ASSUME NEW h \in Heaps, NEW r \in Layout \cup {<<>>}, NEW B, NEW hole, NEW o \in Owner,
         h.confused \/ ( /\ Linked(h, hole) /\ KnownBut(h, r, B, o)
                         /\ h.data[o].used = {}),
         NEW g, g = update_breakdata(h, r, o), NEW C, C = B \cup {o}
  PROVE  /\ Right(g, r, C, hole)
         /\ \A q \in Owner : q # o => g.data[q] = h.data[q]
<1>1. g \in Heaps /\ Updated(g, h, r, o)
  BY UpdateIs
<1>2. /\ \A q \in Owner : q # o => g.data[q] = h.data[q]
      /\ g.data[o].addr = h.data[o].addr
      /\ \A s \in Sub : g.data[o].pos[s] = Line(r, h.data[o].addr, s)
      /\ ~g.confused => ~h.confused
  BY <1>1 DEF Updated
<1>3. ASSUME ~g.confused
      PROVE  Linked(g, hole) /\ Known(g, r, C)
  <2>1. Linked(h, hole) /\ KnownBut(h, r, B, o) /\ h.data[o].used = {}
    BY <1>2, <1>3
  <2>2. Linked(g, hole)
    BY <1>3, <2>1, UpdateLinked
  <2>3. ASSUME NEW q \in Owner, NEW s \in Sub
        PROVE  g.data[q].pos[s] = IF q \in Inst \ C THEN None
                                  ELSE Line(r, g.data[q].addr, s)
    <3>1. CASE q = o
      BY <1>2, <3>1
    <3>2. CASE q # o
      BY <1>2, <2>1, <3>2 DEF KnownBut
    <3> QED BY <3>1, <3>2
  <2>4. ASSUME NEW a \in Inst
        PROVE  g.data[a].addr = a /\ (a \notin C => g.data[a].used = {})
    BY <1>2, <2>1, StepOwners DEF KnownBut
  <2> QED BY <2>2, <2>3, <2>4 DEF Known
<1> QED BY <1>1, <1>2, <1>3 DEF Right

(* Moving a one-time breakpoint that is not set.                           *)
LEMMA MoveRight ==
  ASSUME NEW h, NEW B, NEW hole, remap \in Layout \cup {<<>>}, Right(h, remap, B, hole),
         NEW o \in Steps, h.confused \/ h.data[o].used = {}, NEW a \in Addr
  PROVE  /\ Right(Move(h, o, a), remap, B, hole)
         /\ \A q \in Owner : q # o => Move(h, o, a).data[q] = h.data[q]
         /\ h.confused => Move(h, o, a).confused
<1>1. o \in Owner /\ o \notin Inst
  BY StepOwners DEF Steps
<1>2. CASE h.data[o].addr = a
  BY <1>2 DEF Move
<1>3. CASE h.data[o].addr # a
  <2> DEFINE D == [h.data EXCEPT ![o].addr = a]
             m == [h EXCEPT !.data = D]
  <2>1. /\ h \in Heaps /\ h.data \in [Owner -> BreakData] /\ h.byte \in SUBSET Nat
        /\ h.dt \in DebugTable /\ h.confused \in BOOLEAN
    BY HeapType DEF Right
  <2>2. /\ D \in [Owner -> BreakData]
        /\ \A q \in Owner : /\ D[q].used = h.data[q].used /\ D[q].pos = h.data[q].pos
                            /\ D[q].patched = h.data[q].patched
                            /\ D[q].original = h.data[q].original
                            /\ q # o => D[q] = h.data[q]
    <3>1. h.data[o] \in BreakData
      BY <1>1, <2>1
    <3>2. [h.data[o] EXCEPT !.addr = a] =
            [addr |-> a, count |-> h.data[o].count, used |-> h.data[o].used,
             patched |-> h.data[o].patched, pos |-> h.data[o].pos,
             original |-> h.data[o].original]
      BY <3>1 DEF BreakData
    <3> DEFINE e == [h.data[o] EXCEPT !.addr = a]
    <3>3. /\ e \in BreakData /\ e.used = h.data[o].used /\ e.pos = h.data[o].pos
          /\ e.patched = h.data[o].patched /\ e.original = h.data[o].original
      BY <3>1, <3>2, DataType DEF BreakData
    <3>4. D = [h.data EXCEPT ![o] = e]
      OBVIOUS
    <3> HIDE DEF e, D
    <3> QED BY <1>1, <2>1, <3>3, <3>4
  <2> HIDE DEF D
  <2>3. m = [byte |-> h.byte, data |-> D, dt |-> h.dt, confused |-> h.confused]
    BY <2>1, HeapFields
  <2>4. Move(h, o, a) = update_breakdata(m, remap, o)
    BY <1>3 DEF Move, D
  <2> HIDE DEF m
  <2>5. m \in Heaps
    BY <2>1, <2>2, <2>3 DEF Heaps
  <2>6. ASSUME ~m.confused
        PROVE  Linked(m, hole) /\ KnownBut(m, remap, B, o) /\ m.data[o].used = {}
    <3>1. /\ Linked(h, hole) /\ Known(h, remap, B) /\ h.data[o].used = {}
          /\ m.byte = h.byte /\ m.dt = h.dt /\ m.data = D
      BY <2>3, <2>6 DEF Right
    <3>2. Patched(m) /\ Original(m) /\ Entered(m)
      BY <2>2, <3>1 DEF Linked, Patched, Original, Entered
    <3>3. Owned(m)
      <4> SUFFICES ASSUME NEW p \in DOMAIN h.dt
                   PROVE  /\ h.dt[p].sub \in D[h.dt[p].owner].patched
                          /\ p = D[h.dt[p].owner].pos[h.dt[p].sub]
        BY <3>1 DEF Owned
      <4>1. h.dt[p].owner \in Owner
        BY <2>1, TableType DEF TableEntry
      <4> QED BY <2>2, <3>1, <4>1 DEF Linked, Owned
    <3>4. Linked(m, hole)
      BY <3>1, <3>2, <3>3 DEF Linked
    <3>5. KnownBut(m, remap, B, o)
      BY <1>1, <2>2, <3>1, StepOwners DEF Known, KnownBut
    <3> QED BY <1>1, <2>2, <3>1, <3>4, <3>5
  <2> DEFINE g == Move(h, o, a)
             C == B \cup {o}
  <2>7. g = update_breakdata(m, remap, o)
    BY <2>4
  <2> HIDE DEF g
  <2>13. C = B \cup {o}
    OBVIOUS
  <2> HIDE DEF C
  <2>8. m.confused \/ ( /\ Linked(m, hole) /\ KnownBut(m, remap, B, o)
                        /\ m.data[o].used = {})
    BY <2>6
  <2>9. Right(g, remap, C, hole)
    BY <1>1, <2>5, <2>7, <2>8, <2>13, UpdateRight
  <2>10. \A q \in Owner : q # o => g.data[q] = m.data[q]
    <3>1. Updated(g, m, remap, o)
      BY <1>1, <2>5, <2>7, UpdateIs
    <3> QED BY <3>1 DEF Updated
  <2>11. \A q \in Owner : q # o => m.data[q] = h.data[q]
    BY <2>2, <2>3
  <2>12. Known(g, remap, C) => Known(g, remap, B)
    BY <1>1, <2>13 DEF Known
  <2>14. h.confused => g.confused
    <3>1. Updated(g, m, remap, o) /\ g \in Heaps
      BY <1>1, <2>5, <2>7, UpdateIs
    <3>2. ~g.confused => ~m.confused
      BY <3>1 DEF Updated
    <3> QED BY <2>1, <2>3, <3>2
  <2> QED BY <2>9, <2>10, <2>11, <2>12, <2>14 DEF Right, g
<1> QED BY <1>2, <1>3

LEMMA FreshType ==
  ASSUME NEW a \in Addr
  PROVE  /\ Fresh(a) \in BreakData /\ Fresh(a).addr = a
         /\ Fresh(a).used = {} /\ Fresh(a).patched = {}
         /\ \A s \in Sub : Fresh(a).pos[s] = None /\ Fresh(a).original[s] = "code"
BY DEF Fresh, BreakData, None

(* A breakpoint that is not set is allocated anew.                         *)
LEMMA FreshRight ==
  ASSUME NEW h, NEW r, NEW B, NEW hole, Right(h, r, B, hole),
         NEW a \in Inst, h.confused \/ h.data[a].used = {},
         NEW C, C = B \ {a}, NEW g, g = Renewed(h, a)
  PROVE  Right(g, r, C, hole) /\ g.confused = h.confused /\ g.data[a].used = {}
<1>1. /\ h \in Heaps /\ h.data \in [Owner -> BreakData] /\ h.byte \in SUBSET Nat
      /\ h.dt \in DebugTable /\ h.confused \in BOOLEAN
  BY HeapType DEF Right
<1>2. a \in Owner /\ a \in Addr
  BY StepOwners DEF Inst, Addr
<1> DEFINE D == [h.data EXCEPT ![a] = Fresh(a)]
<1>3. g = [byte |-> h.byte, data |-> D, dt |-> h.dt, confused |-> h.confused]
  BY <1>1, HeapFields DEF Renewed
<1>4. /\ D \in [Owner -> BreakData] /\ D[a] = Fresh(a)
      /\ \A q \in Owner : q # a => D[q] = h.data[q]
  BY <1>1, <1>2, FreshType
<1> HIDE DEF D
<1>5. g \in Heaps /\ g.data = D /\ g.dt = h.dt /\ g.byte = h.byte /\ g.confused = h.confused
  BY <1>1, <1>3, <1>4 DEF Heaps
<1>6. D[a].used = {} /\ D[a].patched = {} /\ D[a].addr = a
  BY <1>2, <1>4, FreshType
<1>7. \A s \in Sub : D[a].pos[s] = None /\ D[a].original[s] = "code"
  BY <1>2, <1>4, FreshType
<1>8. ASSUME ~h.confused
      PROVE  Linked(g, hole) /\ Known(g, r, C)
  <2>1. Linked(h, hole) /\ Known(h, r, B) /\ h.data[a].used = {}
    BY <1>8 DEF Right
  <2>2. h.data[a].patched = {}
    <3>1. h.data[a].patched \in SUBSET Sub
      BY <1>1, <1>2, DataType
    <3> QED BY <1>2, <2>1, <3>1 DEF Linked, Patched
  <2>3. Patched(g) /\ Original(g)
    BY <1>4, <1>5, <1>6, <1>7, <2>1 DEF Linked, Patched, Original
  <2>4. Entered(g)
    <3> SUFFICES ASSUME NEW q \in Owner, NEW s \in g.data[q].patched
                 PROVE  /\ g.data[q].pos[s] \in DOMAIN g.dt
                        /\ g.dt[g.data[q].pos[s]] = [owner |-> q, sub |-> s]
      BY DEF Entered
    <3>1. g.data[q] = h.data[q]
      BY <1>4, <1>5, <1>6
    <3> QED BY <1>5, <2>1, <3>1 DEF Linked, Entered
  <2>5. Owned(g)
    <3> SUFFICES ASSUME NEW p \in DOMAIN h.dt
                 PROVE  /\ h.dt[p].sub \in D[h.dt[p].owner].patched
                        /\ p = D[h.dt[p].owner].pos[h.dt[p].sub]
      BY <1>5 DEF Owned
    <3>1. h.dt[p].owner \in Owner
      BY <1>1, TableType DEF TableEntry
    <3>2. /\ h.dt[p].sub \in h.data[h.dt[p].owner].patched
          /\ p = h.data[h.dt[p].owner].pos[h.dt[p].sub]
      BY <2>1 DEF Linked, Owned
    <3>3. D[h.dt[p].owner] = h.data[h.dt[p].owner]
      BY <1>4, <2>2, <3>1, <3>2
    <3> QED BY <3>2, <3>3
  <2>6. Linked(g, hole)
    BY <1>5, <2>1, <2>3, <2>4, <2>5 DEF Linked
  <2>7. ASSUME NEW q \in Owner, NEW s \in Sub
        PROVE  D[q].pos[s] = IF q \in Inst \ C THEN None ELSE Line(r, D[q].addr, s)
    <3>1. CASE q = a
      BY <1>7, <3>1
    <3>2. CASE q # a
      BY <1>4, <2>1, <3>2 DEF Known
    <3> QED BY <3>1, <3>2
  <2>8. ASSUME NEW i \in Inst
        PROVE  D[i].addr = i /\ (i \notin C => D[i].used = {})
    <3>1. CASE i = a
      BY <1>6, <3>1
    <3>2. CASE i # a
      BY <1>4, <2>1, <3>2, StepOwners DEF Known
    <3> QED BY <3>1, <3>2
  <2>9. Known(g, r, C)
    BY <1>5, <2>7, <2>8 DEF Known
  <2> QED BY <2>6, <2>9
<1> QED BY <1>5, <1>6, <1>8 DEF Right

-----------------------------------------------------------------------------
(* The inductive invariant in these terms: the other variables have their  *)
(* types, and the breakpoints are right.                                   *)
Rest ==
  /\ remap \in Layout \cup {<<>>}
  /\ breaks \in SUBSET Inst
  /\ fiber \in {"running", "faulted", "stopped", "stepping"}
  /\ eip \in Code \cup {None}
  /\ repatch \in Code \cup {None}
  /\ last_error \in [addr : Inst, sub : Sub, count : 0 .. MAX_SUBINSTRUCTIONS]
                     \cup {NoError}
Sound == Right(Heap, remap, breaks, {repatch})

LEMMA TypesAre == TypeOK <=> Rest /\ Heap \in Heaps
<1>1. ASSUME TypeOK PROVE Rest /\ Heap \in Heaps
  <2>1. dt = [p \in DOMAIN dt |-> dt[p]] /\ \A p \in DOMAIN dt : dt[p] \in TableEntry
    BY <1>1 DEF TypeOK, TableEntry
  <2>2. dt \in DebugTable
    BY <1>1, <2>1, TableIs DEF TypeOK
  <2> QED BY <1>1, <2>2 DEF TypeOK, Rest, Heap, Heaps
<1>2. ASSUME Rest, Heap \in Heaps PROVE TypeOK
  <2>1. /\ byte \in SUBSET Nat /\ data \in [Owner -> BreakData]
        /\ dt \in DebugTable /\ confused \in BOOLEAN
    BY <1>2, HeapType DEF Heap
  <2>2. /\ DOMAIN dt \in SUBSET Nat /\ dt = [p \in DOMAIN dt |-> dt[p]]
        /\ \A p \in DOMAIN dt : dt[p] \in TableEntry
    BY <2>1, TableType
  <2>3. dt \in [DOMAIN dt -> TableEntry]
    BY <2>2
  <2> QED BY <1>2, <2>1, <2>2, <2>3 DEF TypeOK, Rest, TableEntry
<1> QED BY <1>1, <1>2

LEMMA HeapIs ==
  /\ Heap.byte = byte /\ Heap.data = data /\ Heap.dt = dt
  /\ Heap.confused = confused
BY DEF Heap

(* Where the lines of the owners are.                                      *)
LEMMA LinesAre ==
  ASSUME Rest, NEW a \in Addr, NEW s \in Sub
  PROVE  /\ Line(remap, a, s) # None <=> /\ Compiled /\ a \in Inst
                                         /\ remap[a] + s < remap[a + 1]
         /\ Line(remap, a, s) # None => Line(remap, a, s) = remap[a] + s
<1>1. remap \in Layout \cup {<<>>}
  BY DEF Rest
<1>2. CASE remap # <<>> /\ a \in Inst
  <2>1. remap \in [1 .. NUM + 1 -> Nat]
    BY <1>1, <1>2, LayoutType
  <2>2. remap[a] \in Nat
    BY <1>2, <2>1 DEF Inst
  <2> QED BY <1>2, <2>2 DEF Line, Compiled, None, Sub
<1>3. CASE ~(remap # <<>> /\ a \in Inst)
  BY <1>3 DEF Line, Compiled
<1> QED BY <1>2, <1>3

(* A breakpoint that is not listed is not set or has no line.              *)
LEMMA KnownAre ==
  ASSUME Rest, data \in [Owner -> BreakData]
  PROVE  Known(Heap, remap, breaks) <=> LinesKnown
<1>1. \A o \in Owner : data[o].addr \in Addr
  BY DataType
<1>2. ASSUME NEW o \in Owner, NEW s \in Sub
      PROVE  (IF o \in Inst \ breaks THEN None ELSE Line(remap, data[o].addr, s))
               = (IF Listed(o) THEN Line(remap, data[o].addr, s) ELSE None)
  <2>1. CASE o \in Inst
    BY <2>1 DEF Listed
  <2>2. CASE o \notin Inst
    <3>1. data[o].addr \notin Inst => Line(remap, data[o].addr, s) = None
      BY DEF Line
    <3> QED BY <2>2, <3>1 DEF Listed
  <2> QED BY <2>1, <2>2
<1>3. (\A o \in Owner, s \in Sub :
         data[o].pos[s] = IF o \in Inst \ breaks THEN None
                          ELSE Line(remap, data[o].addr, s))
        <=> (\A o \in Owner, s \in Sub :
               data[o].pos[s] = IF Listed(o) THEN Line(remap, data[o].addr, s) ELSE None)
  BY <1>2
<1> QED BY <1>3, HeapIs DEF Known, LinesKnown

LEMMA PositionIs ==
  ASSUME Rest, data \in [Owner -> BreakData], Known(Heap, remap, breaks),
         NEW o \in Owner, NEW s \in data[o].used
  PROVE  /\ s \in Sub
         /\ data[o].pos[s] # None <=> Exists(o, s)
         /\ data[o].pos[s] # None => data[o].pos[s] = Position(o, s)
<1>1. data[o].addr \in Addr /\ s \in Sub
  BY DataType
<1>2. o \notin Inst \ breaks
  BY HeapIs DEF Known
<1>3. data[o].pos[s] = Line(remap, data[o].addr, s)
  BY <1>1, <1>2, HeapIs DEF Known
<1> QED BY <1>1, <1>3, LinesAre DEF Exists, Position

(* The two ways to say that the breakpoints are where they should be.      *)
LEMMA LinkedIs ==
  ASSUME Rest, Heap \in Heaps, Known(Heap, remap, breaks), ~confused
  PROVE  Linked(Heap, {repatch}) <=> Armed /\ TableAgrees /\ BytesAgree /\ CodeKept
<1>1. data \in [Owner -> BreakData] /\ dt \in DebugTable
  BY HeapType, HeapIs
<1>2. \A o \in Owner : data[o].used \in SUBSET Sub /\ data[o].patched \in SUBSET Sub
  BY <1>1, DataType
<1>3. \A o \in Owner : \A s \in data[o].used :
        /\ s \in Sub
        /\ data[o].pos[s] # None <=> Exists(o, s)
        /\ data[o].pos[s] # None => data[o].pos[s] = Position(o, s)
  BY <1>1, PositionIs
<1>4. Patched(Heap) <=> Armed
  BY <1>3, HeapIs DEF Patched, Armed
<1>5. ASSUME Patched(Heap), NEW o \in Owner, NEW s \in data[o].patched
      PROVE  data[o].pos[s] = Position(o, s)
  BY <1>2, <1>3, <1>5, HeapIs DEF Patched
<1>6. ASSUME Patched(Heap) PROVE Entered(Heap) /\ Owned(Heap) <=> TableAgrees
  <2>1. Entered(Heap) <=> \A o \in Owner : \A s \in data[o].patched :
                            /\ Position(o, s) \in DOMAIN dt
                            /\ dt[Position(o, s)] = [owner |-> o, sub |-> s]
    <3>1. ASSUME NEW o \in Owner, NEW s \in data[o].patched
          PROVE  (/\ data[o].pos[s] \in DOMAIN dt
                  /\ dt[data[o].pos[s]] = [owner |-> o, sub |-> s])
                 <=> (/\ Position(o, s) \in DOMAIN dt
                      /\ dt[Position(o, s)] = [owner |-> o, sub |-> s])
      BY <1>5, <1>6
    <3> QED BY <3>1, HeapIs DEF Entered
  <2>2. Owned(Heap) <=> \A p \in DOMAIN dt :
                          /\ dt[p].sub \in data[dt[p].owner].patched
                          /\ p = Position(dt[p].owner, dt[p].sub)
    <3>1. ASSUME NEW p \in DOMAIN dt
          PROVE  (/\ dt[p].sub \in data[dt[p].owner].patched
                  /\ p = data[dt[p].owner].pos[dt[p].sub])
                 <=> (/\ dt[p].sub \in data[dt[p].owner].patched
                      /\ p = Position(dt[p].owner, dt[p].sub))
      <4>1. dt[p].owner \in Owner
        BY <1>1, TableType DEF TableEntry
      <4> QED BY <1>5, <1>6, <4>1
    <3> QED BY <3>1, HeapIs DEF Owned
  <2> QED BY <2>1, <2>2 DEF TableAgrees
<1>7. Original(Heap) /\ Heap.byte \subseteq DOMAIN Heap.dt <=> CodeKept
  BY HeapIs DEF Original, CodeKept
<1>8. ASSUME byte \subseteq DOMAIN dt
      PROVE  DOMAIN dt \ byte \subseteq {repatch} <=> BytesAgree
  BY <1>8 DEF BytesAgree
<1>9. CodeKept => byte \subseteq DOMAIN dt
  BY DEF CodeKept
<1> QED BY <1>4, <1>6, <1>7, <1>8, <1>9, HeapIs DEF Linked

LEMMA IInvIs == IInv <=> Rest /\ Sound /\ (confused \/ Phases)
<1>1. ASSUME IInv PROVE Rest /\ Sound /\ (confused \/ Phases)
  <2>1. Rest /\ Heap \in Heaps
    BY <1>1, TypesAre DEF IInv
  <2>2. data \in [Owner -> BreakData]
    BY <2>1, HeapType, HeapIs
  <2>3. ASSUME ~confused PROVE Known(Heap, remap, breaks) /\ Linked(Heap, {repatch})
    <3>1. Known(Heap, remap, breaks)
      BY <1>1, <2>1, <2>2, <2>3, KnownAre DEF IInv
    <3> QED BY <1>1, <2>1, <2>3, <3>1, LinkedIs DEF IInv
  <2> QED BY <1>1, <2>1, <2>3, HeapIs DEF Sound, Right, IInv
<1>2. ASSUME Rest, Sound, confused \/ Phases PROVE IInv
  <2>1. TypeOK /\ Heap \in Heaps
    BY <1>2, TypesAre DEF Sound, Right
  <2>2. data \in [Owner -> BreakData]
    BY <2>1, HeapType, HeapIs
  <2>3. CASE confused
    BY <2>1, <2>3 DEF IInv, Armed, TableAgrees, BytesAgree
  <2>4. CASE ~confused
    <3>1. Linked(Heap, {repatch}) /\ Known(Heap, remap, breaks)
      BY <1>2, <2>4, HeapIs DEF Sound, Right
    <3>2. LinesKnown
      BY <1>2, <2>2, <3>1, KnownAre
    <3>3. Armed /\ TableAgrees /\ BytesAgree /\ CodeKept
      BY <1>2, <2>1, <2>4, <3>1, LinkedIs
    <3> QED BY <1>2, <2>1, <2>4, <3>2, <3>3 DEF IInv
  <2> QED BY <2>3, <2>4
<1> QED BY <1>1, <1>2

-----------------------------------------------------------------------------
(* One step.                                                               *)
LEMMA SoundNext ==
  ASSUME NEW g, Becomes(g), Right(g, remap', breaks', {repatch'})
  PROVE  Sound'
<1>1. g = [byte |-> g.byte, data |-> g.data, dt |-> g.dt, confused |-> g.confused]
  BY HeapType DEF Right
<1>2. Heap' = g
  BY <1>1 DEF Becomes, Heap
<1> QED BY <1>2 DEF Sound

LEMMA ToggleStep ==
  ASSUME Rest, Sound, ~confused, Phases, NEW a \in Inst, NEW s \in Sub, Toggle(a, s)
  PROVE  Rest' /\ Sound' /\ Phases'
<1> DEFINE f == Renewed(Heap, a)
           new == update_breakdata(f, remap, a)
           h0 == IF a \in breaks THEN Heap ELSE new
           h == toggle_sub(h0, a, s)
           B == breaks \cup {a}
           C == breaks \ {a}
           hole == {repatch}
           free == h.data[a].used = {}
<1>1. /\ Becomes(IF free THEN Renewed(h, a) ELSE h)
      /\ breaks' = IF free THEN C ELSE B
      /\ UNCHANGED <<remap, fiber, eip, repatch, last_error>>
  BY DEF Toggle
<1>2. Rest' /\ Phases'
  BY <1>1 DEF Rest, Phases, Code, Compiled
<1>3. /\ Right(Heap, remap, breaks, hole) /\ Heap \in Heaps
      /\ remap \in Layout \cup {<<>>} /\ a \in Owner
      /\ Known(Heap, remap, breaks)
  BY HeapIs, StepOwners DEF Rest, Sound, Right
<1>4. B = breaks \cup {a} /\ C = B \ {a} /\ (a \in breaks => B = breaks)
      /\ (a \notin breaks => C = breaks) /\ C = breaks \ {a} /\ a \in B
  OBVIOUS
<1> HIDE DEF hole, B, C, f, new
<1>5. ASSUME a \notin breaks PROVE Right(new, remap, B, hole)
  <2>1. Heap.data[a].used = {}
    BY <1>3, <1>5 DEF Known
  <2>2. Right(f, remap, C, hole) /\ f.confused = Heap.confused /\ f.data[a].used = {}
    BY <1>3, <1>4, <2>1, FreshRight DEF f
  <2>3. f \in Heaps /\ Linked(f, hole) /\ Known(f, remap, breaks)
    BY <1>4, <1>5, <2>2, HeapIs DEF Right
  <2>4. KnownBut(f, remap, breaks, a)
    BY <2>3 DEF Known, KnownBut
  <2>5. new = update_breakdata(f, remap, a)
    BY DEF new
  <2> QED BY <1>3, <1>4, <2>2, <2>3, <2>4, <2>5, UpdateRight
<1>6. Right(h0, remap, B, hole)
  BY <1>3, <1>4, <1>5
<1> HIDE DEF h0
<1>7. Right(h, remap, B, hole)
  BY <1>3, <1>4, <1>6, ToggleRight
<1> HIDE DEF h
<1>8. free => Right(Renewed(h, a), remap, C, hole)
  BY <1>4, <1>7, FreshRight
<1>9. Sound'
  <2>1. CASE free
    <3>1. Becomes(Renewed(h, a)) /\ Right(Renewed(h, a), remap', breaks', {repatch'})
      BY <1>1, <1>8, <2>1 DEF hole
    <3> QED BY <3>1, SoundNext
  <2>2. CASE ~free
    <3>1. Becomes(h) /\ Right(h, remap', breaks', {repatch'})
      BY <1>1, <1>7, <2>2 DEF hole
    <3> QED BY <3>1, SoundNext
  <2> QED BY <2>1, <2>2
<1> QED BY <1>2, <1>9

(* The one-time breakpoints are set at instructions of the page or behind  *)
(* it.                                                                     *)
Target == Addr \X Sub
LEMMA TargetsType ==
  ASSUME Rest, NEW t \in Targets
  PROVE  t[1] \in Target /\ (Len(t) # 1 => t[2] \in Target)
<1>1. /\ \A a \in Inst : a \in Addr /\ a + 1 \in Addr
      /\ \A a \in 1 .. NUM + 1 : a \in Addr
      /\ 0 \in Sub
  BY DEF Inst, Addr, Sub
<1>2. CASE last_error = NoError
  <2>1. PICK pc \in Inst : t = <<<<pc, 0>>, <<pc + 1, 0>>>>
    BY <1>2 DEF Targets
  <2> QED BY <1>1, <2>1 DEF Target
<1>3. CASE last_error # NoError
  <2> DEFINE a == last_error.addr
             s == last_error.sub + 1
             next == <<a + 1, 0>>
  <2>1. a \in Inst /\ last_error.sub \in Sub
        /\ last_error.count \in 0 .. MAX_SUBINSTRUCTIONS
    BY <1>3 DEF Rest
  <2>2. s < last_error.count => s \in Sub
    BY <2>1 DEF Sub
  <2>3. \/ t = <<next>>
        \/ \E dest \in 1 .. NUM + 1 : t = <<<<dest, 0>>, next>>
        \/ s < last_error.count /\ t = <<<<a, s>>, next>>
        \/ s < last_error.count /\ \E dest \in 1 .. NUM + 1 : t = <<<<dest, 0>>, <<a, s>>>>
    BY <1>3 DEF Targets
  <2>4. next \in Target /\ (s < last_error.count => <<a, s>> \in Target)
        /\ \A dest \in 1 .. NUM + 1 : <<dest, 0>> \in Target
    BY <1>1, <2>1, <2>2 DEF Target
  <2> HIDE DEF a, s, next
  <2> QED BY <2>3, <2>4
<1> QED BY <1>2, <1>3

LEMMA SetRight ==
  ASSUME remap \in Layout \cup {<<>>}, NEW B, NEW hole, Right(Heap, remap, B, hole),
         ~confused, NEW targets, targets[1] \in Target,
         Len(targets) # 1 => targets[2] \in Target
  PROVE  Right(set_onetime(targets), remap, B, hole)
<1> DEFINE t1 == targets[1]
           t2 == targets[2]
           u == unset_onetime(Heap)
           m == Move(u, Step0, t1[1])
           first == toggle_sub(m, Step0, t1[2])
           n == Move(first, Step1, t2[1])
<1>1. /\ Step0 \in Steps /\ Step1 \in Steps /\ Step0 # Step1
      /\ Step0 \in Owner \ Inst /\ Step1 \in Owner \ Inst
  BY StepOwners DEF Steps
<1>2. t1[1] \in Addr /\ t1[2] \in Sub
  BY DEF Target
<1>3. Right(u, remap, B, hole) /\ (u.confused \/ \A o \in Steps : u.data[o].used = {})
  BY HeapIs, OnetimeRight
<1> HIDE DEF u
<1>4. u.confused \/ u.data[Step0].used = {}
  BY <1>1, <1>3
<1>5. /\ Right(m, remap, B, hole)
      /\ \A q \in Owner : q # Step0 => m.data[q] = u.data[q]
      /\ u.confused => m.confused
  BY <1>1, <1>2, <1>3, <1>4, MoveRight
<1> HIDE DEF m
<1>6. Right(first, remap, B, hole)
  BY <1>1, <1>2, <1>5, ToggleRight
<1>7. Unmoved(first, m, Step0) /\ (m.confused => first.confused)
  <2> DEFINE s == t1[2]
             o == Step0
  <2>1. m \in Heaps /\ first = toggle_sub(m, o, s) /\ s \in Sub /\ o \in Owner
    BY <1>1, <1>2, <1>5 DEF Right
  <2> HIDE DEF first, s, o
  <2>2. Unmoved(first, m, o) /\ (m.confused => first.confused)
    BY <2>1, ToggleUnmoved
  <2> QED BY <2>2 DEF o
<1> HIDE DEF first
<1>8. first.confused \/ first.data[Step1].used = {}
  <2>1. first.data[Step1].used = m.data[Step1].used
    BY <1>1, <1>7 DEF Unmoved
  <2>2. m.data[Step1].used = u.data[Step1].used
    BY <1>1, <1>5
  <2> QED BY <1>1, <1>3, <1>5, <1>7, <2>1, <2>2
<1>9. CASE Len(targets) = 1 \/ t1 = t2
  <2>1. set_onetime(targets) = first
    BY <1>9 DEF set_onetime, first, m, u
  <2> QED BY <1>6, <2>1
<1>10. CASE ~(Len(targets) = 1 \/ t1 = t2)
  <2>1. t2[1] \in Addr /\ t2[2] \in Sub
    BY <1>10 DEF Target
  <2>2. CASE t1[1] = t2[1]
    <3>1. set_onetime(targets) = toggle_sub(first, Step0, t2[2])
      BY <1>10, <2>2 DEF set_onetime, first, m, u
    <3> QED BY <1>1, <1>6, <2>1, <3>1, ToggleRight
  <2>3. CASE t1[1] # t2[1]
    <3>1. set_onetime(targets) = toggle_sub(n, Step1, t2[2])
      BY <1>10, <2>3 DEF set_onetime, first, m, u
    <3>2. Right(n, remap, B, hole)
      BY <1>1, <1>6, <1>8, <2>1, MoveRight
    <3> HIDE DEF n
    <3> QED BY <1>1, <2>1, <3>1, <3>2, ToggleRight
  <2> QED BY <2>2, <2>3
<1> QED BY <1>9, <1>10

LEMMA StepStep ==
  ASSUME Rest, Sound, ~confused, Phases, NEW t \in Targets, step(t)
  PROVE  Rest' /\ Sound' /\ Phases'
<1> DEFINE g == set_onetime(t)
<1>1. Becomes(g) /\ UNCHANGED <<remap, breaks, fiber, eip, repatch, last_error>>
  BY DEF step
<1>2. Rest' /\ Phases'
  BY <1>1 DEF Rest, Phases, Code, Compiled
<1>3. t[1] \in Target /\ (Len(t) # 1 => t[2] \in Target)
  BY TargetsType
<1>4. Right(g, remap, breaks, {repatch})
  BY <1>3, SetRight DEF Rest, Sound
<1> HIDE DEF g
<1>5. Sound'
  BY <1>1, <1>4, SoundNext
<1> QED BY <1>2, <1>5

(* A step that leaves the breakpoints alone.                               *)
LEMMA SameSound ==
  ASSUME Sound, UNCHANGED <<remap, tables, repatch>>
  PROVE  Sound'
BY DEF Sound, Heap, tables

(* A step that changes nothing but the code's bytes, and the hole in them. *)
LEMMA ByteStep ==
  ASSUME Sound, ~confused, UNCHANGED <<remap, breaks, data, dt>>, confused' \in BOOLEAN,
         confused' \/ (byte' \subseteq DOMAIN dt /\ DOMAIN dt \ byte' \subseteq {repatch'}),
         byte' \in SUBSET Nat
  PROVE  Sound'
<1>1. Heap' \in Heaps
  <2>1. data \in [Owner -> BreakData] /\ dt \in DebugTable
    BY HeapType, HeapIs DEF Sound, Right
  <2> QED BY <2>1 DEF Heap, Heaps
<1>2. /\ Heap'.byte = byte' /\ Heap'.data = data /\ Heap'.dt = dt
      /\ Heap'.confused = confused'
  BY DEF Heap
<1>3. Linked(Heap, {repatch}) /\ Known(Heap, remap, breaks)
  BY HeapIs DEF Sound, Right
<1>4. Known(Heap', remap', breaks')
  BY <1>2, <1>3, HeapIs DEF Known
<1>5. ~confused' => Linked(Heap', {repatch'})
  BY <1>2, <1>3, HeapIs DEF Linked, Patched, Entered, Owned, Original
<1>6. Right(Heap', remap', breaks', {repatch'})
  BY <1>1, <1>2, <1>4, <1>5 DEF Right
<1> QED BY <1>6 DEF Sound

LEMMA ContinueStep ==
  ASSUME Rest, Sound, ~confused, Phases, jit_continue
  PROVE  Rest' /\ Sound' /\ Phases'
<1>1. /\ repatch = None /\ fiber = "stopped" /\ eip \in Code \cup {None}
      /\ UNCHANGED <<remap, breaks, data, dt, confused, eip, last_error>>
      /\ confused \in BOOLEAN /\ byte \in SUBSET Nat /\ dt \in DebugTable
      /\ data \in [Owner -> BreakData]
  BY HeapType, HeapIs DEF Phases, jit_continue, Rest, Sound, Right
<1>2. Linked(Heap, {repatch}) /\ None \notin DOMAIN dt
  BY <1>1, HeapIs, TableType DEF Sound, Right, None
<1>3. byte = DOMAIN dt
  BY <1>1, <1>2, HeapIs DEF Linked
<1> DEFINE d == data[dt[eip].owner]
           taken == eip \in DOMAIN dt /\ dt[eip].sub \in d.patched
<1>4. CASE taken
  <2>1. d.original[dt[eip].sub] = "code"
    <3>1. dt[eip].owner \in Owner /\ dt[eip].sub \in Sub
      BY <1>1, <1>4, TableType DEF TableEntry
    <3> QED BY <1>2, <3>1, HeapIs DEF Linked, Original
  <2>2. fiber' = "stepping" /\ repatch' = eip /\ byte' = byte \ {eip}
    BY <1>4, <2>1 DEF jit_continue
  <2>3. eip # None
    BY <1>2, <1>4
  <2>4. Rest' /\ Phases'
    BY <1>1, <2>2, <2>3 DEF Rest, Phases, Code, Compiled
  <2>5. Sound'
    BY <1>1, <1>3, <2>2, ByteStep
  <2> QED BY <2>4, <2>5
<1>5. CASE ~taken
  <2>1. fiber' = "running" /\ UNCHANGED <<repatch, byte>>
    BY <1>5 DEF jit_continue
  <2>2. Rest' /\ Phases'
    BY <1>1, <2>1 DEF Rest, Phases, Code, Compiled
  <2>3. Sound'
    BY <1>1, <2>1, SameSound DEF tables
  <2> QED BY <2>2, <2>3
<1> QED BY <1>4, <1>5

LEMMA CompiledIs ==
  ASSUME Rest
  PROVE  Code \subseteq Nat /\ (Compiled => \A a \in Inst : remap[a] \in Code)
<1>1. CASE Compiled
  <2>1. remap \in Layout
    BY <1>1 DEF Rest, Compiled
  <2>2. remap \in [1 .. NUM + 1 -> Nat] /\ \A a \in Inst : remap[a] \in remap[1] .. remap[NUM + 1] - 1
    BY <2>1, LayoutType
  <2>3. remap[1] \in Nat /\ remap[NUM + 1] \in Nat
    BY <2>2
  <2> QED BY <1>1, <2>2, <2>3 DEF Code
<1>2. CASE ~Compiled
  BY <1>2 DEF Code
<1> QED BY <1>1, <1>2

LEMMA RecompileSound ==
  ASSUME Rest, Sound, ~confused, NEW r \in Layout, recompile(r),
         UNCHANGED <<breaks, repatch>>
  PROVE  Sound' /\ remap' \in Layout
<1> DEFINE g == Found(r)[NUM + 2]
<1>1. Becomes(g) /\ remap' = r
  BY DEF recompile
<1>2. /\ Heap \in Heaps /\ Linked(Heap, {repatch}) /\ Known(Heap, remap, breaks)
      /\ breaks \subseteq Inst
  BY HeapIs DEF Rest, Sound, Right
<1>3. g \in Heaps /\ (g.confused \/ (Linked(g, {repatch}) /\ Known(g, r, breaks)))
  BY <1>2, RecompileIs
<1> HIDE DEF g
<1>4. Right(g, remap', breaks', {repatch'})
  BY <1>1, <1>3 DEF Right
<1> QED BY <1>1, <1>4, SoundNext

LEMMA RebranchStep ==
  ASSUME Rest, Sound, ~confused, Phases, NEW a \in Inst, jit_rebranch(a)
  PROVE  Rest' /\ Sound' /\ Phases'
<1>1. /\ fiber = "stopped" /\ repatch = None /\ eip' = remap'[a]
      /\ UNCHANGED <<breaks, fiber, repatch, last_error>>
  BY DEF jit_rebranch, Phases
<1>2. Phases'
  BY <1>1 DEF Phases
<1>3. Sound' /\ remap' \in Layout
  <2>1. CASE Compiled
    <3>1. UNCHANGED <<remap, byte, data, dt, confused>>
      BY <2>1 DEF jit_rebranch
    <3> QED BY <1>1, <2>1, <3>1, SameSound DEF tables, Rest, Compiled
  <2>2. CASE ~Compiled
    <3>1. PICK r \in Layout : recompile(r)
      BY <2>2 DEF jit_rebranch
    <3> QED BY <1>1, <3>1, RecompileSound
  <2> QED BY <2>1, <2>2
<1>4. remap'[a] \in Code'
  BY <1>3, LayoutType DEF Code, Compiled
<1> QED BY <1>1, <1>2, <1>3, <1>4 DEF Rest

LEMMA RecompileStep ==
  ASSUME Rest, Sound, ~confused, Phases, Recompile
  PROVE  Rest' /\ Sound' /\ Phases'
<1>1. /\ fiber = "running" /\ repatch = None /\ eip = None
      /\ UNCHANGED <<breaks, fiber, eip, repatch, last_error>>
  BY DEF Recompile, Phases
<1>2. PICK r \in Layout : recompile(r)
  BY DEF Recompile
<1>3. Sound' /\ remap' \in Layout
  BY <1>1, <1>2, RecompileSound
<1> QED BY <1>1, <1>3 DEF Rest, Phases

(* The fiber runs.                                                         *)
LEMMA RunStep ==
  ASSUME Rest, Sound, ~confused, Phases, Execute \/ Fault \/ \E a \in Inst : Branch(a)
  PROVE  Rest' /\ Sound' /\ Phases'
<1>1. /\ fiber = "running" /\ repatch = None /\ eip \in Code \cup {None}
      /\ UNCHANGED <<remap, tables, repatch, last_error>>
  BY DEF Execute, Fault, Branch, Phases, Rest
<1>2. UNCHANGED <<byte, breaks, data, dt, confused>>
  BY <1>1 DEF tables
<1>3. Sound'
  BY <1>1, SameSound
<1>4. byte \subseteq Nat /\ None \notin Nat
  BY HeapType, HeapIs DEF Sound, Right, None
<1>5. CASE Execute
  <2>1. eip' \in Code \cup {None} /\ fiber' = fiber
    BY <1>5 DEF Execute, Onward
  <2> QED BY <1>1, <1>2, <1>3, <2>1 DEF Rest, Phases, Code, Compiled
<1>6. CASE Fault
  <2>1. eip' = eip /\ fiber' = "faulted" /\ eip # None
    BY <1>4, <1>6 DEF Fault
  <2> QED BY <1>1, <1>2, <1>3, <2>1 DEF Rest, Phases, Code, Compiled
<1>7. ASSUME NEW a \in Inst, Branch(a) PROVE Rest' /\ Sound' /\ Phases'
  <2>1. eip' \in Code /\ fiber' = fiber
    BY <1>7, CompiledIs DEF Branch
  <2> QED BY <1>1, <1>2, <1>3, <2>1 DEF Rest, Phases, Code, Compiled
<1> QED BY <1>5, <1>6, <1>7

LEMMA SingleStepStep ==
  ASSUME Rest, Sound, ~confused, Phases, SingleStep
  PROVE  Rest' /\ Sound' /\ Phases'
<1>1. /\ fiber = "stepping" /\ repatch = eip /\ eip # None
      /\ repatch' = None /\ fiber' = "running" /\ byte' = byte \cup {repatch}
      /\ confused' = (confused \/ repatch \notin DOMAIN dt)
      /\ UNCHANGED <<remap, breaks, data, dt, last_error>>
      /\ eip' = eip \/ eip' \in Onward
  BY DEF SingleStep, Phases
<1>2. eip \in Code /\ eip \in Nat /\ byte \in SUBSET Nat /\ confused \in BOOLEAN
  BY <1>1, CompiledIs, HeapType, HeapIs DEF Rest, Sound, Right
<1>3. byte \subseteq DOMAIN dt /\ DOMAIN dt \ byte \subseteq {repatch}
  BY HeapIs DEF Sound, Right, Linked
<1>4. Sound'
  <2>1. byte' \in SUBSET Nat /\ confused' \in BOOLEAN
    BY <1>1, <1>2
  <2>2. ~confused' => byte' \subseteq DOMAIN dt /\ DOMAIN dt \ byte' \subseteq {repatch'}
    BY <1>1, <1>3
  <2> QED BY <1>1, <2>1, <2>2, ByteStep
<1>5. eip' \in Code \cup {None}
  BY <1>1, <1>2 DEF Onward
<1>6. Rest' /\ Phases'
  BY <1>1, <1>5 DEF Rest, Phases, Code, Compiled
<1> QED BY <1>4, <1>6

(* A breakpoint in the table is one that is set, at its position.          *)
LEMMA EntryIs ==
  ASSUME Rest, Sound, ~confused, NEW p \in DOMAIN dt
  PROVE  LET o == dt[p].owner
             s == dt[p].sub
         IN /\ o \in Owner /\ s \in data[o].used /\ s \in Sub
            /\ data[o].addr \in Inst /\ p = Position(o, s)
<1> DEFINE o == dt[p].owner
           s == dt[p].sub
<1>1. /\ Linked(Heap, {repatch}) /\ Known(Heap, remap, breaks)
      /\ data \in [Owner -> BreakData] /\ dt \in DebugTable
  BY HeapType, HeapIs DEF Sound, Right
<1>2. o \in Owner /\ s \in Sub
  BY <1>1, TableType DEF TableEntry
<1>3. s \in data[o].patched /\ p = data[o].pos[s]
  BY <1>1, HeapIs DEF Linked, Owned
<1> HIDE DEF o, s
<1>4. s \in data[o].used /\ data[o].pos[s] # None
  BY <1>1, <1>2, <1>3, HeapIs DEF Linked, Patched
<1>5. Exists(o, s) /\ data[o].pos[s] = Position(o, s)
  BY <1>1, <1>2, <1>4, PositionIs
<1> QED BY <1>2, <1>3, <1>4, <1>5 DEF Exists, o, s

LEMMA StopStep ==
  ASSUME Rest, Sound, ~confused, Phases, Stop
  PROVE  Rest' /\ Sound' /\ Phases'
<1>1. /\ fiber = "faulted" /\ fiber' = "stopped" /\ repatch = None
      /\ UNCHANGED <<remap, breaks, eip, repatch>>
  BY DEF Stop, Phases
<1>2. Phases'
  BY <1>1 DEF Phases
<1>3. CASE eip \in DOMAIN dt
  <2> DEFINE o == dt[eip].owner
             g == IF o \in Steps THEN unset_onetime(Heap) ELSE Heap
  <2>1. /\ last_error' = [addr |-> data[o].addr, sub |-> dt[eip].sub,
                          count |-> data[o].count]
        /\ Becomes(g)
    BY <1>3 DEF Stop
  <2>2. data[o].addr \in Inst /\ dt[eip].sub \in Sub /\ o \in Owner
    BY <1>3, EntryIs
  <2>3. data[o].count \in 0 .. MAX_SUBINSTRUCTIONS
    BY <2>2, HeapType, HeapIs, DataType DEF Sound, Right
  <2>4. Right(g, remap, breaks, {repatch})
    <3>1. Right(unset_onetime(Heap), remap, breaks, {repatch})
      BY HeapIs, OnetimeRight DEF Sound
    <3> QED BY <3>1 DEF Sound
  <2> HIDE DEF g, o
  <2>5. Sound'
    BY <1>1, <2>1, <2>4, SoundNext
  <2>6. Rest'
    BY <1>1, <2>1, <2>2, <2>3 DEF Rest, Code, Compiled
  <2> QED BY <1>2, <2>5, <2>6
<1>4. CASE eip \notin DOMAIN dt
  <2>1. last_error' = NoError /\ UNCHANGED <<byte, data, dt, confused>>
    BY <1>4 DEF Stop
  <2>2. Sound'
    BY <1>1, <2>1, SameSound DEF tables
  <2>3. Rest'
    BY <1>1, <2>1 DEF Rest, Code, Compiled
  <2> QED BY <1>2, <2>2, <2>3
<1> QED BY <1>3, <1>4

LEMMA InitInv ==
  ASSUME Init
  PROVE  Rest /\ Sound /\ Phases
<1>1. Rest /\ Phases
  BY DEF Init, Rest, Phases
<1>2. 0 \in Addr /\ \A a \in Inst : a \in Addr
  BY DEF Addr, Inst
<1> DEFINE start(o) == IF o \in Inst THEN o ELSE 0
<1>3. \A o \in Owner : data[o] = Fresh(start(o)) /\ start(o) \in Addr
  BY <1>2 DEF Init
<1>4. data = [o \in Owner |-> Fresh(start(o))]
  BY DEF Init
<1> HIDE DEF start
<1>5. \A o \in Owner :
        /\ data[o] \in BreakData /\ data[o].addr = start(o)
        /\ data[o].used = {} /\ data[o].patched = {}
        /\ \A s \in Sub : data[o].pos[s] = None /\ data[o].original[s] = "code"
  BY <1>3, FreshType
<1>6. Heap \in Heaps
  <2>1. data \in [Owner -> BreakData]
    BY <1>4, <1>5
  <2>2. byte = {} /\ dt = <<>> /\ confused = FALSE
    BY DEF Init
  <2>3. dt \in DebugTable
    <3>1. DOMAIN dt = {} /\ dt = [p \in {} |-> dt[p]]
      BY <2>2
    <3> QED BY <3>1, TableIs
  <2> QED BY <2>1, <2>2, <2>3 DEF Heap, Heaps
<1>7. Linked(Heap, {repatch})
  <2>1. byte = {} /\ DOMAIN dt = {}
    BY DEF Init
  <2> QED BY <1>5, <2>1, HeapIs DEF Linked, Patched, Entered, Owned, Original
<1>8. Known(Heap, remap, breaks)
  <2>1. remap = <<>>
    BY DEF Init
  <2>2. \A a, s : Line(remap, a, s) = None
    BY <2>1 DEF Line
  <2> QED BY <1>5, <2>2, HeapIs, StepOwners DEF Known, start
<1> QED BY <1>1, <1>6, <1>7, <1>8 DEF Sound, Right

LEMMA NextInv ==
  ASSUME Rest, Sound, ~confused, Phases, Next
  PROVE  Rest' /\ Sound' /\ Phases'
<1>1. CASE \E a \in Inst, s \in Sub : Toggle(a, s)
  BY <1>1, ToggleStep
<1>2. CASE \E t \in Targets : step(t)
  BY <1>2, StepStep
<1>3. CASE jit_continue
  BY <1>3, ContinueStep
<1>4. CASE \E a \in Inst : jit_rebranch(a)
  BY <1>4, RebranchStep
<1>5. CASE Execute \/ Fault \/ \E a \in Inst : Branch(a)
  BY <1>5, RunStep
<1>6. CASE Recompile
  BY <1>6, RecompileStep
<1>7. CASE SingleStep
  BY <1>7, SingleStepStep
<1>8. CASE Stop
  BY <1>8, StopStep
<1> QED BY <1>1, <1>2, <1>3, <1>4, <1>5, <1>6, <1>7, <1>8
     DEF Next, UserInterface, Fiber

-----------------------------------------------------------------------------
(* The breakpoints that are set are in the code and in the table where     *)
(* their lines are, in every state that toggles, steps, stops and          *)
(* compilations of the page lead to, unless two of them have met.          *)
THEOREM Inductive == Spec => []IInv
<1> DEFINE Strong == Rest /\ Sound /\ (confused \/ Phases)
<1>1. Init => Strong
  BY InitInv
<1>2. Strong /\ [Next]_vars => Strong'
  <2> SUFFICES ASSUME Strong, [Next]_vars PROVE Strong'
    OBVIOUS
  <2>1. CASE Next
    <3>1. ~confused
      BY <2>1 DEF Next
    <3> QED BY <2>1, <3>1, NextInv
  <2>2. CASE UNCHANGED vars
    <3>1. UNCHANGED <<remap, tables, fiber, eip, repatch, last_error>>
      BY <2>2 DEF vars
    <3>2. Sound'
      BY <3>1, SameSound
    <3> QED BY <3>1, <3>2 DEF Rest, Phases, Code, Compiled, tables
  <2> QED BY <2>1, <2>2
<1>3. Strong => IInv
  BY IInvIs
<1> HIDE DEF Strong
<1> QED BY <1>1, <1>2, <1>3, PTL DEF Spec

(* A breakpoint, regular or one-time, is patched exactly when it is set    *)
(* and its line compiled (toggle_subbreakpoint, recompile).                *)
THEOREM BreakpointsArmed == Spec => []Armed
<1>1. IInv => Armed
  BY DEF IInv
<1> QED BY <1>1, Inductive, PTL

(* The debugger table has the patched breakpoints where they are and       *)
(* nothing else (patch_bi, unpatch_bi, remove_bi).                         *)
THEOREM TableKnows == Spec => []TableAgrees
<1>1. IInv => TableAgrees
  BY DEF IInv
<1> QED BY <1>1, Inductive, PTL

(* The code is as it was compiled but for the bytes of the table, of which *)
(* one may be taken out for a step (jit_continue, internal_cb).            *)
THEOREM BytesKept == Spec => []BytesAgree
<1>1. IInv => BytesAgree
  BY DEF IInv
<1> QED BY <1>1, Inductive, PTL

(* What a stop reports is a breakpoint that is set at the fiber's very     *)
(* position, and it reports none only where none is left (internal_cb,     *)
(* trigger).                                                               *)
THEOREM StopsRight == Spec => StopsAtBreakpoint
<1> DEFINE A == fiber = "faulted" /\ fiber' = "stopped" /\ ~confused =>
                  IF last_error' = NoError THEN eip \notin byte'
                  ELSE \E o \in Owner : \E s \in data[o].used :
                         /\ last_error'.addr = data[o].addr
                         /\ last_error'.sub = s
                         /\ eip = Position(o, s)
<1>1. IInv /\ [Next]_vars => [A]_vars
  <2> SUFFICES ASSUME IInv, Next, fiber = "faulted", fiber' = "stopped", ~confused
               PROVE  IF last_error' = NoError THEN eip \notin byte'
                      ELSE \E o \in Owner : \E s \in data[o].used :
                             /\ last_error'.addr = data[o].addr
                             /\ last_error'.sub = s
                             /\ eip = Position(o, s)
    OBVIOUS
  <2>1. Stop
    BY DEF Next, UserInterface, Fiber, Toggle, step, jit_continue, jit_rebranch,
           Execute, Fault, Recompile, Branch, SingleStep
  <2>2. Rest /\ Sound
    BY IInvIs
  <2>3. CASE eip \in DOMAIN dt
    <3> DEFINE o == dt[eip].owner
    <3>1. last_error' = [addr |-> data[o].addr, sub |-> dt[eip].sub,
                         count |-> data[o].count]
      BY <2>1, <2>3 DEF Stop
    <3>2. /\ o \in Owner /\ dt[eip].sub \in data[o].used /\ data[o].addr \in Inst
          /\ eip = Position(o, dt[eip].sub)
      BY <2>2, <2>3, EntryIs
    <3>3. last_error' # NoError
      BY <3>1, <3>2 DEF NoError, Inst
    <3> HIDE DEF o
    <3> QED BY <3>1, <3>2, <3>3
  <2>4. CASE eip \notin DOMAIN dt
    <3>1. last_error' = NoError /\ byte' = byte
      BY <2>1, <2>4 DEF Stop
    <3>2. byte \subseteq DOMAIN dt
      BY DEF IInv, CodeKept
    <3> QED BY <2>4, <3>1, <3>2
  <2> QED BY <2>3, <2>4
<1> QED BY <1>1, Inductive, PTL DEF Spec, StopsAtBreakpoint
=============================================================================
