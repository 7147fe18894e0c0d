------------------------------ MODULE VramProofs ------------------------------
(***************************************************************************)
(* Proofs about the address maps: the lookup tables follow the recorded    *)
(* mappings through every store to a VRAM control register and every       *)
(* remapping of a TCM, for all sizes, priorities and control values.       *)
(***************************************************************************)
EXTENDS Vram, TLAPS

USE RegionAssumption, PageAssumption

-----------------------------------------------------------------------------
(* The region that recalc_prio finds among some regions is one of them and *)
(* no other has a higher priority.                                         *)
LEMMA HighestOf ==
  ASSUME NEW S \in SUBSET Region, S # {}
  PROVE  /\ Highest(S) \in S
         /\ \A q \in S : priority[q] <= priority[Highest(S)]
<1>1. \E r \in S : \A q \in S : priority[q] <= priority[r]
  BY PriorityAssumption
<1> QED BY <1>1 DEF Highest

(* What map_region and unmap rely on: no page is without a region and the  *)
(* table is current.                                                       *)
Good(s) == /\ s \in Space
           /\ \A p \in Page : null_region \in Mapped(s.ovl[p])
           /\ TableCurrent(s)

(* A page that is not without a region has one to show.                    *)
LEMMA PrioType ==
  ASSUME NEW e \in Entry, null_region \in Mapped(e)
  PROVE  prio(e) \in Region /\ prio(e) \in Mapped(e)
<1>1. Mapped(e) \in SUBSET Region /\ Mapped(e) # {}
  BY DEF Mapped
<1> QED BY <1>1, HighestOf DEF prio

(* The regions mapped at a page are all that recalc_prio looks at.         *)
LEMMA SamePrio ==
  ASSUME NEW e, NEW f, e.sections = f.sections
  PROVE  Mapped(e) = Mapped(f) /\ prio(e) = prio(f)
BY DEF Mapped, prio

(* Looking up the pages of I again gives them the blocks of ovl's regions. *)
LEMMA Lookup ==
  ASSUME NEW map \in [Page -> Block], NEW ovl \in [Page -> Entry], NEW I,
         \A p \in Page : null_region \in Mapped(ovl[p])
  PROVE  /\ apply_mapping_internal(map, ovl, I) \in [Page -> Block]
         /\ \A p \in Page :
              apply_mapping_internal(map, ovl, I)[p].region =
                IF p \in I THEN prio(ovl[p]) ELSE map[p].region
<1> DEFINE applied == apply_mapping_internal(map, ovl, I)
<1>1. ASSUME NEW p \in Page
      PROVE  /\ applied[p] \in Block
             /\ applied[p].region = IF p \in I THEN prio(ovl[p]) ELSE map[p].region
  <2>1. CASE p \notin I
    BY <2>1 DEF apply_mapping_internal
  <2>2. CASE p \in I
    <3> DEFINE r == prio(ovl[p])
    <3>1. ovl[p] \in Entry
      OBVIOUS
    <3>2. r \in Region
      BY <3>1, PrioType
    <3>3. applied[p] = [region |-> r, index |-> (p - ovl[p].lower) % pages[r]]
      BY <2>2 DEF apply_mapping_internal
    <3> HIDE DEF r, applied
    <3>4. p - ovl[p].lower \in Int /\ pages[r] \in Nat \ {0}
      BY <3>1, <3>2 DEF Entry
    <3> DEFINE d == p - ovl[p].lower
               n == pages[r]
    <3>5. d \in Int /\ n \in Nat \ {0}
      BY <3>4
    <3> HIDE DEF d, n
    <3>6. d % n \in Nat
      BY <3>5
    <3>7. applied[p] = [region |-> r, index |-> d % n]
      BY <3>3 DEF d, n
    <3>8. applied[p] \in Block /\ applied[p].region = r
      BY <3>2, <3>6, <3>7 DEF Block
    <3> QED BY <2>2, <3>8 DEF r
  <2> QED BY <2>1, <2>2
<1>2. applied \in [Page -> Block]
  <2>1. applied = [p \in Page |-> applied[p]]
    BY DEF apply_mapping_internal
  <2> QED BY <1>1, <2>1
<1> QED BY <1>1, <1>2

-----------------------------------------------------------------------------
(* t is s with region r counted once more from page low up to page high.   *)
Adds(t, s, r, low, high) ==
  \A p \in Page, q \in Region :
    t.ovl[p].sections[q] =
      s.ovl[p].sections[q] + IF q = r /\ p \in Interval(low, high) THEN 1 ELSE 0

(* From s to t, region r alone is counted differently, and the table       *)
(* changes only where it is or was mapped.                                 *)
Moves(t, s, r) ==
  /\ \A p \in Page, q \in Region \ {r} : t.ovl[p].sections[q] = s.ovl[p].sections[q]
  /\ \A p \in Page :
       t.map[p] # s.map[p] => r \in Mapped(s.ovl[p]) \cup Mapped(t.ovl[p])

(* A mapped region is counted once more at the pages of its interval; the  *)
(* table is current again.                                                 *)
LEMMA MapRegion ==
  ASSUME NEW s, Good(s), NEW r \in Region, NEW low \in Nat, NEW high \in Int,
         NEW t, t = map_region(s, r, low, high)
  PROVE  Good(t) /\ Adds(t, s, r, low, high) /\ Moves(t, s, r)
<1> DEFINE ovl == Added(s.ovl, r, low, high)
           I == Interval(low, high)
<1>1. s.ovl \in [Page -> Entry] /\ s.map \in [Page -> Block]
  BY DEF Good, Space
<1>2. ASSUME NEW p \in Page
      PROVE  /\ ovl[p] \in Entry
             /\ p \notin I => ovl[p].sections = s.ovl[p].sections
             /\ \A q \in Region :
                  ovl[p].sections[q] =
                    s.ovl[p].sections[q] + IF q = r /\ p \in I THEN 1 ELSE 0
  <2>1. s.ovl[p] \in Entry /\ p \in Int
    BY <1>1
  <2>2. CASE high <= low
    <3>1. ovl[p] = s.ovl[p] /\ p \notin I
      BY <2>1, <2>2 DEF Added, Interval
    <3>2. \A q \in Region : s.ovl[p].sections[q] \in Nat
      BY <2>1 DEF Entry
    <3> HIDE DEF ovl, I
    <3> QED BY <2>1, <3>1, <3>2
  <2>3. CASE ~(high <= low)
    <3> DEFINE e == s.ovl[p]
               l == Split(e.lower, p, low, high)
               n == [e.sections EXCEPT ![r] = IF p \in I THEN @ + 1 ELSE @]
    <3>1. ovl[p] = [sections |-> n, lower |-> l]
      BY <2>3 DEF Added
    <3>2. e.sections \in [Region -> Nat] /\ e.lower \in Nat
      BY <2>1 DEF Entry
    <3>3. l \in Nat
      BY <2>1, <2>3, <3>2 DEF Split
    <3> HIDE DEF l, e, I
    <3>4. n \in [Region -> Nat]
      BY <3>2
    <3>5. \A q \in Region :
            n[q] = e.sections[q] + IF q = r /\ p \in I THEN 1 ELSE 0
      BY <3>2
    <3>6. p \notin I => n = e.sections
      BY <3>2
    <3>7. ovl[p].sections = n /\ ovl[p] \in Entry
      BY <3>1, <3>3, <3>4 DEF Entry
    <3> QED BY <3>5, <3>6, <3>7 DEF e
  <2> QED BY <2>2, <2>3
<1>3. ovl \in [Page -> Entry]
  <2>1. ovl = [p \in Page |-> ovl[p]]
    BY <1>1 DEF Added
  <2> HIDE DEF ovl, I
  <2> QED BY <1>2, <2>1
<1>4. ASSUME NEW p \in Page
      PROVE  null_region \in Mapped(ovl[p])
  <2>1. null_region \in Mapped(s.ovl[p])
    BY DEF Good
  <2>2. s.ovl[p].sections \in [Region -> Nat]
    BY <1>1 DEF Entry
  <2> HIDE DEF ovl, I
  <2>3. ovl[p].sections[null_region] >= s.ovl[p].sections[null_region]
    BY <1>2, <2>2
  <2>4. ovl[p].sections[null_region] \in Nat
    BY <1>2 DEF Entry
  <2> QED BY <2>1, <2>2, <2>3, <2>4 DEF Mapped
<1> DEFINE m == apply_mapping_internal(s.map, ovl, I)
<1>5. t = [ovl |-> ovl, map |-> m]
  BY DEF map_region
<1> HIDE DEF ovl, I
<1>6. /\ m \in [Page -> Block]
      /\ \A p \in Page :
           m[p].region = IF p \in I THEN prio(ovl[p]) ELSE s.map[p].region
  BY <1>1, <1>3, <1>4, Lookup
<1>11. \A p \in Page : p \notin I => m[p] = s.map[p]
  BY DEF apply_mapping_internal
<1> HIDE DEF m
<1>7. ASSUME NEW p \in Page
      PROVE  m[p].region = prio(ovl[p])
  <2>1. CASE p \in I
    BY <1>6, <2>1
  <2>2. CASE p \notin I
    <3>1. prio(ovl[p]) = prio(s.ovl[p])
      BY <1>2, <2>2, SamePrio
    <3>2. s.map[p].region = prio(s.ovl[p])
      BY DEF Good, TableCurrent
    <3> QED BY <1>6, <2>2, <3>1, <3>2
  <2> QED BY <2>1, <2>2
<1>8. t.ovl = ovl /\ t.map = m
  BY <1>5
<1>9. Good(t)
  <2>1. t \in Space
    BY <1>3, <1>5, <1>6 DEF Space
  <2> QED BY <2>1, <1>4, <1>7, <1>8 DEF Good, TableCurrent
<1>10. Adds(t, s, r, low, high)
  BY <1>2, <1>8 DEF I, Adds
<1>12. Moves(t, s, r)
  <2>1. ASSUME NEW p \in Page, NEW q \in Region \ {r}
        PROVE  t.ovl[p].sections[q] = s.ovl[p].sections[q]
    <3>1. s.ovl[p].sections[q] \in Nat
      BY <1>1 DEF Entry
    <3> QED BY <1>2, <1>8, <3>1
  <2>2. ASSUME NEW p \in Page, t.map[p] # s.map[p]
        PROVE  r \in Mapped(t.ovl[p])
    <3>1. p \in I
      BY <1>8, <1>11, <2>2
    <3>2. s.ovl[p].sections[r] \in Nat
      BY <1>1 DEF Entry
    <3>3. t.ovl[p].sections[r] > 0
      BY <1>2, <1>8, <3>1, <3>2
    <3> QED BY <3>3 DEF Mapped
  <2> QED BY <2>1, <2>2 DEF Moves
<1> QED BY <1>9, <1>10, <1>12

(* Where nothing clashes, an unmapped region is counted once less wherever *)
(* it was mapped, and the table is current although it is looked up again  *)
(* only where it showed the region: elsewhere another one was above.       *)
LEMMA Unmap ==
  ASSUME NEW s, Good(s), NEW r \in Region, r # null_region,
         \A p \in Page : ~Clash(s.ovl[p])
  PROVE  LET t == unmap(s, r)
         IN /\ Good(t)
            /\ \A p \in Page, q \in Region :
                 t.ovl[p].sections[q] = IF q = r THEN 0 ELSE s.ovl[p].sections[q]
            /\ Moves(t, s, r)
<1> DEFINE ovl == Removed(s.ovl, r)
           I == {p \in Page : prio(s.ovl[p]) = r}
           m == apply_mapping_internal(s.map, ovl, I)
           t == unmap(s, r)
<1>1. s.ovl \in [Page -> Entry] /\ s.map \in [Page -> Block]
  BY DEF Good, Space
<1>2. ASSUME NEW p \in Page
      PROVE  /\ ovl[p] \in Entry
             /\ \A q \in Region :
                  ovl[p].sections[q] = IF q = r THEN 0 ELSE s.ovl[p].sections[q]
  <2> DEFINE e == s.ovl[p]
  <2>1. e \in Entry /\ ~Clash(e)
    BY <1>1
  <2>2. ovl[p] = [e EXCEPT !.sections[r] = IF @ = 0 THEN 0 ELSE @ - 1]
    BY DEF Removed
  <2> HIDE DEF e, ovl
  <2>3. e.sections \in [Region -> Nat] /\ e.lower \in Nat
    BY <2>1 DEF Entry
  <2>4. ~(e.sections[r] > 1)
    BY <2>1 DEF Clash
  <2>5. ovl[p].sections =
          [e.sections EXCEPT ![r] = IF e.sections[r] = 0 THEN 0
                                    ELSE e.sections[r] - 1]
    BY <2>1, <2>2 DEF Entry
  <2>6. ovl[p].lower = e.lower /\ ovl[p] = [sections |-> ovl[p].sections,
                                           lower |-> ovl[p].lower]
    BY <2>1, <2>2 DEF Entry
  <2>7. (IF e.sections[r] = 0 THEN 0 ELSE e.sections[r] - 1) = 0
    BY <2>3, <2>4
  <2>8. ovl[p].sections = [e.sections EXCEPT ![r] = 0]
    BY <2>5, <2>7
  <2>9. ovl[p].sections \in [Region -> Nat]
    BY <2>3, <2>8
  <2>10. ovl[p] \in Entry
    BY <2>3, <2>6, <2>9 DEF Entry
  <2>11. \A q \in Region :
           ovl[p].sections[q] = IF q = r THEN 0 ELSE e.sections[q]
    BY <2>3, <2>8
  <2> QED BY <2>10, <2>11 DEF e
<1>3. ovl \in [Page -> Entry]
  <2>1. ovl = [p \in Page |-> ovl[p]]
    BY DEF Removed
  <2> HIDE DEF ovl
  <2> QED BY <1>2, <2>1
<1>4. t = [ovl |-> ovl, map |-> m]
  BY DEF unmap
<1> HIDE DEF ovl, t
<1>5. ASSUME NEW p \in Page
      PROVE  Mapped(ovl[p]) = Mapped(s.ovl[p]) \ {r}
  BY <1>1, <1>2 DEF Mapped, Entry
<1>6. \A p \in Page : null_region \in Mapped(ovl[p])
  BY <1>5 DEF Good
<1>7. /\ m \in [Page -> Block]
      /\ \A p \in Page :
           m[p].region = IF p \in I THEN prio(ovl[p]) ELSE s.map[p].region
  <2> HIDE DEF I
  <2> QED BY <1>1, <1>3, <1>6, Lookup
<1>12. \A p \in Page : p \notin I => m[p] = s.map[p]
  BY DEF apply_mapping_internal
<1> HIDE DEF m
<1>8. ASSUME NEW p \in Page
      PROVE  m[p].region = prio(ovl[p])
  <2>1. CASE p \in I
    BY <1>7, <2>1
  <2>2. CASE p \notin I
    <3> DEFINE S == Mapped(s.ovl[p])
               U == Mapped(ovl[p])
               h == prio(s.ovl[p])
               k == prio(ovl[p])
    <3>1. S \in SUBSET Region /\ S # {} /\ U \in SUBSET Region /\ U # {}
      BY <1>6 DEF Mapped, Good
    <3>2. h \in S /\ h # r
      BY <2>2, <3>1, HighestOf DEF prio
    <3>3. h \in U /\ U \subseteq S
      BY <1>5, <3>2
    <3>4. k \in U /\ \A q \in U : priority[q] <= priority[k]
      BY <3>1, HighestOf DEF prio
    <3>5. \A q \in S : priority[q] <= priority[h]
      BY <3>1, HighestOf DEF prio
    <3>6. ~Clash(s.ovl[p]) /\ priority[h] \in Nat /\ priority[k] \in Nat
      BY <3>1, <3>2, <3>4
    <3> HIDE DEF h, k
    <3>7. priority[h] = priority[k]
      BY <3>3, <3>4, <3>5, <3>6
    <3>8. h = k
      BY <3>2, <3>3, <3>4, <3>6, <3>7 DEF Clash
    <3>9. s.map[p].region = h
      BY DEF h, Good, TableCurrent
    <3> QED BY <1>7, <2>2, <3>8, <3>9 DEF k
  <2> QED BY <2>1, <2>2
<1>9. t.ovl = ovl /\ t.map = m
  BY <1>4
<1>10. Good(t)
  <2>1. t \in Space
    BY <1>3, <1>4, <1>7 DEF Space
  <2> QED BY <2>1, <1>6, <1>8, <1>9 DEF Good, TableCurrent
<1>11. \A p \in Page, q \in Region :
         t.ovl[p].sections[q] = IF q = r THEN 0 ELSE s.ovl[p].sections[q]
  BY <1>2, <1>9
<1>13. Moves(t, s, r)
  <2>1. ASSUME NEW p \in Page, t.map[p] # s.map[p]
        PROVE  r \in Mapped(s.ovl[p])
    <3>1. p \in I
      BY <1>9, <1>12, <2>1
    <3>2. Mapped(s.ovl[p]) \in SUBSET Region /\ Mapped(s.ovl[p]) # {}
      BY DEF Mapped, Good
    <3> QED BY <3>1, <3>2, HighestOf DEF prio
  <2> QED BY <1>11, <2>1 DEF Moves
<1> QED BY <1>10, <1>11, <1>13 DEF t

(* Unmapping a region and mapping it elsewhere moves that region alone.    *)
LEMMA MovesTwice ==
  ASSUME NEW r \in Region, NEW s, NEW u, NEW t, Moves(u, s, r), Moves(t, u, r),
         \A p \in Page : u.ovl[p].sections[r] = 0
  PROVE  Moves(t, s, r)
<1>1. \A p \in Page : r \notin Mapped(u.ovl[p])
  BY DEF Mapped
<1> QED BY <1>1 DEF Moves

-----------------------------------------------------------------------------
(* The regions of banks A to G are told apart from each other, from the    *)
(* other banks and from the TCMs.                                          *)
LEMMA Banks ==
  /\ \A i \in Bank : bank[i] \in Region /\ bank[i] # null_region
  /\ \A i \in Bank, j \in 0 .. 6 : bank[i] = bank[j] => i = j
  /\ \A r \in TCM \cup {"vram_h", "ram", "exp_wram"} :
       r \in Region /\ \A j \in 0 .. 6 : bank[j] # r
  /\ \A r \in TCM \cup {"vram_h"} : r # null_region
  /\ Movable \subseteq Region /\ bank[8] = "vram_i"
  /\ {"vram_h", "vram_i"} \subseteq Movable \ TCM
  /\ \A i \in Bank : bank[i] \notin TCM
<1>1. \A i \in Bank : bank[i] \in Region /\ bank[i] # null_region
  BY BankAssumption, NullAssumption DEF Movable
<1>2. /\ bank[0] = "vram_a" /\ bank[1] = "vram_b" /\ bank[2] = "vram_c"
      /\ bank[3] = "vram_d" /\ bank[4] = "vram_e" /\ bank[5] = "vram_f"
      /\ bank[6] = "vram_g" /\ bank[7] = "vram_h" /\ bank[8] = "vram_i"
  BY DEF bank, Bank
<1>3. \A i \in Bank, j \in 0 .. 6 : bank[i] = bank[j] => i = j
  BY <1>2 DEF Bank
<1>4. \A r \in TCM \cup {"vram_h", "ram", "exp_wram"} :
        \A j \in 0 .. 6 : bank[j] # r
  BY <1>2 DEF TCM
<1>5. "vram_h" \in Region /\ "vram_h" # null_region
  BY <1>1, <1>2 DEF Bank
<1>6. \A r \in TCM \cup {"ram", "exp_wram"} : r \in Region
  BY BankAssumption DEF Movable
<1>7. \A r \in TCM : r # null_region
  BY NullAssumption DEF Movable
<1>8. Movable \subseteq Region
  BY BankAssumption
<1>9. {"vram_h", "vram_i"} \subseteq Movable \ TCM
  BY <1>2 DEF Movable, Bank, TCM
<1>10. \A i \in Bank : bank[i] \notin TCM
  BY <1>2 DEF Bank, TCM
<1> QED BY <1>1, <1>2, <1>3, <1>4, <1>5, <1>6, <1>7, <1>8, <1>9, <1>10

(* map_vcnt maps the bank whose number it is given, or bank H as number 8, *)
(* and never at address 0, which stands for not mapped.                    *)
LEMMA PlacesType ==
  ASSUME NEW i \in Bank, NEW m \in 0 .. 7, NEW o \in Nat, NEW d \in Places(i, m, o)
  PROVE  /\ d[1] \in Core /\ d[3] \in Nat \ {0}
         /\ d[2] = IF i \in 0 .. 6 THEN bank[i] ELSE "vram_h"
<1>1. \E c \in Core, P \in SUBSET (Nat \ {0}) :
        d \in At(c, IF i \in 0 .. 6 THEN bank[i] ELSE "vram_h", P)
  <2>1. lut_fg(o) \subseteq Nat
    BY BeyondAssumption DEF lut_fg
  <2>2. /\ {BG_A + f : f \in lut_fg(o)} \subseteq Nat \ {0}
        /\ {OBJ_A + f : f \in lut_fg(o)} \subseteq Nat \ {0}
    BY <2>1 DEF BG_A, OBJ_A
  <2>3. CASE i \in 0 .. 3
    <3>1. /\ {LCDC + 8 * i} \subseteq Nat \ {0} /\ {BG_A + o} \subseteq Nat \ {0}
          /\ {OBJ_A + o} \subseteq Nat \ {0} /\ {BG_B} \subseteq Nat \ {0}
          /\ {OBJ_B} \subseteq Nat \ {0}
      BY <2>3 DEF BG_A, BG_B, OBJ_A, OBJ_B, LCDC
    <3>2. d \in UNION {At(c, bank[i], P) : c \in Core,
                        P \in {{LCDC + 8 * i}, {BG_A + o}, {OBJ_A + o}, {BG_B}, {OBJ_B}}}
      BY <2>3 DEF Places, Core
    <3> QED BY <2>3, <3>1, <3>2
  <2>4. CASE i \in 4 .. 6
    <3> DEFINE A == {BG_A + f : f \in lut_fg(o)}
               B == {OBJ_A + f : f \in lut_fg(o)}
               L == {LCDC + (IF i = 4 THEN 32 ELSE 31 + i)}
    <3>1. L \subseteq Nat \ {0} /\ {BG_A} \subseteq Nat \ {0} /\ {OBJ_A} \subseteq Nat \ {0}
      BY <2>4 DEF BG_A, OBJ_A, LCDC
    <3>2. Places(i, m, o) = CASE m = 0 -> At("ARM9", bank[i], L)
                              [] i = 4 /\ m = 1 -> At("ARM9", bank[i], {BG_A})
                              [] i = 4 /\ m = 2 -> At("ARM9", bank[i], {OBJ_A})
                              [] i \in 5 .. 6 /\ m = 1 -> At("ARM9", bank[i], A)
                              [] i \in 5 .. 6 /\ m = 2 -> At("ARM9", bank[i], B)
                              [] OTHER -> {}
      BY <2>4 DEF Places
    <3>3. A \subseteq Nat \ {0} /\ B \subseteq Nat \ {0}
      BY <2>2
    <3> HIDE DEF A, B, L
    <3>4. \/ d \in At("ARM9", bank[i], L) \/ d \in At("ARM9", bank[i], {BG_A})
          \/ d \in At("ARM9", bank[i], {OBJ_A}) \/ d \in At("ARM9", bank[i], A)
          \/ d \in At("ARM9", bank[i], B)
      BY <3>2
    <3> QED BY <2>4, <3>1, <3>3, <3>4 DEF Core
  <2>5. CASE i \in 7 .. 8
    <3>1. {LCDC + 38} \subseteq Nat \ {0} /\ {BG_B} \subseteq Nat \ {0}
      BY DEF BG_A, BG_B, LCDC
    <3>2. d \in UNION {At(c, "vram_h", P) : c \in Core, P \in {{LCDC + 38}, {BG_B}}}
      BY <2>5 DEF Places, Core
    <3> QED BY <2>5, <3>1, <3>2
  <2> QED BY <2>3, <2>4, <2>5 DEF Bank
<1> QED BY <1>1 DEF At

-----------------------------------------------------------------------------
(* Both maps are good where the conjuncts of the invariant say so.         *)
LEMMA AllGood ==
  ASSUME space \in [Core -> Space]
  PROVE  (NullMapped /\ TablesCurrent) <=> \A c \in Core : Good(space[c])
BY DEF NullMapped, TablesCurrent, Good

(* A step moves region r alone, and maps it no oftener than it may be.     *)
Single(r) ==
  /\ r \in Movable
  /\ \A c \in Core : Moves(space'[c], space[c], r)
  /\ r \in TCM => \A c \in Core, p \in Page : space'[c].ovl[p].sections[r] <= 1
  /\ r = "vram_i" => \A c \in Core, p \in Page : space'[c].ovl[p].sections[r] = 0

(* What does not move stays where it is.                                   *)
LEMMA SingleKeeps ==
  ASSUME OnceMapped, NEW r, Single(r)
  PROVE  OnceMapped'
<1> SUFFICES ASSUME NEW c \in Core, NEW p \in Page
             PROVE  LET n == space'[c].ovl[p].sections
                    IN /\ \A q \in TCM : n[q] <= 1
                       /\ n["vram_i"] = 0
                       /\ \A q \in Region \ Movable :
                            IF q \in {null_region, IF c = "ARM7" THEN "exp_wram" ELSE "ram"}
                            THEN n[q] <= 1 ELSE n[q] = 0
  BY DEF OnceMapped
<1> DEFINE m == space[c].ovl[p].sections
           n == space'[c].ovl[p].sections
<1>1. /\ \A q \in TCM : m[q] <= 1
      /\ m["vram_i"] = 0
      /\ \A q \in Region \ Movable :
           IF q \in {null_region, IF c = "ARM7" THEN "exp_wram" ELSE "ram"}
           THEN m[q] <= 1 ELSE m[q] = 0
  BY DEF OnceMapped
<1>2. \A q \in Region \ {r} : n[q] = m[q]
  BY DEF Single, Moves
<1>3. /\ r \in TCM => n[r] <= 1
      /\ r = "vram_i" => n[r] = 0
      /\ r \in Movable
  BY DEF Single
<1>4. TCM \subseteq Region /\ "vram_i" \in Region
  BY Banks
<1> HIDE DEF m, n
<1>5. \A q \in TCM : n[q] <= 1
  BY <1>1, <1>2, <1>3, <1>4
<1>6. n["vram_i"] = 0
  BY <1>1, <1>2, <1>3, <1>4
<1>7. ASSUME NEW q \in Region \ Movable
      PROVE  IF q \in {null_region, IF c = "ARM7" THEN "exp_wram" ELSE "ram"}
             THEN n[q] <= 1 ELSE n[q] = 0
  <2>1. n[q] = m[q]
    BY <1>2, <1>3
  <2> QED BY <1>1, <2>1
<1> QED BY <1>5, <1>6, <1>7 DEF n

(* A bank that is mapped ends up at its page of that core alone, and no    *)
(* other bank is touched.                                                  *)
LEMMA MapBank ==
  ASSUME IInv, NoClash, NEW c \in Core, NEW i \in Bank, NEW b,
         b = IF i \in 0 .. 6 THEN bank[i] ELSE "vram_h",
         NEW page \in Nat \ {0}, map_bank(c, i, b, page)
  PROVE  /\ space' \in [Core -> Space] /\ NullMapped' /\ TablesCurrent'
         /\ mapping' = [mapping EXCEPT ![c][i] = page]
         /\ BanksPlaced' /\ Single(b)
<1>1. /\ space \in [Core -> Space] /\ mapping \in [Core -> [Bank -> Nat]]
      /\ \A k \in Core : Good(space[k])
  BY AllGood DEF IInv, TypeOK
<1>2. b \in Region /\ b # null_region /\ (\A j \in 0 .. 6 : bank[j] = b => j = i)
  BY Banks DEF Bank
<1>5. b \in Movable /\ b \notin TCM /\ b # "vram_i"
  <2>1. CASE i \in 0 .. 6
    <3>1. b = bank[i] /\ b \in Movable
      BY <2>1 DEF Movable
    <3>2. \A r \in TCM : bank[i] # r
      BY <2>1, Banks
    <3>3. bank[8] = "vram_i" /\ bank[8] # bank[i]
      BY <2>1, Banks DEF Bank
    <3> QED BY <3>1, <3>2, <3>3
  <2>2. CASE i \notin 0 .. 6
    BY <2>2, Banks
  <2> QED BY <2>1, <2>2
<1>3. CASE mapping[c][i] = page
  <2>1. space' = space /\ mapping' = mapping
    BY <1>3 DEF map_bank
  <2>2. mapping = [mapping EXCEPT ![c][i] = page]
    BY <1>1, <1>3
  <2>3. Single(b)
    BY <1>5, <2>1 DEF Single, Moves
  <2> QED BY <2>1, <2>2, <2>3 DEF IInv, TypeOK, NullMapped, TablesCurrent, BanksPlaced
<1>4. CASE mapping[c][i] # page
  <2> DEFINE s == space[c]
             u == IF mapping[c][i] # 0 THEN unmap(s, b) ELSE s
             high == page + pages[b]
             t == map_region(u, b, page, high)
  <2>1. space' = [space EXCEPT ![c] = t] /\ mapping' = [mapping EXCEPT ![c][i] = page]
    BY <1>4 DEF map_bank
  <2>2. /\ Good(u)
        /\ \A p \in Page, q \in Region :
             u.ovl[p].sections[q] =
               IF mapping[c][i] # 0 /\ q = b THEN 0 ELSE s.ovl[p].sections[q]
        /\ IF mapping[c][i] # 0 THEN Moves(u, s, b) ELSE u = s
    <3>1. CASE mapping[c][i] = 0
      BY <1>1, <3>1
    <3>2. CASE mapping[c][i] # 0
      <4>1. Good(s) /\ \A p \in Page : ~Clash(s.ovl[p])
        BY <1>1 DEF NoClash
      <4> HIDE DEF s
      <4> QED BY <1>2, <3>2, <4>1, Unmap
    <3> QED BY <3>1, <3>2
  <2> HIDE DEF u
  <2>3. high \in Int
    BY <1>2
  <2>4. Good(t) /\ Adds(t, u, b, page, high) /\ Moves(t, u, b)
    <3>1. page \in Nat /\ b \in Region /\ Good(u) /\ t = map_region(u, b, page, high)
      BY <1>2, <2>2
    <3> HIDE DEF high, t
    <3> QED BY <2>3, <3>1, MapRegion
  <2> HIDE DEF t
  <2>5. space' \in [Core -> Space]
    BY <1>1, <2>1, <2>4 DEF Good
  <2>6. \A k \in Core : Good(space'[k])
    BY <1>1, <2>1, <2>4
  <2>7. NullMapped' /\ TablesCurrent'
    BY <2>5, <2>6 DEF NullMapped, TablesCurrent, Good
  <2>8. ASSUME NEW k \in Core, NEW j \in 0 .. 6, NEW p \in Page
        PROVE  space'[k].ovl[p].sections[bank[j]] =
                 IF /\ mapping'[k][j] # 0
                    /\ p \in Interval(mapping'[k][j], mapping'[k][j] + pages[bank[j]])
                 THEN 1 ELSE 0
    <3>1. space[k].ovl[p].sections[bank[j]] =
            IF /\ mapping[k][j] # 0
               /\ p \in Interval(mapping[k][j], mapping[k][j] + pages[bank[j]])
            THEN 1 ELSE 0
      BY DEF IInv, BanksPlaced
    <3>2. bank[j] \in Region /\ j \in Bank
      BY Banks DEF Bank
    <3>3. CASE k # c
      <4>1. space'[k] = space[k] /\ mapping'[k] = mapping[k]
        BY <1>1, <2>1, <3>3
      <4> QED BY <3>1, <4>1
    <3>4. CASE k = c /\ bank[j] # b
      <4>1. j # i
        BY <3>4
      <4>2. space'[k] = t /\ mapping'[k][j] = mapping[k][j]
        BY <1>1, <2>1, <3>2, <3>4, <4>1
      <4>3. t.ovl[p].sections[bank[j]] = s.ovl[p].sections[bank[j]] + 0
        BY <2>2, <2>4, <3>2, <3>4 DEF Adds
      <4> QED BY <3>1, <3>4, <4>2, <4>3
    <3>5. CASE k = c /\ bank[j] = b
      <4>1. j = i
        BY <1>2, <3>5
      <4>2. space'[k] = t /\ mapping'[k][j] = page
        BY <1>1, <2>1, <3>2, <3>5, <4>1
      <4>3. u.ovl[p].sections[b] = 0
        BY <2>2, <3>1, <3>2, <3>5, <4>1
      <4>4. t.ovl[p].sections[b] = 0 + IF p \in Interval(page, high) THEN 1 ELSE 0
        BY <1>2, <2>4, <4>3 DEF Adds
      <4> HIDE DEF high
      <4>5. t.ovl[p].sections[b] = IF p \in Interval(page, high) THEN 1 ELSE 0
        BY <4>4
      <4> QED BY <3>5, <4>2, <4>5 DEF high
    <3> QED BY <3>3, <3>4, <3>5
  <2>9. BanksPlaced'
    BY <2>8 DEF BanksPlaced
  <2>10. Moves(t, s, b)
    <3>1. CASE mapping[c][i] = 0
      BY <2>2, <2>4, <3>1
    <3>2. CASE mapping[c][i] # 0
      <4>1. Moves(u, s, b) /\ \A p \in Page : u.ovl[p].sections[b] = 0
        BY <1>2, <2>2, <3>2
      <4> HIDE DEF s
      <4> QED BY <1>2, <2>4, <4>1, MovesTwice
    <3> QED BY <3>1, <3>2
  <2>11. \A k \in Core : Moves(space'[k], space[k], b)
    <3>1. \A k \in Core : IF k = c THEN space'[k] = t ELSE space'[k] = space[k]
      BY <1>1, <2>1
    <3>2. \A k \in Core : k # c => Moves(space'[k], space[k], b)
      BY <3>1 DEF Moves
    <3> QED BY <2>10, <3>1, <3>2
  <2>12. Single(b)
    BY <1>5, <2>11 DEF Single
  <2> QED BY <2>1, <2>5, <2>7, <2>9, <2>12
<1> QED BY <1>3, <1>4

(* A disabled bank leaves both maps and nothing else does.                 *)
LEMMA DisableBank ==
  ASSUME IInv, NoClash, NEW i \in Bank, Disable(i)
  PROVE  /\ space' \in [Core -> Space] /\ NullMapped' /\ TablesCurrent'
         /\ mapping' = [c \in Core |-> [mapping[c] EXCEPT ![i] = 0]]
         /\ BanksPlaced' /\ Single(bank[i])
<1> DEFINE b == bank[i]
<1>1. /\ space \in [Core -> Space] /\ mapping \in [Core -> [Bank -> Nat]]
      /\ \A k \in Core : Good(space[k])
  BY AllGood DEF IInv, TypeOK
<1>2. b \in Region /\ b # null_region /\ \A j \in 0 .. 6 : bank[j] = b => j = i
  BY Banks DEF Bank
<1>9. b \in Movable /\ b \notin TCM
  BY Banks DEF Movable
<1> HIDE DEF b
<1>3. /\ space' = [c \in Core |-> IF mapping[c][i] # 0 THEN unmap(space[c], b)
                                  ELSE space[c]]
      /\ mapping' = [c \in Core |-> [mapping[c] EXCEPT ![i] = 0]]
  BY DEF Disable, unmap_bank, b
<1>4. ASSUME NEW c \in Core
      PROVE  /\ Good(space'[c])
             /\ \A p \in Page, q \in Region :
                  space'[c].ovl[p].sections[q] =
                    IF mapping[c][i] # 0 /\ q = b THEN 0
                    ELSE space[c].ovl[p].sections[q]
             /\ Moves(space'[c], space[c], b)
  <2>1. CASE mapping[c][i] = 0
    BY <1>1, <1>3, <2>1 DEF Moves
  <2>2. CASE mapping[c][i] # 0
    <3>1. Good(space[c]) /\ \A p \in Page : ~Clash(space[c].ovl[p])
      BY <1>1 DEF NoClash
    <3> DEFINE before == space[c]
    <3>2. space'[c] = unmap(before, b)
      BY <1>3, <2>2
    <3>3. Good(before) /\ \A p \in Page : ~Clash(before.ovl[p])
      BY <3>1
    <3> HIDE DEF before
    <3>4. /\ Good(unmap(before, b)) /\ Moves(unmap(before, b), before, b)
          /\ \A p \in Page, q \in Region :
               unmap(before, b).ovl[p].sections[q] =
                 IF q = b THEN 0 ELSE before.ovl[p].sections[q]
      BY <1>2, <3>3, Unmap
    <3> QED BY <2>2, <3>2, <3>4 DEF before
  <2> QED BY <2>1, <2>2
<1>5. space' \in [Core -> Space]
  <2>1. \A c \in Core : space'[c] \in Space
    BY <1>4 DEF Good
  <2>2. space' = [c \in Core |-> space'[c]]
    BY <1>3
  <2> QED BY <2>1, <2>2
<1>6. NullMapped' /\ TablesCurrent'
  BY <1>4 DEF NullMapped, TablesCurrent, Good
<1>7. ASSUME NEW c \in Core, NEW j \in 0 .. 6, NEW p \in Page
      PROVE  space'[c].ovl[p].sections[bank[j]] =
               IF /\ mapping'[c][j] # 0
                  /\ p \in Interval(mapping'[c][j], mapping'[c][j] + pages[bank[j]])
               THEN 1 ELSE 0
  <2>1. space[c].ovl[p].sections[bank[j]] =
          IF /\ mapping[c][j] # 0
             /\ p \in Interval(mapping[c][j], mapping[c][j] + pages[bank[j]])
          THEN 1 ELSE 0
    BY DEF IInv, BanksPlaced
  <2>2. bank[j] \in Region /\ j \in Bank
    BY Banks DEF Bank
  <2>3. CASE j = i
    <3>1. mapping'[c][j] = 0 /\ bank[j] = b
      BY <1>1, <1>3, <2>2, <2>3 DEF b
    <3>2. space'[c].ovl[p].sections[bank[j]] = 0
      BY <1>4, <2>1, <2>2, <2>3, <3>1
    <3> QED BY <3>1, <3>2
  <2>4. CASE j # i
    <3>1. mapping'[c][j] = mapping[c][j] /\ bank[j] # b
      BY <1>1, <1>2, <1>3, <2>2, <2>4
    <3>2. space'[c].ovl[p].sections[bank[j]] = space[c].ovl[p].sections[bank[j]]
      BY <1>4, <2>2, <3>1
    <3> QED BY <2>1, <3>1, <3>2
  <2> QED BY <2>3, <2>4
<1>8. BanksPlaced'
  BY <1>7 DEF BanksPlaced
<1>10. Single(b)
  <2>1. ASSUME b = "vram_i", NEW c \in Core, NEW p \in Page
        PROVE  space'[c].ovl[p].sections[b] = 0
    <3>1. space[c].ovl[p].sections[b] = 0
      BY <2>1 DEF IInv, OnceMapped
    <3> QED BY <1>2, <1>4, <3>1
  <2> QED BY <1>4, <1>9, <2>1 DEF Single
<1> QED BY <1>3, <1>5, <1>6, <1>8, <1>10 DEF b

(* A TCM is moved in the ARM9's map; it is no bank.                        *)
LEMMA RemapTcm ==
  ASSUME IInv, NoClash, NEW r \in TCM, NEW base \in Page, NEW size \in Nat,
         remap_tcm(r, base, size)
  PROVE  /\ space' \in [Core -> Space] /\ NullMapped' /\ TablesCurrent'
         /\ BanksPlaced' /\ Single(r)
<1> DEFINE s == space["ARM9"]
           u == unmap(s, r)
           high == (base + size) % PAGES
           t == map_region(u, r, base, high)
<1>1. /\ space \in [Core -> Space] /\ "ARM9" \in Core
      /\ \A k \in Core : Good(space[k])
  BY AllGood DEF IInv, TypeOK, Core
<1>2. r \in Region /\ r # null_region /\ \A j \in 0 .. 6 : bank[j] # r
  BY Banks
<1>12. r \in Movable /\ r # "vram_i"
  BY Banks DEF Movable
<1>3. /\ Good(u) /\ Moves(u, s, r)
      /\ \A p \in Page, q \in Region :
           u.ovl[p].sections[q] = IF q = r THEN 0 ELSE s.ovl[p].sections[q]
  <2>1. Good(s) /\ \A p \in Page : ~Clash(s.ovl[p])
    BY <1>1 DEF NoClash
  <2> HIDE DEF s
  <2> QED BY <1>2, <2>1, Unmap
<1>4. space' = [space EXCEPT !["ARM9"] = t] /\ mapping' = mapping
  BY DEF remap_tcm
<1>5. base \in Nat /\ high \in Int
  <2>1. base \in Nat /\ base + size \in Int /\ PAGES \in Nat \ {0}
    OBVIOUS
  <2> QED BY <2>1
<1> HIDE DEF u, high
<1>6. Good(t) /\ Adds(t, u, r, base, high) /\ Moves(t, u, r)
  <2>1. t = map_region(u, r, base, high)
    OBVIOUS
  <2> HIDE DEF t
  <2> QED BY <1>2, <1>3, <1>5, <2>1, MapRegion
<1> HIDE DEF t
<1>7. space' \in [Core -> Space]
  BY <1>1, <1>4, <1>6 DEF Good
<1>8. \A k \in Core : Good(space'[k])
  BY <1>1, <1>4, <1>6
<1>9. NullMapped' /\ TablesCurrent'
  BY <1>8 DEF NullMapped, TablesCurrent, Good
<1>10. ASSUME NEW k \in Core, NEW j \in 0 .. 6, NEW p \in Page
       PROVE  space'[k].ovl[p].sections[bank[j]] = space[k].ovl[p].sections[bank[j]]
  <2>1. CASE k # "ARM9"
    BY <1>1, <1>4, <2>1
  <2>2. CASE k = "ARM9"
    <3>1. bank[j] \in Region /\ bank[j] # r
      BY <1>2, Banks DEF Bank
    <3>2. s \in Space
      BY <1>1
    <3>3. s.ovl[p].sections[bank[j]] \in Nat
      BY <3>1, <3>2 DEF Space, Entry
    <3>4. space'[k] = t
      BY <1>1, <1>4, <2>2
    <3>5. t.ovl[p].sections[bank[j]] = s.ovl[p].sections[bank[j]] + 0
      BY <1>3, <1>6, <3>1 DEF Adds
    <3> QED BY <2>2, <3>3, <3>4, <3>5
  <2> QED BY <2>1, <2>2
<1>11. BanksPlaced'
  <2>1. BanksPlaced
    BY DEF IInv
  <2>2. \A k \in Core, j \in 0 .. 6 : mapping'[k][j] = mapping[k][j]
    BY <1>4
  <2>3. ASSUME NEW k \in Core, NEW j \in 0 .. 6, NEW p \in Page
        PROVE  space'[k].ovl[p].sections[bank[j]] =
                 IF /\ mapping'[k][j] # 0
                    /\ p \in Interval(mapping'[k][j], mapping'[k][j] + pages[bank[j]])
                 THEN 1 ELSE 0
    <3>1. space[k].ovl[p].sections[bank[j]] =
            IF /\ mapping[k][j] # 0
               /\ p \in Interval(mapping[k][j], mapping[k][j] + pages[bank[j]])
            THEN 1 ELSE 0
      BY <2>1 DEF BanksPlaced
    <3>2. mapping'[k][j] = mapping[k][j]
      BY <2>2
    <3> QED BY <1>10, <3>1, <3>2
  <2> QED BY <2>3 DEF BanksPlaced
<1>13. Single(r)
  <2>1. \A p \in Page : u.ovl[p].sections[r] = 0
    BY <1>2, <1>3
  <2>2. Moves(t, s, r)
    <3> HIDE DEF s
    <3> QED BY <1>2, <1>3, <1>6, <2>1, MovesTwice
  <2>3. \A k \in Core : IF k = "ARM9" THEN space'[k] = t ELSE space'[k] = space[k]
    BY <1>1, <1>4
  <2>4. \A k \in Core : k # "ARM9" => Moves(space'[k], space[k], r)
    BY <2>3 DEF Moves
  <2>5. \A k \in Core : Moves(space'[k], space[k], r)
    BY <2>2, <2>3, <2>4
  <2>6. ASSUME NEW k \in Core, NEW p \in Page
        PROVE  space'[k].ovl[p].sections[r] <= 1
    <3>1. space[k].ovl[p].sections[r] <= 1
      BY DEF IInv, OnceMapped
    <3>2. t.ovl[p].sections[r] = 0 + IF p \in Interval(base, high) THEN 1 ELSE 0
      BY <1>2, <1>6, <2>1 DEF Adds
    <3>3. t.ovl[p].sections[r] <= 1
      BY <3>2
    <3> QED BY <2>3, <3>1, <3>3
  <2> QED BY <1>12, <2>5, <2>6 DEF Single
<1> QED BY <1>7, <1>9, <1>11, <1>13

-----------------------------------------------------------------------------
(* A map that holds the null region alone.                                 *)
LEMMA NullMap ==
  /\ Good(init_null)
  /\ \A p \in Page, q \in Region :
       init_null.ovl[p].sections[q] = IF q = null_region THEN 1 ELSE 0
<1>1. init_null \in Space
  BY DEF init_null, Space, Entry, Block
<1>2. \A p \in Page : Mapped(init_null.ovl[p]) = {null_region}
  BY DEF init_null, Mapped
<1>3. Highest({null_region}) = null_region
  BY HighestOf
<1>4. TableCurrent(init_null)
  <2>1. \A p \in Page : init_null.map[p].region = null_region
    BY DEF init_null
  <2> QED BY <1>2, <1>3, <2>1 DEF TableCurrent, prio
<1>5. \A p \in Page, q \in Region :
        init_null.ovl[p].sections[q] = IF q = null_region THEN 1 ELSE 0
  BY DEF init_null
<1> QED BY <1>1, <1>2, <1>4, <1>5 DEF Good

(* Nothing but main memory, work RAM and the data TCM is mapped at first.  *)
LEMMA InitInv == Init => IInv
<1> SUFFICES ASSUME Init PROVE IInv
  OBVIOUS
<1> DEFINE a == map_region(init_null, "exp_wram", BG_A, BG_A + 1024)
           b == map_region(init_null, "ram", 2048, 3072)
           t == map_region(b, "data_tcm", 512, 513)
<1>1. space = [c \in Core |-> IF c = "ARM7" THEN a ELSE t]
  BY DEF Init
<1>2. /\ "exp_wram" \in Region /\ "ram" \in Region /\ "data_tcm" \in Region
      /\ \A j \in 0 .. 6 : /\ bank[j] # "exp_wram" /\ bank[j] # "ram"
                           /\ bank[j] # "data_tcm"
  BY Banks DEF TCM
<1>3. BG_A \in Nat /\ BG_A + 1024 \in Int
  BY DEF BG_A
<1> HIDE DEF a, b, t
<1>4. Good(a) /\ Adds(a, init_null, "exp_wram", BG_A, BG_A + 1024)
  BY <1>2, <1>3, NullMap, MapRegion DEF a
<1>5. Good(b) /\ Adds(b, init_null, "ram", 2048, 3072)
  <2>1. 2048 \in Nat /\ 3072 \in Int /\ b = map_region(init_null, "ram", 2048, 3072)
    BY DEF b
  <2>2. "ram" \in Region /\ Good(init_null)
    BY <1>2, NullMap
  <2> QED BY <2>1, <2>2, MapRegion
<1>6. Good(t) /\ Adds(t, b, "data_tcm", 512, 513)
  <2>1. 512 \in Nat /\ 513 \in Int /\ t = map_region(b, "data_tcm", 512, 513)
    BY DEF t
  <2> QED BY <1>2, <1>5, <2>1, MapRegion
<1>7. ASSUME NEW c \in Core
      PROVE  /\ Good(space[c])
             /\ \A j \in 0 .. 6, p \in Page : space[c].ovl[p].sections[bank[j]] = 0
  <2>1. ASSUME NEW j \in 0 .. 6, NEW p \in Page
        PROVE  /\ a.ovl[p].sections[bank[j]] = 0
               /\ t.ovl[p].sections[bank[j]] = 0
    <3>1. bank[j] \in Region /\ bank[j] # null_region
      BY Banks DEF Bank
    <3>2. init_null.ovl[p].sections[bank[j]] = 0
      BY <3>1, NullMap
    <3>3. a.ovl[p].sections[bank[j]] = 0
      BY <1>2, <1>4, <3>1, <3>2 DEF Adds
    <3>4. b.ovl[p].sections[bank[j]] = 0
      BY <1>2, <1>5, <3>1, <3>2 DEF Adds
    <3>5. t.ovl[p].sections[bank[j]] = 0
      BY <1>2, <1>6, <3>1, <3>4 DEF Adds
    <3> QED BY <3>3, <3>5
  <2>2. space[c] = a \/ space[c] = t
    BY <1>1
  <2> QED BY <1>4, <1>6, <2>1, <2>2
<1>8. space \in [Core -> Space]
  BY <1>1, <1>4, <1>6 DEF Good
<1>9. /\ mapping = [c \in Core |-> [i \in Bank |-> 0]]
      /\ vramcnt = [i \in 0 .. 11 |-> Off] /\ idx = 9
  BY DEF Init, Done
<1>10. TypeOK
  <2>1. Off \in Byte
    BY DEF Off, Byte
  <2> QED BY <1>8, <1>9, <2>1 DEF TypeOK, Done
<1>11. NullMapped /\ TablesCurrent
  BY <1>7 DEF NullMapped, TablesCurrent, Good
<1>12. BanksPlaced
  BY <1>7, <1>9 DEF BanksPlaced, Bank
<1>13. Settled
  <2>1. \A i \in 0 .. 6 : ~Cnt(i).on
    BY <1>9 DEF Cnt, Off
  <2>2. \A i \in 0 .. 6, c \in Core : mapping[c][i] = 0
    BY <1>9 DEF Bank
  <2> QED BY <2>1, <2>2 DEF Settled, Placed
<1>14. ASSUME NEW p \in Page, NEW q \in Region
       PROVE  /\ a.ovl[p].sections[q] \in 0 .. 1 /\ t.ovl[p].sections[q] \in 0 .. 1
              /\ q \notin {null_region, "exp_wram"} => a.ovl[p].sections[q] = 0
              /\ q \notin {null_region, "ram", "data_tcm"} => t.ovl[p].sections[q] = 0
  <2>1. init_null.ovl[p].sections[q] = IF q = null_region THEN 1 ELSE 0
    BY NullMap
  <2>2. null_region \notin {"exp_wram", "ram", "data_tcm"}
    BY NullAssumption DEF Movable, TCM
  <2>3. /\ a.ovl[p].sections[q] \in 0 .. 1
        /\ q \notin {null_region, "exp_wram"} => a.ovl[p].sections[q] = 0
    BY <1>4, <2>1, <2>2 DEF Adds
  <2>4. /\ b.ovl[p].sections[q] \in 0 .. 1
        /\ q \notin {null_region, "ram"} => b.ovl[p].sections[q] = 0
    BY <1>5, <2>1, <2>2 DEF Adds
  <2>5. /\ t.ovl[p].sections[q] \in 0 .. 1
        /\ q \notin {null_region, "ram", "data_tcm"} => t.ovl[p].sections[q] = 0
    BY <1>6, <2>2, <2>4 DEF Adds
  <2> QED BY <2>3, <2>5
<1>15. OnceMapped
  <2>1. ASSUME NEW c \in Core, NEW p \in Page, NEW q \in Region
        PROVE  /\ space[c].ovl[p].sections[q] \in 0 .. 1
               /\ q \notin {null_region, "data_tcm",
                            IF c = "ARM7" THEN "exp_wram" ELSE "ram"} =>
                    space[c].ovl[p].sections[q] = 0
    <3>1. CASE c = "ARM7"
      BY <1>1, <1>14, <3>1 DEF Core
    <3>2. CASE c = "ARM9"
      BY <1>1, <1>14, <3>2 DEF Core
    <3> QED BY <3>1, <3>2 DEF Core
  <2>2. TCM \subseteq Region /\ "data_tcm" \in Movable
    BY Banks DEF Movable, TCM
  <2>3. "vram_i" \in Region /\ "vram_i" # null_region
    BY Banks, NullAssumption
  <2> QED BY <2>1, <2>2, <2>3 DEF OnceMapped
<1> QED BY <1>10, <1>11, <1>12, <1>13, <1>15 DEF IInv

-----------------------------------------------------------------------------
(* The values enumerated for a store are values of their registers.        *)
LEMMA ValuesOf ==
  ASSUME NEW I, NEW v \in Values(I)
  PROVE  \A i \in I : v[i] \in Control[i]
BY DEF Values

(* Stores of every width hand a word of control values to store32.         *)
LEMMA StoreIsWord ==
  ASSUME TypeOK, Store
  PROVE  \E w \in 0 .. 2, value \in [0 .. 3 -> Byte] : store32(w, value)
<1>0. vramcnt \in [0 .. 11 -> Byte] /\ \A i \in 0 .. 11 : Control[i] \subseteq Byte
  BY ControlAssumption DEF TypeOK
<1>1. CASE \E w \in 0 .. 2 : \E value \in Values(4 * w .. 4 * w + 3) :
             store32(w, [b \in 0 .. 3 |-> value[4 * w + b]])
  <2>0. PICK w \in 0 .. 2 : \E value \in Values(4 * w .. 4 * w + 3) :
          store32(w, [b \in 0 .. 3 |-> value[4 * w + b]])
    BY <1>1
  <2>1. PICK value \in Values(4 * w .. 4 * w + 3) :
          store32(w, [b \in 0 .. 3 |-> value[4 * w + b]])
    BY <2>0
  <2>2. \A i \in 4 * w .. 4 * w + 3 : value[i] \in Control[i]
    BY ValuesOf
  <2>3. \A b \in 0 .. 3 : 4 * w + b \in 4 * w .. 4 * w + 3 /\ 4 * w + b \in 0 .. 11
    OBVIOUS
  <2>4. \A b \in 0 .. 3 : value[4 * w + b] \in Byte
    BY <1>0, <2>2, <2>3
  <2>5. [b \in 0 .. 3 |-> value[4 * w + b]] \in [0 .. 3 -> Byte]
    BY <2>4
  <2> QED BY <2>1, <2>5
<1>2. CASE \E h \in 0 .. 5 : \E value \in Values(2 * h .. 2 * h + 1) :
             store16(h, [b \in 0 .. 1 |-> value[2 * h + b]])
  <2>0. PICK h \in 0 .. 5 : \E value \in Values(2 * h .. 2 * h + 1) :
          store16(h, [b \in 0 .. 1 |-> value[2 * h + b]])
    BY <1>2
  <2>1. PICK value \in Values(2 * h .. 2 * h + 1) :
          store16(h, [b \in 0 .. 1 |-> value[2 * h + b]])
    BY <2>0
  <2> DEFINE half == [b \in 0 .. 1 |-> value[2 * h + b]]
             word == [b \in 0 .. 3 |->
                        IF b \div 2 = h % 2 THEN half[b % 2]
                        ELSE vramcnt[2 * h + (IF h % 2 = 0 THEN b ELSE b % 2)]]
  <2>2. \A i \in 2 * h .. 2 * h + 1 : value[i] \in Control[i]
    BY ValuesOf
  <2>3. half \in [0 .. 1 -> Byte]
    <3>1. \A b \in 0 .. 1 : 2 * h + b \in 2 * h .. 2 * h + 1 /\ 2 * h + b \in 0 .. 11
      OBVIOUS
    <3>2. \A b \in 0 .. 1 : value[2 * h + b] \in Byte
      BY <1>0, <2>2, <3>1
    <3> QED BY <3>2
  <2>4. store32(h \div 2, word)
    BY <2>1 DEF store16
  <2> HIDE DEF half
  <2>5. ASSUME NEW b \in 0 .. 3
        PROVE  word[b] \in Byte
    <3>1. CASE b \div 2 = h % 2
      <4>1. b % 2 \in 0 .. 1
        OBVIOUS
      <4> QED BY <2>3, <3>1, <4>1
    <3>2. CASE b \div 2 # h % 2
      <4>1. 2 * h + (IF h % 2 = 0 THEN b ELSE b % 2) \in 0 .. 11
        BY <3>2
      <4> QED BY <1>0, <3>2, <4>1
    <3> QED BY <3>1, <3>2
  <2>6. word \in [0 .. 3 -> Byte]
    BY <2>5
  <2>7. h \div 2 \in 0 .. 2
    OBVIOUS
  <2> HIDE DEF word
  <2> QED BY <2>4, <2>6, <2>7
<1>3. CASE \E i \in 0 .. 11 : \E value \in Control[i] : store8(i, value)
  <2>0. PICK i \in 0 .. 11 : \E value \in Control[i] : store8(i, value)
    BY <1>3
  <2>1. PICK value \in Control[i] : store8(i, value)
    BY <2>0
  <2> DEFINE word == [b \in 0 .. 3 |-> IF b = i % 4 THEN value
                                      ELSE vramcnt[4 * (i \div 4) + b]]
  <2>2. store32(i \div 4, word)
    BY <2>1 DEF store8
  <2>3. value \in Byte
    BY <1>0
  <2>4. \A b \in 0 .. 3 : 4 * (i \div 4) + b \in 0 .. 11
    OBVIOUS
  <2>5. word \in [0 .. 3 -> Byte]
    BY <1>0, <2>3, <2>4
  <2>6. i \div 4 \in 0 .. 2
    OBVIOUS
  <2> HIDE DEF word
  <2> QED BY <2>2, <2>5, <2>6
<1> QED BY <1>1, <1>2, <1>3 DEF Store

(* A store maps nothing; remap starts over if the registers changed.       *)
LEMMA StoreInv ==
  ASSUME IInv, Store
  PROVE  IInv'
<1>1. PICK w \in 0 .. 2, value \in [0 .. 3 -> Byte] : store32(w, value)
  BY StoreIsWord DEF IInv
<1>2. /\ space' = space /\ mapping' = mapping /\ idx = Done
      /\ vramcnt' = [i \in 0 .. 11 |-> IF i \div 4 = w THEN value[i % 4]
                                       ELSE vramcnt[i]]
      /\ idx' = IF vramcnt' = vramcnt THEN Done ELSE 0
  BY <1>1 DEF store32
<1>3. TypeOK'
  <2>1. \A i \in 0 .. 11 : i % 4 \in 0 .. 3
    OBVIOUS
  <2>2. vramcnt' \in [0 .. 11 -> Byte]
    BY <1>2, <2>1 DEF IInv, TypeOK
  <2> QED BY <1>2, <2>2 DEF IInv, TypeOK, Done
<1>4. NullMapped' /\ TablesCurrent' /\ BanksPlaced' /\ OnceMapped'
  BY <1>2 DEF IInv, NullMapped, TablesCurrent, BanksPlaced, OnceMapped
<1>5. Settled'
  <2>1. CASE vramcnt' = vramcnt
    <3>1. idx' = idx
      BY <1>2, <2>1
    <3> QED BY <1>2, <2>1, <3>1 DEF IInv, Settled, Placed, Cnt, mst, ofs
  <2>2. CASE vramcnt' # vramcnt
    BY <1>2, <2>2 DEF Settled
  <2> QED BY <2>1, <2>2
<1> QED BY <1>3, <1>4, <1>5 DEF IInv

(* remap looks at bank i.                                                  *)
LEMMA VcntInv ==
  ASSUME IInv, NoClash, NEW i \in Bank, map_vcnt(i)
  PROVE  IInv'
<1> DEFINE places == Places(i, mst(i), ofs(i))
<1>1. /\ space \in [Core -> Space] /\ mapping \in [Core -> [Bank -> Nat]]
      /\ vramcnt \in [0 .. 11 -> Byte] /\ idx = i /\ idx' = i + 1
      /\ vramcnt' = vramcnt
  BY DEF IInv, TypeOK, map_vcnt
<1>2. /\ Cnt(i) \in Byte /\ mst(i) \in 0 .. 7 /\ ofs(i) \in Nat
      /\ Cnt(i)' = Cnt(i)
  <2>1. Cnt(i) \in Byte /\ Cnt(i)' = Cnt(i)
    BY <1>1 DEF Cnt, Bank
  <2>2. mst(i) \in 0 .. 7
    BY <2>1 DEF mst, Byte
  <2>3. ofs(i) \in Nat
    BY <2>1 DEF ofs, Byte
  <2> QED BY <2>1, <2>2, <2>3
<1>3. ASSUME /\ space' \in [Core -> Space] /\ NullMapped' /\ TablesCurrent'
             /\ BanksPlaced' /\ OnceMapped',
             mapping' \in [Core -> [Bank -> Nat]],
             \A c \in Core, j \in Bank : j # i => mapping'[c][j] = mapping[c][j],
             i \in 0 .. 6 => Placed(i)'
      PROVE  IInv'
  <2>1. TypeOK'
    BY <1>1, <1>3 DEF TypeOK, Bank, Done
  <2>2. ASSUME NEW j \in 0 .. 6, j < idx'
        PROVE  Placed(j)'
    <3>1. CASE j = i
      BY <1>3, <3>1
    <3>2. CASE j # i
      <4>1. j \in Bank /\ j < idx
        BY <1>1, <2>2, <3>2 DEF Bank
      <4>2. Placed(j)
        BY <4>1 DEF IInv, Settled
      <4>3. /\ Cnt(j)' = Cnt(j) /\ mst(j)' = mst(j) /\ ofs(j)' = ofs(j)
            /\ \A c \in Core : mapping'[c][j] = mapping[c][j]
        BY <1>1, <1>3, <3>2, <4>1 DEF Cnt, mst, ofs
      <4>4. mst(j) \in 0 .. 7 /\ ofs(j) \in Nat
        <5>1. Cnt(j) \in Byte
          BY <1>1 DEF Cnt
        <5> QED BY <5>1 DEF mst, ofs, Byte
      <4>5. \A d \in Places(j, mst(j), ofs(j)) : d[1] \in Core
        BY <4>1, <4>4, PlacesType
      <4> QED BY <4>2, <4>3, <4>5 DEF Placed
    <3> QED BY <3>1, <3>2
  <2>3. Settled'
    BY <2>2 DEF Settled
  <2> QED BY <1>3, <2>1, <2>3 DEF IInv
<1>4. CASE Cnt(i).on /\ \E d \in places : map_bank(d[1], i, d[2], d[3])
  <2>1. PICK d \in places : map_bank(d[1], i, d[2], d[3])
    BY <1>4
  <2>2. /\ d[1] \in Core /\ d[3] \in Nat \ {0}
        /\ d[2] = IF i \in 0 .. 6 THEN bank[i] ELSE "vram_h"
    BY <1>2, PlacesType
  <2>3. /\ space' \in [Core -> Space] /\ NullMapped' /\ TablesCurrent'
        /\ mapping' = [mapping EXCEPT ![d[1]][i] = d[3]]
        /\ BanksPlaced' /\ Single(d[2])
    BY <2>1, <2>2, MapBank
  <2>7. OnceMapped'
    BY <2>3, SingleKeeps DEF IInv
  <2>4. mapping' \in [Core -> [Bank -> Nat]]
    BY <1>1, <2>2, <2>3
  <2>5. \A c \in Core, j \in Bank : j # i => mapping'[c][j] = mapping[c][j]
    BY <1>1, <2>3
  <2>6. Placed(i)'
    <3>1. mapping'[d[1]][i] = d[3]
      BY <1>1, <2>2, <2>3
    <3>2. mst(i)' = mst(i) /\ ofs(i)' = ofs(i)
      BY <1>2 DEF mst, ofs
    <3> QED BY <1>2, <1>4, <3>1, <3>2 DEF Placed
  <2> QED BY <1>3, <2>3, <2>4, <2>5, <2>6, <2>7
<1>5. CASE Cnt(i).on /\ places = {} /\ UNCHANGED <<space, mapping>>
  <2>1. NullMapped' /\ TablesCurrent' /\ BanksPlaced' /\ OnceMapped'
    BY <1>5 DEF IInv, NullMapped, TablesCurrent, BanksPlaced, OnceMapped
  <2>2. Placed(i)'
    <3>1. mst(i)' = mst(i) /\ ofs(i)' = ofs(i)
      BY <1>2 DEF mst, ofs
    <3> QED BY <1>2, <1>5, <3>1 DEF Placed
  <2> QED BY <1>1, <1>3, <1>5, <2>1, <2>2
<1>6. CASE ~Cnt(i).on /\ Disable(i)
  <2>1. /\ space' \in [Core -> Space] /\ NullMapped' /\ TablesCurrent'
        /\ mapping' = [c \in Core |-> [mapping[c] EXCEPT ![i] = 0]]
        /\ BanksPlaced' /\ Single(bank[i])
    BY <1>6, DisableBank
  <2>5. OnceMapped'
    BY <2>1, SingleKeeps DEF IInv
  <2>2. mapping' \in [Core -> [Bank -> Nat]]
    BY <1>1, <2>1
  <2>3. \A c \in Core, j \in Bank : j # i => mapping'[c][j] = mapping[c][j]
    BY <1>1, <2>1
  <2>4. Placed(i)'
    <3>1. \A c \in Core : mapping'[c][i] = 0
      BY <1>1, <2>1
    <3> QED BY <1>2, <1>6, <3>1 DEF Placed
  <2> QED BY <1>3, <2>1, <2>2, <2>3, <2>4, <2>5
<1> QED BY <1>4, <1>5, <1>6 DEF map_vcnt

(* Remapping a TCM is no business of the banks.                            *)
LEMMA TcmInv ==
  ASSUME IInv, NoClash, NEW t \in Tcm, remap_tcm(t[1], t[2], t[3])
  PROVE  IInv'
<1>1. t[1] \in TCM /\ t[2] \in Page /\ t[3] \in Nat
  BY TcmAssumption
<1>2. /\ space' \in [Core -> Space] /\ NullMapped' /\ TablesCurrent'
      /\ BanksPlaced' /\ Single(t[1])
  BY <1>1, RemapTcm
<1>6. OnceMapped'
  BY <1>2, SingleKeeps DEF IInv
<1>3. mapping' = mapping /\ vramcnt' = vramcnt /\ idx' = idx
  BY DEF remap_tcm
<1>4. TypeOK'
  BY <1>2, <1>3 DEF IInv, TypeOK
<1>5. Settled'
  BY <1>3 DEF IInv, Settled, Placed, Cnt, mst, ofs
<1> QED BY <1>2, <1>4, <1>5, <1>6 DEF IInv

(* Every step of the ARM9 preserves the invariant.                         *)
LEMMA NextInv == IInv /\ [Next]_vars => IInv'
<1> SUFFICES ASSUME IInv, [Next]_vars PROVE IInv'
  OBVIOUS
<1>1. CASE NoClash /\ Store
  BY <1>1, StoreInv
<1>2. CASE NoClash /\ \E i \in Bank : map_vcnt(i)
  BY <1>2, VcntInv
<1>3. CASE NoClash /\ \E t \in Tcm : remap_tcm(t[1], t[2], t[3])
  BY <1>3, TcmInv
<1>4. CASE UNCHANGED vars
  BY <1>4 DEF vars, IInv, TypeOK, NullMapped, TablesCurrent, BanksPlaced, Settled,
              Placed, Cnt, mst, ofs, OnceMapped
<1> QED BY <1>1, <1>2, <1>3, <1>4 DEF Next

-----------------------------------------------------------------------------
(* Where every bank but H is mapped once at most, regions of one priority  *)
(* do not meet either: no two regions that can be mapped in one map share  *)
(* a priority.                                                             *)
LEMMA NoClashButH == IInv => ClashOfH
<1> SUFFICES ASSUME IInv, NEW c \in Core, NEW p \in Page
             PROVE  ~Clash([space[c].ovl[p] EXCEPT
                              !.sections["vram_h"] = IF @ > 1 THEN 1 ELSE @])
  BY DEF ClashOfH
<1> DEFINE e == space[c].ovl[p]
           f == [e EXCEPT !.sections["vram_h"] = IF @ > 1 THEN 1 ELSE @]
           x == IF c = "ARM7" THEN "exp_wram" ELSE "ram"
<1>1. e \in Entry
  BY DEF IInv, TypeOK, Space
<1>2. "vram_h" \in Region
  BY Banks
<1>3. \A r \in Region :
        f.sections[r] = IF r = "vram_h" /\ e.sections[r] > 1 THEN 1 ELSE e.sections[r]
  BY <1>1, <1>2 DEF Entry
<1>4. \A r \in Region : e.sections[r] \in Nat
  BY <1>1 DEF Entry
<1>5. \A i \in 0 .. 6 : e.sections[bank[i]] \in 0 .. 1
  BY DEF IInv, BanksPlaced
<1>6. /\ \A r \in TCM : e.sections[r] <= 1
      /\ e.sections["vram_i"] = 0
      /\ \A r \in Region \ Movable :
           IF r \in {null_region, x} THEN e.sections[r] <= 1 ELSE e.sections[r] = 0
  BY DEF IInv, OnceMapped
<1>7. bank[7] = "vram_h" /\ bank[8] = "vram_i" /\ x \in {"ram", "exp_wram"}
  BY DEF bank, Bank
<1> HIDE DEF e, f, x
<1>8. ASSUME NEW r \in Region
      PROVE  f.sections[r] <= 1 /\ (f.sections[r] > 0 => r \in Movable \cup {null_region, x})
  <2>1. CASE r \in TCM
    BY <1>3, <1>4, <1>6, <2>1 DEF Movable
  <2>2. CASE r \notin Movable
    BY <1>3, <1>4, <1>6, <2>2
  <2>3. ASSUME NEW i \in Bank, r = bank[i]
        PROVE  f.sections[r] <= 1 /\ r \in Movable
    <3>1. CASE i \in 0 .. 6
      BY <1>3, <1>4, <1>5, <2>3, <3>1 DEF Movable
    <3>2. CASE i = 7
      BY <1>3, <1>4, <1>7, <2>3, <3>2 DEF Movable
    <3>3. CASE i = 8
      BY <1>3, <1>6, <1>7, <2>3, <3>3 DEF Movable
    <3> QED BY <3>1, <3>2, <3>3 DEF Bank
  <2> QED BY <2>1, <2>2, <2>3 DEF Movable
<1>9. \A r, q \in Movable \cup {null_region, x} : priority[r] = priority[q] => r = q
  BY <1>7, DistinctAssumption
<1>10. \A r \in Region : f.sections[r] \in Nat
  BY <1>3, <1>4
<1>11. ~Clash(f)
  BY <1>8, <1>9, <1>10 DEF Clash, Mapped
<1> QED BY <1>11 DEF f, e

(* A step moves one region at most, in both maps.                          *)
LEMMA OneMoves ==
  ASSUME IInv, [Next]_vars
  PROVE  \E r \in Movable : \A c \in Core : Moves(space'[c], space[c], r)
<1>1. CASE space' = space
  <2>1. "vram_h" \in Movable
    BY Banks
  <2>2. \A c \in Core : Moves(space'[c], space[c], "vram_h")
    BY <1>1 DEF Moves
  <2> QED BY <2>1, <2>2
<1>2. CASE NoClash /\ Store
  BY <1>1, <1>2, StoreIsWord DEF IInv, store32
<1>3. ASSUME NoClash, NEW i \in Bank, map_vcnt(i)
      PROVE  \E r \in Movable : \A c \in Core : Moves(space'[c], space[c], r)
  <2> DEFINE places == Places(i, mst(i), ofs(i))
  <2>1. CASE \E d \in places : map_bank(d[1], i, d[2], d[3])
    <3>1. PICK d \in places : map_bank(d[1], i, d[2], d[3])
      BY <2>1
    <3>2. mst(i) \in 0 .. 7 /\ ofs(i) \in Nat
      <4>1. Cnt(i) \in Byte
        BY DEF IInv, TypeOK, Cnt, Bank
      <4> QED BY <4>1 DEF mst, ofs, Byte
    <3>3. /\ d[1] \in Core /\ d[3] \in Nat \ {0}
          /\ d[2] = IF i \in 0 .. 6 THEN bank[i] ELSE "vram_h"
      BY <3>2, PlacesType
    <3>4. Single(d[2])
      BY <1>3, <3>1, <3>3, MapBank
    <3> QED BY <3>4 DEF Single
  <2>2. CASE UNCHANGED <<space, mapping>>
    BY <1>1, <2>2
  <2>3. CASE Disable(i)
    <3>1. Single(bank[i])
      BY <1>3, <2>3, DisableBank
    <3> QED BY <3>1 DEF Single
  <2> QED BY <1>3, <2>1, <2>2, <2>3 DEF map_vcnt
<1>4. ASSUME NoClash, NEW t \in Tcm, remap_tcm(t[1], t[2], t[3])
      PROVE  \E r \in Movable : \A c \in Core : Moves(space'[c], space[c], r)
  <2>1. t[1] \in TCM /\ t[2] \in Page /\ t[3] \in Nat
    BY TcmAssumption
  <2>2. Single(t[1])
    BY <1>4, <2>1, RemapTcm
  <2> QED BY <2>2 DEF Single
<1> QED BY <1>1, <1>2, <1>3, <1>4 DEF Next, vars

-----------------------------------------------------------------------------
(* The inductive invariant of the address maps.                            *)
THEOREM Inductive == Spec => []IInv
BY InitInv, NextInv, PTL DEF Spec

(* Maps, bookkeeping and control registers keep their types.               *)
THEOREM TypeCorrect == Spec => []TypeOK
<1>1. IInv => TypeOK
  BY DEF IInv
<1> QED BY <1>1, Inductive, PTL

(* Both cores find the region of highest priority at every address.        *)
THEOREM TablesAreCurrent == Spec => []TablesCurrent
<1>1. IInv => TablesCurrent
  BY DEF IInv
<1> QED BY <1>1, Inductive, PTL

(* cur_maps tells exactly where banks A to G are mapped.                   *)
THEOREM BanksArePlaced == Spec => []BanksPlaced
<1>1. IInv => BanksPlaced
  BY DEF IInv
<1> QED BY <1>1, Inductive, PTL

(* When remap is over, banks A to G are where their registers say.         *)
THEOREM RegistersRule == Spec => []Settled
<1>1. IInv => Settled
  BY DEF IInv
<1> QED BY <1>1, Inductive, PTL

(* recalc_prio never meets two regions of one priority, nor one region     *)
(* twice, but for bank H.                                                  *)
THEOREM OnlyHClashes == Spec => []ClashOfH
BY NoClashButH, Inductive, PTL

(* What a core runs from, or stores to, stays where it is, unless it is in *)
(* the bank or the TCM that moves.                                         *)
THEOREM OthersAreKept == Spec => OthersKept
<1>1. ASSUME IInv, [Next]_vars
      PROVE  [\E r \in Movable : \A c \in Core, p \in Page :
                space'[c].map[p] # space[c].map[p] =>
                  r \in Mapped(space[c].ovl[p]) \cup Mapped(space'[c].ovl[p])]_vars
  BY <1>1, OneMoves DEF Moves
<1> QED BY <1>1, Inductive, PTL DEF Spec, OthersKept
=============================================================================
