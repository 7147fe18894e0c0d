--------------------------------- MODULE Vram ---------------------------------
(***************************************************************************)
(* What changes the address maps while the system runs, both on the        *)
(* ARM9's thread: stores to the VRAM control registers (REGISTERS9_1,      *)
(* vram::remap) and the coprocessor's command for the tightly coupled      *)
(* memories (HLE<_ARM9>::remap_tcm).  A step of remap looks at one bank,   *)
(* as the ARM7 may use its map in between.                                 *)
(*                                                                         *)
(* A page stands for 16 KB, 32 pages of the code: nothing is mapped here   *)
(* at a finer grain but parts of the TCM range.  The regions of the I/O    *)
(* registers, palettes, OAM, ROM and work RAM are mapped once, by          *)
(* initialize_mapping, and are left out with the addresses they cover.     *)
(***************************************************************************)
EXTENDS MemMap

CONSTANTS Control, \* the values the program stores to each VRAMCNT register
          Tcm,     \* the TCM mappings it asks for
          Beyond   \* page offsets that may lie behind the table lut_fg

Core == {"ARM7", "ARM9"}
Bank == 0 .. 8
bank == [i \in Bank |-> CASE i = 0 -> "vram_a" [] i = 1 -> "vram_b"
                          [] i = 2 -> "vram_c" [] i = 3 -> "vram_d"
                          [] i = 4 -> "vram_e" [] i = 5 -> "vram_f"
                          [] i = 6 -> "vram_g" [] i = 7 -> "vram_h"
                          [] i = 8 -> "vram_i"]
TCM == {"data_tcm", "inst_tcm"}
Movable == {bank[i] : i \in Bank} \cup TCM

(* VRAMCNT: bit 7, bits 0-2 and bits 3-4; bits 5-6 are only warned of.     *)
Byte == [on : BOOLEAN, mst : 0 .. 7, ofs : 0 .. 3]
Off == [on |-> FALSE, mst |-> 0, ofs |-> 0]

ASSUME BankAssumption == Movable \cup {"ram", "exp_wram"} \subseteq Region
ASSUME NullAssumption == null_region \notin Movable \cup {"ram", "exp_wram"}
(* PhysMem.cpp:31-53: only regions that are never moved share a priority.  *)
ASSUME DistinctAssumption ==
  \A x \in {"ram", "exp_wram"} : \A r, q \in Movable \cup {null_region, x} :
    priority[r] = priority[q] => r = q
ASSUME ControlAssumption == Control \in [0 .. 11 -> SUBSET Byte]
ASSUME TcmAssumption == Tcm \subseteq TCM \X Page \X Nat
ASSUME BeyondAssumption == Beyond \subseteq Nat

VARIABLES
  space,   \* memory_map<T>, for each core
  mapping, \* cur_maps<T>::mapping: the page each bank is mapped at, or 0
  vramcnt, \* the control registers at 0x240, with WRAMCNT as number 7
  idx      \* the bank remap turns to, or Done

vars == <<space, mapping, vramcnt, idx>>

Done == 9

(* Pages of 0x06000000 and so on.                                          *)
BG_A == 6144
BG_B == BG_A + 128
OBJ_A == BG_A + 256
OBJ_B == BG_A + 384
LCDC == BG_A + 512

(* initialize_mapping of both cores, then InitHLE maps the data TCM.       *)
Init ==
  /\ space = [c \in Core |->
                IF c = "ARM7"
                THEN map_region(init_null, "exp_wram", BG_A, BG_A + 1024)
                ELSE map_region(map_region(init_null, "ram", 2048, 3072),
                                "data_tcm", 512, 513)]
  /\ mapping = [c \in Core |-> [i \in Bank |-> 0]]
  /\ vramcnt = [i \in 0 .. 11 |-> Off]
  /\ idx = Done

-----------------------------------------------------------------------------
(* The banks are mapped again only if the store changes the word.          *)
store32(w, value) ==
  /\ idx = Done
  /\ vramcnt' = [i \in 0 .. 11 |-> IF i \div 4 = w THEN value[i % 4]
                                   ELSE vramcnt[i]]
  /\ idx' = IF vramcnt' = vramcnt THEN Done ELSE 0
  /\ UNCHANGED <<space, mapping>>

(* A narrower store completes the word from the register page.  For the    *)
(* upper half store16 takes the word at the half's own address, so that    *)
(* the upper half's old content goes to the lower half.                    *)
store16(h, value) ==
  store32(h \div 2,
          [b \in 0 .. 3 |-> IF b \div 2 = h % 2 THEN value[b % 2]
                            ELSE vramcnt[2 * h + (IF h % 2 = 0 THEN b ELSE b % 2)]])
store8(i, value) ==
  store32(i \div 4,
          [b \in 0 .. 3 |-> IF b = i % 4 THEN value
                            ELSE vramcnt[4 * (i \div 4) + b]])

-----------------------------------------------------------------------------
(* Bank i leaves the maps of the cores C that have it.                     *)
(* Mutant: its entry is cleared and the bank left where it is.             *)
unmap_bank_forgotten(C, i, b) ==
  /\ mapping' = [c \in Core |-> IF c \in C THEN [mapping[c] EXCEPT ![i] = 0]
                                ELSE mapping[c]]
  /\ UNCHANGED space
unmap_bank(C, i, b) ==
  /\ space' = [c \in Core |-> IF c \in C /\ mapping[c][i] # 0
                              THEN unmap(space[c], b) ELSE space[c]]
  /\ mapping' = [c \in Core |-> IF c \in C THEN [mapping[c] EXCEPT ![i] = 0]
                                ELSE mapping[c]]

(* Mutant: a bank that moves is not taken from its old place.              *)
map_bank_again(c, i, b, page) ==
  IF mapping[c][i] = page THEN UNCHANGED <<space, mapping>>
  ELSE /\ space' = [space EXCEPT ![c] = map_region(@, b, page, page + pages[b])]
       /\ mapping' = [mapping EXCEPT ![c][i] = page]
map_bank(c, i, b, page) ==
  IF mapping[c][i] = page THEN UNCHANGED <<space, mapping>>
  ELSE /\ space' = [space EXCEPT
                      ![c] = map_region(IF mapping[c][i] # 0 THEN unmap(@, b) ELSE @,
                                        b, page, page + pages[b])]
       /\ mapping' = [mapping EXCEPT ![c][i] = page]

(* remap passes the register of bank H as number 7, and that of bank I as  *)
(* number 8.                                                               *)
Cnt(i) == vramcnt[IF i < 7 THEN i ELSE i + 1]
mst(i) == Cnt(i).mst % (IF i \in {0, 1, 7, 8} THEN 4 ELSE 8)
ofs(i) == IF i \in {4, 7, 8} THEN 0 ELSE 8 * Cnt(i).ofs

(* lut_fg has four entries and is indexed by 0, 8, 16 and 24.              *)
lut_fg(o) == IF o = 0 THEN {0} ELSE Beyond

At(c, b, P) == {<<c, b, p>> : p \in P}
(* Where bank i goes with mst m and offset o (8 pages, 128 KB, a step); no *)
(* place for a texture slot or an invalid mst.  The cases of map_vcnt call *)
(* banks H and I number 8 and 9.                                           *)
Places(i, m, o) ==
  CASE i \in 0 .. 3 /\ m = 0 -> At("ARM9", bank[i], {LCDC + 8 * i})
    [] i \in 0 .. 3 /\ m = 1 -> At("ARM9", bank[i], {BG_A + o})
    [] i \in 0 .. 1 /\ m = 2 -> At("ARM9", bank[i], {OBJ_A + o})
    [] i \in 2 .. 3 /\ m = 2 -> At("ARM7", bank[i], {BG_A + o})
    [] i = 2 /\ m = 4 -> At("ARM9", bank[i], {BG_B})
    [] i = 3 /\ m = 4 -> At("ARM9", bank[i], {OBJ_B})
    [] i \in 4 .. 6 /\ m = 0 ->
         At("ARM9", bank[i], {LCDC + (IF i = 4 THEN 32 ELSE 31 + i)})
    [] i = 4 /\ m = 1 -> At("ARM9", bank[i], {BG_A})
    [] i = 4 /\ m = 2 -> At("ARM9", bank[i], {OBJ_A})
    [] i \in 5 .. 6 /\ m = 1 -> At("ARM9", bank[i], {BG_A + f : f \in lut_fg(o)})
    [] i \in 5 .. 6 /\ m = 2 -> At("ARM9", bank[i], {OBJ_A + f : f \in lut_fg(o)})
    [] i = 8 /\ m = 0 -> At("ARM9", "vram_h", {LCDC + 38})
    [] i = 8 /\ m = 1 -> At("ARM9", "vram_h", {BG_B})
    [] OTHER -> {}

(* Mutant: disabling looks at the ARM9's map alone.                        *)
Disable_ARM9(i) == unmap_bank({"ARM9"}, i, bank[i])
Disable(i) == unmap_bank(Core, i, bank[i])

map_vcnt(i) ==
  /\ idx = i
  /\ idx' = i + 1
  /\ LET places == Places(i, mst(i), ofs(i))
     IN \/ /\ Cnt(i).on
           /\ \E d \in places : map_bank(d[1], i, d[2], d[3])
        \/ /\ Cnt(i).on
           /\ places = {}
           /\ UNCHANGED <<space, mapping>>
        \/ /\ ~Cnt(i).on
           /\ Disable(i)
  /\ UNCHANGED vramcnt

(* An instruction TCM anywhere but at 0 stops the emulation.  The end of   *)
(* the range wraps at 2^32; a range that ends there is empty.              *)
remap_tcm(r, base, size) ==
  /\ idx = Done
  /\ r = "inst_tcm" => base = 0
  /\ space' = [space EXCEPT !["ARM9"] =
                 map_region(unmap(@, r), r, base, (base + size) % PAGES)]
  /\ UNCHANGED <<mapping, vramcnt, idx>>

(* recalc_prio never meets two regions of one priority, or one region      *)
(* twice, and stops the emulation.  A run of the model ends where it does; *)
(* without this bound bank H would pile up in ovl.                         *)
NoClash == \A c \in Core, p \in Page : ~Clash(space[c].ovl[p])

Values(I) == {v \in [I -> UNION {Control[i] : i \in I}] :
                \A i \in I : v[i] \in Control[i]}

Store ==
  \/ \E w \in 0 .. 2 : \E value \in Values(4 * w .. 4 * w + 3) :
       store32(w, [b \in 0 .. 3 |-> value[4 * w + b]])
  \/ \E h \in 0 .. 5 : \E value \in Values(2 * h .. 2 * h + 1) :
       store16(h, [b \in 0 .. 1 |-> value[2 * h + b]])
  \/ \E i \in 0 .. 11 : \E value \in Control[i] : store8(i, value)

Next == /\ NoClash
        /\ \/ Store
           \/ \E i \in Bank : map_vcnt(i)
           \/ \E t \in Tcm : remap_tcm(t[1], t[2], t[3])

Spec == Init /\ [][Next]_vars

-----------------------------------------------------------------------------
TypeOK == /\ space \in [Core -> Space]
          /\ mapping \in [Core -> [Bank -> Nat]]
          /\ vramcnt \in [0 .. 11 -> Byte]
          /\ idx \in 0 .. Done

(* Loads, stores and branches of both cores find the region of highest     *)
(* priority that is mapped at their address.                               *)
TablesCurrent == \A c \in Core : TableCurrent(space[c])

(* cur_maps says of every bank but H and I at which pages of each core it  *)
(* is mapped: exactly once where it says so and nowhere else.  unmap_bank  *)
(* and map_bank look at nothing else before they change the map.           *)
BanksPlaced ==
  \A c \in Core, i \in 0 .. 6, p \in Page :
    space[c].ovl[p].sections[bank[i]] =
      IF /\ mapping[c][i] # 0
         /\ p \in Interval(mapping[c][i], mapping[c][i] + pages[bank[i]])
      THEN 1 ELSE 0

(* When remap is over, every enabled bank is where its register asks for   *)
(* and every disabled bank is in no map, although a store that does not    *)
(* change the word is no occasion to map anything (again but H and I).     *)
Placed(i) ==
  LET places == Places(i, mst(i), ofs(i))
  IN IF Cnt(i).on
     THEN places # {} => \E d \in places : mapping[d[1]][i] = d[3]
     ELSE \A c \in Core : mapping[c][i] = 0
Settled == \A i \in 0 .. 6 : i < idx => Placed(i)

(* The inductive invariant: no page is without a region, a TCM is mapped   *)
(* at most once, bank I, for which bank H is taken, never, and what does   *)
(* not move is where initialize_mapping has put it.                        *)
NullMapped == \A c \in Core, p \in Page : null_region \in Mapped(space[c].ovl[p])
OnceMapped ==
  \A c \in Core, p \in Page :
    LET n == space[c].ovl[p].sections
    IN /\ \A r \in TCM : n[r] <= 1
       /\ n["vram_i"] = 0
       /\ \A r \in Region \ Movable :
            IF r \in {null_region, IF c = "ARM7" THEN "exp_wram" ELSE "ram"}
            THEN n[r] <= 1 ELSE n[r] = 0
IInv == TypeOK /\ NullMapped /\ TablesCurrent /\ BanksPlaced /\ Settled /\ OnceMapped

(* Regions of one priority, or one region twice, never meet at a page but  *)
(* for bank H, whose entry in cur_maps is used with bank I.                *)
ClashOfH ==
  \A c \in Core, p \in Page :
    LET entry == space[c].ovl[p]
    IN ~Clash([entry EXCEPT !.sections["vram_h"] = IF @ > 1 THEN 1 ELSE @])

(* A step changes the tables only at pages of a single region, the bank or *)
(* TCM it moves: what is being run from, or stored to, elsewhere stays.    *)
OthersKept ==
  [][\E r \in Movable : \A c \in Core, p \in Page :
       space'[c].map[p] # space[c].map[p] =>
         r \in Mapped(space[c].ovl[p]) \cup Mapped(space'[c].ovl[p])]_vars
=============================================================================
