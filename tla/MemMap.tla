-------------------------------- MODULE MemMap --------------------------------
(***************************************************************************)
(* The address map of one core (memory_map<T>).  ovl records which regions *)
(* are mapped at which pages, map is the table the emulation looks         *)
(* addresses up in: the block, that is page, of the region of highest      *)
(* priority.  Mapping and unmapping a region updates ovl and then the part *)
(* of the table it may have changed.                                       *)
(*                                                                         *)
(* ovl is an itl::split_interval_map (external): it splits its segments at *)
(* the ends of every interval that is added to it and never joins them.    *)
(* Here each page has its entry and the lower end of its segment.          *)
(***************************************************************************)
EXTENDS Integers

CONSTANTS PAGES,    \* the size of the address space in pages
          Page,     \* the pages looked at
          Region,   \* regions of physical memory
          null_region,
          pages,    \* their sizes in pages
          priority

ASSUME PageAssumption == PAGES \in Nat \ {0} /\ Page \subseteq 0 .. PAGES - 1
ASSUME RegionAssumption ==
  /\ null_region \in Region
  /\ pages \in [Region -> Nat \ {0}]
  /\ priority \in [Region -> Nat]
(* A set of regions has one of highest priority.                           *)
ASSUME PriorityAssumption ==
  \A S \in SUBSET Region :
    S # {} => \E r \in S : \A q \in S : priority[q] <= priority[r]

Interval(low, high) == {p \in Page : low <= p /\ p < high}

(* region_entry: how often each region is mapped at a page, as the list is *)
(* merged without a look for duplicates.                                   *)
Entry == [sections : [Region -> Nat], lower : Nat]
Block == [region : Region, index : Nat]
Space == [ovl : [Page -> Entry], map : [Page -> Block]]

Mapped(entry) == {r \in Region : entry.sections[r] > 0}

Highest(S) == CHOOSE r \in S : \A q \in S : priority[q] <= priority[r]
prio(entry) == Highest(Mapped(entry))

(* recalc_prio stops the emulation when it meets two regions of the same   *)
(* priority, be it one region twice.                                       *)
Clash(entry) ==
  \/ \E r \in Region : entry.sections[r] > 1
  \/ \E r, q \in Mapped(entry) : r # q /\ priority[r] = priority[q]

-----------------------------------------------------------------------------
(* apply_mapping for every segment within I: the blocks of a segment's     *)
(* region are counted from the lower end of the segment.                   *)
apply_mapping_internal(map, ovl, I) ==
  [p \in Page |->
     IF p \in I
     THEN LET r == prio(ovl[p])
          IN [region |-> r, index |-> (p - ovl[p].lower) % pages[r]]
     ELSE map[p]]

init_null ==
  [ovl |-> [p \in Page |->
              [sections |-> [r \in Region |-> IF r = null_region THEN 1 ELSE 0],
               lower |-> 0]],
   map |-> [p \in Page |-> [region |-> null_region, index |-> 0]]]

(* The segments that reach over low or high are split there.               *)
Split(lower, p, low, high) ==
  IF high <= p /\ lower < high THEN high
  ELSE IF low <= p /\ lower < low THEN low
  ELSE lower

Added(ovl, r, low, high) ==
  IF high <= low THEN ovl
  ELSE [p \in Page |->
          [sections |-> [ovl[p].sections EXCEPT
                           ![r] = IF p \in Interval(low, high) THEN @ + 1 ELSE @],
           lower |-> Split(ovl[p].lower, p, low, high)]]

(* Mutant: the region is entered in the table whatever lies above it.      *)
map_region_over(space, r, low, high) ==
  LET ovl == Added(space.ovl, r, low, high)
      I == Interval(low, high)
  IN [ovl |-> ovl,
      map |-> [p \in Page |->
                 IF p \in I THEN [region |-> r, index |-> (p - low) % pages[r]]
                 ELSE space.map[p]]]
map_region(space, r, low, high) ==
  LET ovl == Added(space.ovl, r, low, high)
  IN [ovl |-> ovl,
      map |-> apply_mapping_internal(space.map, ovl, Interval(low, high))]

(* Mutant: a region that is not mapped is removed all the same.            *)
Removed_unmatched(ovl, r) ==
  [p \in Page |-> [ovl[p] EXCEPT !.sections[r] = @ - 1]]
Removed(ovl, r) ==
  [p \in Page |->
     [ovl[p] EXCEPT !.sections[r] = IF @ = 0 THEN 0 ELSE @ - 1]]

(* The pages to look up again are collected before the region is removed.  *)
(* Mutant: they are collected after it.                                    *)
unmap_collected_late(space, r) ==
  LET ovl == Removed(space.ovl, r)
  IN [ovl |-> ovl,
      map |-> apply_mapping_internal(space.map, ovl,
                                     {p \in Page : prio(ovl[p]) = r})]
(* Mutant: the whole table is looked up again.                             *)
unmap_everywhere(space, r) ==
  LET ovl == Removed(space.ovl, r)
  IN [ovl |-> ovl, map |-> apply_mapping_internal(space.map, ovl, Page)]
unmap(space, r) ==
  LET ovl == Removed(space.ovl, r)
  IN [ovl |-> ovl,
      map |-> apply_mapping_internal(space.map, ovl,
                                     {p \in Page : prio(space.ovl[p]) = r})]

-----------------------------------------------------------------------------
(* The table shows, at every page, the region of highest priority that is  *)
(* mapped there: emulated loads, stores and branches never look at ovl.    *)
TableCurrent(space) ==
  \A p \in Page : space.map[p].region = prio(space.ovl[p])
=============================================================================
