------------------------------ MODULE Breakpoint ------------------------------
(***************************************************************************)
(* Breakpoints in the compiled code of one page, for one core and one      *)
(* instruction set (breakpoints<T,U>, runner<T>).  An ARM instruction      *)
(* compiles to several host instructions, each of which may hold a         *)
(* breakpoint: its first byte is replaced by DEBUG_BREAK, at which the     *)
(* core's fiber stops.  The user interface toggles regular breakpoints,    *)
(* sets one-time breakpoints to step, and lets a stopped fiber continue;   *)
(* the fiber compiles the page again when it branches into it.  A step is  *)
(* one call of the user interface, or what the fiber does between two host *)
(* instructions.                                                           *)
(*                                                                         *)
(* A position stands for a host instruction.  Loops over breakpoints are   *)
(* functions of the number of rounds.                                      *)
(***************************************************************************)
EXTENDS Integers, FiniteSets, Sequences, Functions

CONSTANTS NUM,     \* the page has instructions 1 .. NUM; NUM + 1 is elsewhere
          MAX_SUBINSTRUCTIONS,
          Sizes,   \* how many host instructions an instruction compiles to
          Base     \* where the allocator may put the page's code

ASSUME NumAssumption == NUM \in Nat \ {0} /\ MAX_SUBINSTRUCTIONS \in Nat \ {0}
ASSUME SizeAssumption == Sizes \subseteq Nat \ {0} /\ Base \subseteq Nat

Inst == 1 .. NUM
Addr == 0 .. NUM + 1
Sub == 0 .. MAX_SUBINSTRUCTIONS - 1
None == -1

(* Whose break_data: regular ones by their instruction, single_step[0] and *)
(* single_step[1].                                                         *)
Step0 == NUM + 1
Step1 == NUM + 2
Owner == 1 .. NUM + 2
Steps == {Step0, Step1}

VARIABLES
  remap,  \* where the code of each instruction begins and the last ends, or <<>>
  byte,   \* the positions that hold DEBUG_BREAK
  breaks, \* the instructions that have an entry in the map of that name
  data,   \* the break_data, of every owner
  dt,     \* the debugger table: whose breakpoint is at a position
  fiber,  \* "running", "faulted" at a DEBUG_BREAK, "stopped" in the callback,
          \* or "stepping" one host instruction
  eip,    \* the fiber's position, None in another page or function
  repatch,    \* runner<T>::repatch: the position to patch again
  last_error, \* a copy of what the last stop was taken for
  confused \* history: a DEBUG_BREAK was taken for code, a breakpoint's entry
           \* in dt for another one's, or a freed breakpoint was put back

tables == <<byte, breaks, data, dt, confused>>
vars == <<remap, tables, fiber, eip, repatch, last_error>>

Compiled == remap # <<>>
Code == IF Compiled THEN remap[1] .. remap[NUM + 1] - 1 ELSE {}

Nobody == [owner |-> 0, sub |-> 0]
NoError == [addr |-> 0, sub |-> 0, count |-> 0]

Fresh(a) == [addr |-> a, count |-> 0,
             used |-> {}, patched |-> {},
             pos |-> [s \in Sub |-> None], original |-> [s \in Sub |-> "code"]]

(* What the calls below change, as a record.                               *)
Heap == [byte |-> byte, data |-> data, dt |-> dt, confused |-> confused]
Becomes(h) == /\ byte' = h.byte
              /\ data' = h.data
              /\ dt' = h.dt
              /\ confused' = h.confused

(* The fiber begins with a stop outside of the page, before any code is    *)
(* compiled.                                                               *)
Init == /\ remap = <<>>
        /\ byte = {}
        /\ breaks = {}
        /\ data = [o \in Owner |-> Fresh(IF o \in Inst THEN o ELSE 0)]
        /\ dt = <<>>
        /\ fiber = "stopped"
        /\ eip = None
        /\ repatch = None
        /\ last_error = NoError
        /\ confused = FALSE

-----------------------------------------------------------------------------
Without(t, P) == Restrict(t, DOMAIN t \ P)
(* t with entries for the positions P.                                     *)
With(t, P, entry(_)) ==
  [p \in DOMAIN t \cup P |-> IF p \in P THEN entry(p) ELSE t[p]]

(* The table knows the breakpoint before its byte is patched.              *)
patch_bi(h, o, s) ==
  LET d == h.data[o]
      p == d.pos[s]
  IN IF s \in d.patched THEN h
     ELSE [byte |-> h.byte \cup {p},
           dt |-> With(h.dt, {p}, LAMBDA q : [owner |-> o, sub |-> s]),
           data |-> [h.data EXCEPT ![o].patched = d.patched \cup {s}],
           confused |-> h.confused \/ p \in DOMAIN h.dt]

(* The original byte is back before the table forgets the breakpoint.      *)
(* Mutant: the table keeps the position.                                   *)
unpatch_bi_listed(h, o, s) ==
  LET d == h.data[o]
      p == d.pos[s]
  IN IF s \notin d.patched THEN h
     ELSE [byte |-> IF d.original[s] = "break" THEN h.byte \cup {p} ELSE h.byte \ {p},
           dt |-> h.dt,
           data |-> [h.data EXCEPT ![o].patched = d.patched \ {s}],
           confused |-> h.confused]
unpatch_bi(h, o, s) ==
  LET d == h.data[o]
      p == d.pos[s]
  IN IF s \notin d.patched THEN h
     ELSE [byte |-> IF d.original[s] = "break" THEN h.byte \cup {p} ELSE h.byte \ {p},
           dt |-> Without(h.dt, {p}),
           data |-> [h.data EXCEPT ![o].patched = d.patched \ {s}],
           confused |-> h.confused]

(* Mutant: a breakpoint that is switched off stays patched.                *)
toggle_sub_left(h, o, s) ==
  LET d == h.data[o]
      used == IF s \in d.used THEN d.used \ {s} ELSE d.used \cup {s}
      g == [h EXCEPT !.data = [h.data EXCEPT ![o].used = used]]
  IN IF d.pos[s] = None \/ s \in d.used THEN g ELSE patch_bi(g, o, s)
toggle_sub(h, o, s) ==
  LET d == h.data[o]
      used == IF s \in d.used THEN d.used \ {s} ELSE d.used \cup {s}
      g == [h EXCEPT !.data = [h.data EXCEPT ![o].used = used]]
  IN IF d.pos[s] = None THEN g
     ELSE IF s \in d.used THEN unpatch_bi(g, o, s) ELSE patch_bi(g, o, s)

(* remove_bi for all lines: they leave the table and lose their positions. *)
remove_all(h, o) ==
  LET d == h.data[o]
      mine == {d.pos[s] : s \in d.patched}
  IN [byte |-> h.byte,
      dt |-> Without(h.dt, mine),
      data |-> [h.data EXCEPT ![o].patched = {}, ![o].pos = [s \in Sub |-> None]],
      confused |-> \/ h.confused
                   \/ \E s \in d.patched :
                        \/ d.pos[s] \notin DOMAIN h.dt
                        \/ h.dt[d.pos[s]] # [owner |-> o, sub |-> s]]

(* Where the disassembler finds the lines of instruction a.                *)
Line(r, a, s) ==
  IF r # <<>> /\ a \in Inst /\ r[a] + s < r[a + 1] THEN r[a] + s ELSE None

(* The first byte of a line is taken for the original one.  A DEBUG_BREAK  *)
(* among them is disassembled in the place of the code.                    *)
disassemble_breakdata(h, r, o) ==
  LET d == h.data[o]
      pos == [s \in Sub |-> Line(r, d.addr, s)]
      hit == {s \in d.used : pos[s] # None}
      at(p) == [owner |-> o, sub |-> CHOOSE s \in hit : pos[s] = p]
  IN IF r = <<>> \/ d.addr \notin Inst THEN h
     ELSE [byte |-> h.byte \cup {pos[s] : s \in hit},
           dt |-> With(h.dt, {pos[s] : s \in hit}, at),
           data |-> [h.data EXCEPT ![o] =
                       [addr |-> d.addr, used |-> d.used, patched |-> hit, pos |-> pos,
                        count |-> Cardinality({s \in Sub : pos[s] # None}),
                        original |-> [s \in Sub |->
                                        IF pos[s] = None THEN d.original[s]
                                        ELSE IF pos[s] \in h.byte THEN "break"
                                        ELSE "code"]]],
           confused |-> \/ h.confused
                        \/ \E p \in r[d.addr] .. r[d.addr + 1] - 1 : p \in h.byte]

update_breakdata(h, r, o) == disassemble_breakdata(remove_all(h, o), r, o)

-----------------------------------------------------------------------------
(* Where the instructions of the page may be put, each behind the one      *)
(* before it.                                                              *)
Placed(b, size) ==
  LET place[i \in 1 .. NUM + 1] ==
        IF i = 1 THEN b ELSE place[i - 1] + size[i - 1]
  IN place
Layout == {Placed(b, size) : b \in Base, size \in [Inst -> Sizes]}

(* for_region: the break_data whose addresses are in the page.             *)
(* Mutant: the one-time breakpoints are left out.                          *)
Listed_regular(o) == o \in breaks
Listed(o) == IF o \in Inst THEN o \in breaks ELSE data[o].addr \in Inst

(* recompile: the old code is deleted, new code may be put in its place,   *)
(* and the breakpoints of the page are found and patched again, one        *)
(* instruction after the other and the one-time breakpoints last.          *)
Found(r) ==
  LET found[o \in 0 .. NUM + 2] ==
        IF o = 0 THEN [Heap EXCEPT !.byte = {}]
        ELSE IF Listed(o) THEN update_breakdata(found[o - 1], r, o)
        ELSE found[o - 1]
  IN found
recompile(r) == /\ remap' = r
                /\ Becomes(Found(r)[NUM + 2])

Renewed(h, a) == [h EXCEPT !.data = [h.data EXCEPT ![a] = Fresh(a)]]
(* toggle: the entry of an instruction is made on its first breakpoint and *)
(* freed with its last.                                                    *)
Toggle(a, s) ==
  LET new == update_breakdata(Renewed(Heap, a), remap, a)
      h == toggle_sub(IF a \in breaks THEN Heap ELSE new, a, s)
      free == h.data[a].used = {}
  IN /\ Becomes(IF free THEN Renewed(h, a) ELSE h)
     /\ breaks' = IF free THEN breaks \ {a} ELSE breaks \cup {a}
     /\ UNCHANGED <<remap, fiber, eip, repatch, last_error>>

-----------------------------------------------------------------------------
unset(h, o, s) == IF s \in h.data[o].used THEN toggle_sub(h, o, s) ELSE h
Unset(h) ==
  LET after[i \in 0 .. MAX_SUBINSTRUCTIONS] ==
        IF i = 0 THEN h
        ELSE unset(unset(after[i - 1], Step0, i - 1), Step1, i - 1)
  IN after
unset_onetime(h) == Unset(h)[MAX_SUBINSTRUCTIONS]

(* Positions are looked up again only if the breakpoint moves.             *)
(* Mutant: they are not.                                                   *)
Move_unlooked(h, o, a) == [h EXCEPT !.data = [h.data EXCEPT ![o].addr = a]]
Move(h, o, a) ==
  IF h.data[o].addr = a THEN h
  ELSE update_breakdata([h EXCEPT !.data = [h.data EXCEPT ![o].addr = a]], remap, o)

set_onetime(targets) ==
  LET t1 == targets[1]
      t2 == targets[2]
      first == toggle_sub(Move(unset_onetime(Heap), Step0, t1[1]), Step0, t1[2])
  IN IF Len(targets) = 1 \/ t1 = t2 THEN first
     ELSE IF t1[1] = t2[1] THEN toggle_sub(first, Step0, t2[2])
     ELSE toggle_sub(Move(first, Step1, t2[1]), Step1, t2[2])

(* Where step(mode) puts the one-time breakpoints: behind the instruction  *)
(* or the line of the last stop and, to step into a branch, at its         *)
(* destination; without a last stop, at R15 and behind it.                 *)
Targets ==
  LET a == last_error.addr
      s == last_error.sub + 1
      next == <<a + 1, 0>>
      within == s < last_error.count
  IN IF last_error = NoError
     THEN {<<<<pc, 0>>, <<pc + 1, 0>>>> : pc \in Inst}
     ELSE {<<next>>}
            \cup {<<<<dest, 0>>, next>> : dest \in 1 .. NUM + 1}
            \cup (IF within THEN {<<<<a, s>>, next>>}
                                   \cup {<<<<dest, 0>>, <<a, s>>>> : dest \in 1 .. NUM + 1}
                  ELSE {})
step(targets) ==
  /\ fiber = "stopped"
  /\ Becomes(set_onetime(targets))
  /\ UNCHANGED <<remap, breaks, fiber, eip, repatch, last_error>>

(* Continue: the breakpoint at the fiber's position is taken out for one   *)
(* host instruction.                                                       *)
jit_continue ==
  /\ fiber = "stopped"
  /\ IF eip \in DOMAIN dt /\ dt[eip].sub \in data[dt[eip].owner].patched
     THEN LET d == data[dt[eip].owner]
          IN /\ fiber' = "stepping"
             /\ repatch' = eip
             /\ byte' = IF d.original[dt[eip].sub] = "break" THEN byte
                        ELSE byte \ {eip}
     ELSE /\ fiber' = "running"
          /\ UNCHANGED <<repatch, byte>>
  /\ UNCHANGED <<remap, breaks, data, dt, confused, eip, last_error>>

(* SetPC of a stopped fiber.                                               *)
jit_rebranch(a) ==
  /\ fiber = "stopped"
  /\ IF Compiled THEN UNCHANGED <<remap, byte, data, dt, confused>>
     ELSE \E r \in Layout : recompile(r)
  /\ eip' = remap'[a]
  /\ UNCHANGED <<breaks, fiber, repatch, last_error>>

-----------------------------------------------------------------------------
(* The fiber executes a host instruction and goes on behind it or leaves   *)
(* the page; it comes back at the beginning of an instruction, after       *)
(* compiling the page if that is dirty or new.                             *)
Onward == {None} \cup ({eip + 1} \cap Code)

Execute ==
  /\ fiber = "running"
  /\ eip \in Code \ byte
  /\ eip' \in Onward
  /\ UNCHANGED <<remap, tables, fiber, repatch, last_error>>

(* The fault's handler runs on the fiber's thread; the user interface may  *)
(* take the breakpoint away before it looks it up.                         *)
Fault ==
  /\ fiber = "running"
  /\ eip \in byte
  /\ fiber' = "faulted"
  /\ UNCHANGED <<remap, tables, eip, repatch, last_error>>

Recompile ==
  /\ fiber = "running"
  /\ eip = None
  /\ \E r \in Layout : recompile(r)
  /\ UNCHANGED <<breaks, fiber, eip, repatch, last_error>>

Branch(a) ==
  /\ fiber = "running"
  /\ eip = None
  /\ Compiled
  /\ eip' = remap[a]
  /\ UNCHANGED <<remap, tables, fiber, repatch, last_error>>

(* internal_cb after the stepped instruction, or when that instruction is  *)
(* a DEBUG_BREAK itself: the breakpoint is put back, whoever may have      *)
(* freed it meanwhile, and the fiber goes on.                              *)
(* Mutant: the breakpoint is not put back.                                 *)
SingleStepOnly ==
  /\ fiber = "stepping"
  /\ IF eip \in byte THEN UNCHANGED eip ELSE eip' \in Onward
  /\ repatch' = None
  /\ fiber' = "running"
  /\ UNCHANGED <<remap, tables, last_error>>
SingleStep ==
  /\ fiber = "stepping"
  /\ IF eip \in byte THEN UNCHANGED eip ELSE eip' \in Onward
  /\ byte' = byte \cup {repatch}
  /\ repatch' = None
  /\ fiber' = "running"
  /\ confused' = (confused \/ repatch \notin DOMAIN dt)
  /\ UNCHANGED <<remap, breaks, data, dt, last_error>>

(* internal_cb otherwise: trigger copies the breakpoint that was hit, and  *)
(* a one-time breakpoint goes with the other ones.                         *)
Stop ==
  /\ fiber = "faulted"
  /\ fiber' = "stopped"
  /\ IF eip \in DOMAIN dt
     THEN LET o == dt[eip].owner
          IN /\ last_error' = [addr |-> data[o].addr, sub |-> dt[eip].sub,
                               count |-> data[o].count]
             /\ Becomes(IF o \in Steps THEN unset_onetime(Heap) ELSE Heap)
     ELSE /\ last_error' = NoError
          /\ UNCHANGED <<byte, data, dt, confused>>
  /\ UNCHANGED <<remap, breaks, eip, repatch>>

UserInterface == \/ \E a \in Inst, s \in Sub : Toggle(a, s)
                 \/ \E t \in Targets : step(t)
                 \/ jit_continue
                 \/ \E a \in Inst : jit_rebranch(a)

Fiber == \/ Execute \/ Fault \/ Recompile \/ SingleStep \/ Stop
         \/ \E a \in Inst : Branch(a)

(* The model ends where breakpoints are confused.                          *)
Next == /\ ~confused
        /\ UserInterface \/ Fiber

Spec == Init /\ [][Next]_vars

-----------------------------------------------------------------------------
BreakData == [addr : Addr, count : 0 .. MAX_SUBINSTRUCTIONS,
              used : SUBSET Sub, patched : SUBSET Sub,
              pos : [Sub -> Nat \cup {None}], original : [Sub -> {"code", "break"}]]

TypeOK ==
  /\ remap \in Layout \cup {<<>>}
  /\ byte \subseteq Nat
  /\ breaks \subseteq Inst
  /\ data \in [Owner -> BreakData]
  /\ DOMAIN dt \subseteq Nat
  /\ dt \in [DOMAIN dt -> [owner : Owner, sub : Sub]]
  /\ fiber \in {"running", "faulted", "stopped", "stepping"}
  /\ eip \in Code \cup {None}
  /\ repatch \in Code \cup {None}
  /\ last_error \in [addr : Inst, sub : Sub, count : 0 .. MAX_SUBINSTRUCTIONS]
                     \cup {NoError}
  /\ confused \in BOOLEAN

(* Where the line of a breakpoint is, if it has been compiled.             *)
Position(o, s) == remap[data[o].addr] + s
Exists(o, s) == /\ Compiled
                /\ data[o].addr \in Inst
                /\ Position(o, s) < remap[data[o].addr + 1]

(* A breakpoint, regular or one-time, is patched exactly when it is set    *)
(* and its line compiled, however often the page is compiled in between    *)
(* and whether it was set before or after.                                 *)
Armed == \/ confused
         \/ \A o \in Owner, s \in Sub :
              s \in data[o].patched <=> s \in data[o].used /\ Exists(o, s)

(* The debugger table finds the patched breakpoints where they are and     *)
(* nothing else.                                                           *)
TableAgrees ==
  \/ confused
  \/ /\ \A o \in Owner : \A s \in data[o].patched :
          /\ Position(o, s) \in DOMAIN dt
          /\ dt[Position(o, s)] = [owner |-> o, sub |-> s]
     /\ \A p \in DOMAIN dt :
          /\ dt[p].sub \in data[dt[p].owner].patched
          /\ p = Position(dt[p].owner, dt[p].sub)

(* The code is as it was compiled but for the bytes of the table, of which *)
(* one may be taken out for a step.                                        *)
BytesAgree == confused \/ byte \ {repatch} = DOMAIN dt \ {repatch}

(* When the fiber stops, the copied information is that of a breakpoint    *)
(* at its very position; there is none only if there is no breakpoint left *)
(* there, so that it can continue.                                         *)
StopsAtBreakpoint ==
  [][fiber = "faulted" /\ fiber' = "stopped" /\ ~confused =>
       IF last_error' = NoError THEN eip \notin byte'
       ELSE \E o \in Owner : \E s \in data[o].used :
              /\ last_error'.addr = data[o].addr
              /\ last_error'.sub = s
              /\ eip = Position(o, s)]_vars

-----------------------------------------------------------------------------
(* The inductive invariant.  Every break_data that is listed knows the     *)
(* lines of its instruction; the other ones are as allocated.              *)
LinesKnown ==
  /\ \A o \in Owner, s \in Sub :
       data[o].pos[s] = IF Listed(o) THEN Line(remap, data[o].addr, s) ELSE None
  /\ \A a \in Inst : /\ data[a].addr = a
                     /\ a \notin breaks => data[a].used = {}

(* No DEBUG_BREAK was taken for code, and none is left without an entry.   *)
CodeKept ==
  /\ \A o \in Owner, s \in Sub : data[o].original[s] = "code"
  /\ byte \subseteq DOMAIN dt

(* A breakpoint is out of the code only while the fiber steps over it.     *)
Phases ==
  /\ IF fiber = "stepping" THEN repatch = eip /\ eip # None
     ELSE repatch = None
  /\ fiber = "faulted" => eip # None

(* Together: breakpoints are where they should be, unless two have met.    *)
IInv ==
  /\ TypeOK
  /\ Armed
  /\ TableAgrees
  /\ BytesAgree
  /\ confused \/ (LinesKnown /\ CodeKept /\ Phases)
=============================================================================
