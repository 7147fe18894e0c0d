------------------------------- MODULE JitPage -------------------------------
(***************************************************************************)
(* The compiled code of one page of emulated memory (memory_block) and the *)
(* dirty flags that keep it up to date.  A page both cores map has a block *)
(* of x86 code per core and instruction set.  A store writes the page and  *)
(* sets the flag of every core; a branch of a core into the page clears    *)
(* the core's own flag and compiles the core's blocks again.  The cores    *)
(* run on threads of their own; a third thread is the user interface,      *)
(* which loads files into memory and may flush a page.                     *)
(*                                                                         *)
(* A step is one access to the page's words, flags or block pointers.  A   *)
(* store sets flags by a locked OR, but "flags &= ~bit" is a load and a    *)
(* store, between which other threads set flags.  The store is taken to be *)
(* visible before the compiler reads the page (it allocates in between).   *)
(* Words are compiled in any order, instruction sets looked at in any.     *)
(***************************************************************************)
CONSTANTS Core,  \* the cores that map the page
          Host,  \* the thread of the user interface
          ISA,   \* instruction sets: IS_ARM, IS_THUMB
          Word, Data, Zero,
          NoBlock, Unread, Elsewhere,
          Flushing \* whether the user interface flushes pages

ASSUME ActorAssumption == Host \notin Core
ASSUME WordAssumption == Zero \in Data /\ Unread \notin Data
ASSUME BlockAssumption == /\ NoBlock \notin [Word -> Data \cup {Unread}]
                          /\ Elsewhere \notin ISA
ASSUME FlushAssumption == Flushing \in BOOLEAN

Actor == Core \cup {Host}

VARIABLES
  mem,     \* the page's words
  flags,   \* the cores whose PAGE_DIRTY_J bit is set
  block,   \* the compiled words, for each core and instruction set
  running, \* the block each core executes, Elsewhere when in another page
  pc,      \* what each thread does with the page
  read,    \* the flags it loaded to clear one of them
  target,  \* the core for which it compiles
  todo,    \* the instruction sets it has yet to look at
  doing,   \* the one it compiles, else Elsewhere
  goal,    \* the one the branch needs, else Elsewhere
  freed,   \* some thread uses a block that another one has deleted
  pending, \* history: words each thread wrote and has not flagged yet
  fresh,   \* history: words not stored to since the core began its branch
  lost     \* history: a store of flags dropped a bit set since its load

locals == <<read, target, todo, doing, goal>>
history == <<pending, fresh, lost>>
vars == <<mem, flags, block, running, pc, locals, freed, history>>

Goto(a, label) == pc' = [pc EXCEPT ![a] = label]

Init == /\ mem = [w \in Word |-> Zero]
        /\ flags = {}
        /\ block = [c \in Core |-> [i \in ISA |-> NoBlock]]
        /\ running = [c \in Core |-> Elsewhere]
        /\ pc = [a \in Actor |-> "idle"]
        /\ read = [a \in Actor |-> {}]
        /\ target \in [Actor -> Core]
        /\ \A c \in Core : target[c] = c
        /\ todo = [a \in Actor |-> {}]
        /\ doing = [a \in Actor |-> Elsewhere]
        /\ goal = [c \in Core |-> Elsewhere]
        /\ freed = FALSE
        /\ pending = [a \in Actor |-> {}]
        /\ fresh = [c \in Core |-> {}]
        /\ lost = FALSE

-----------------------------------------------------------------------------
(* A store of the program, a DMA transfer or a file load: one word or, by  *)
(* store32_array, several, and then the flags.                             *)
Store(a, w, v) ==
  /\ pc[a] \in {"idle", "storing"}
  /\ mem' = [mem EXCEPT ![w] = v]
  /\ Goto(a, "storing")
  /\ pending' = [pending EXCEPT ![a] = @ \cup {w}]
  /\ fresh' = [c \in Core |-> fresh[c] \ {w}]
  /\ UNCHANGED <<flags, block, running, locals, freed, lost>>

(* Mutant: only the flag of the storing core is set.                       *)
dirty_own(a) ==
  /\ pc[a] = "storing"
  /\ flags' = flags \cup {target[a]}
  /\ Goto(a, "idle")
  /\ pending' = [pending EXCEPT ![a] = {}]
  /\ UNCHANGED <<mem, block, running, locals, freed, fresh, lost>>
dirty(a) ==
  /\ pc[a] = "storing"
  /\ flags' = Core
  /\ Goto(a, "idle")
  /\ pending' = [pending EXCEPT ![a] = {}]
  /\ UNCHANGED <<mem, block, running, locals, freed, fresh, lost>>

-----------------------------------------------------------------------------
(* A branch leaves the executed block: the stub jumps, it does not call.   *)
Unstored == {w \in Word : \A a \in Actor : w \notin pending[a]}

Leave(c) ==
  /\ pc[c] = "idle"
  /\ running[c] # Elsewhere
  /\ running' = [running EXCEPT ![c] = Elsewhere]
  /\ UNCHANGED <<mem, flags, block, pc, locals, freed, history>>

(* Mutant: the stub calls, so the left block stays on the stack.           *)
BranchCalls(c, i) ==
  /\ pc[c] = "idle"
  /\ Goto(c, "test")
  /\ goal' = [goal EXCEPT ![c] = i]
  /\ fresh' = [fresh EXCEPT ![c] = Unstored]
  /\ UNCHANGED <<mem, flags, block, running, read, target, todo, doing, freed,
                 pending, lost>>
Branch(c, i) ==
  /\ pc[c] = "idle"
  /\ Goto(c, "test")
  /\ running' = [running EXCEPT ![c] = Elsewhere]
  /\ goal' = [goal EXCEPT ![c] = i]
  /\ fresh' = [fresh EXCEPT ![c] = Unstored]
  /\ UNCHANGED <<mem, flags, block, read, target, todo, doing, freed, pending, lost>>

(* memory_block::flush does for both cores, one after the other, what a    *)
(* branch does for its own.                                                *)
Flush(t) ==
  /\ Flushing
  /\ pc[Host] = "idle"
  /\ Goto(Host, "test")
  /\ target' = [target EXCEPT ![Host] = t]
  /\ UNCHANGED <<mem, flags, block, running, read, todo, doing, goal, freed, history>>

(* Mutant: the test is made when a block is missing only.                  *)
TestDirtyMissing(a) ==
  /\ pc[a] = "test"
  /\ IF target[a] \in flags /\ block[target[a]][goal[a]] = NoBlock
     THEN Goto(a, "load") ELSE Goto(a, "look")
  /\ UNCHANGED <<mem, flags, block, running, locals, freed, history>>
TestDirty(a) ==
  /\ pc[a] = "test"
  /\ IF target[a] \in flags
     THEN Goto(a, "load") ELSE Goto(a, "look")
  /\ UNCHANGED <<mem, flags, block, running, locals, freed, history>>

LoadFlags(a) ==
  /\ pc[a] = "load"
  /\ read' = [read EXCEPT ![a] = flags]
  /\ Goto(a, "clear")
  /\ UNCHANGED <<mem, flags, block, running, target, todo, doing, goal, freed, history>>

(* Mutant: the flags of both cores are cleared.                            *)
ClearDirtyBoth(a) ==
  /\ pc[a] = "clear"
  /\ flags' = read[a] \ Core
  /\ lost' = (lost \/ ~(flags \subseteq read[a] \cup {target[a]}))
  /\ read' = [read EXCEPT ![a] = {}]
  /\ todo' = [todo EXCEPT ![a] = ISA]
  /\ Goto(a, "look")
  /\ UNCHANGED <<mem, block, running, target, doing, goal, freed, pending, fresh>>
(* Mutant: only the instruction set of the branch is compiled again.       *)
ClearDirtyGoal(a) ==
  /\ pc[a] = "clear"
  /\ flags' = read[a] \ {target[a]}
  /\ lost' = (lost \/ ~(flags \subseteq read[a] \cup {target[a]}))
  /\ read' = [read EXCEPT ![a] = {}]
  /\ todo' = [todo EXCEPT ![a] = {goal[a]}]
  /\ Goto(a, "look")
  /\ UNCHANGED <<mem, block, running, target, doing, goal, freed, pending, fresh>>
ClearDirty(a) ==
  /\ pc[a] = "clear"
  /\ flags' = read[a] \ {target[a]}
  /\ lost' = (lost \/ ~(flags \subseteq read[a] \cup {target[a]}))
  /\ read' = [read EXCEPT ![a] = {}]
  /\ todo' = [todo EXCEPT ![a] = ISA]
  /\ Goto(a, "look")
  /\ UNCHANGED <<mem, block, running, target, doing, goal, freed, pending, fresh>>

-----------------------------------------------------------------------------
(* recompile deletes the old block, publishes the new one and compiles it. *)
Compiling(t, i) ==
  \E a \in Actor : pc[a] = "compile" /\ target[a] = t /\ doing[a] = i

recompile(a, t, i) ==
  /\ block' = [block EXCEPT ![t][i] = [w \in Word |-> Unread]]
  /\ freed' = (Compiling(t, i) \/ running[t] = i)
  /\ doing' = [doing EXCEPT ![a] = i]
  /\ Goto(a, "compile")

Recompile(a, i) ==
  /\ pc[a] = "look"
  /\ i \in todo[a]
  /\ todo' = [todo EXCEPT ![a] = @ \ {i}]
  /\ IF block[target[a]][i] = NoBlock
     THEN UNCHANGED <<block, freed, doing, pc>>
     ELSE recompile(a, target[a], i)
  /\ UNCHANGED <<mem, flags, running, read, target, goal, history>>

CompileWord(a, w) ==
  /\ pc[a] = "compile"
  /\ block[target[a]][doing[a]][w] = Unread
  /\ block' = [block EXCEPT ![target[a]][doing[a]][w] = mem[w]]
  /\ UNCHANGED <<mem, flags, running, pc, locals, freed, history>>

Compiled(a) ==
  /\ pc[a] = "compile"
  /\ \A w \in Word : block[target[a]][doing[a]][w] # Unread
  /\ Goto(a, "look")
  /\ doing' = [doing EXCEPT ![a] = Elsewhere]
  /\ UNCHANGED <<mem, flags, block, running, read, target, todo, goal, freed, history>>

(* A branch ends in the block it needs, compiled now if there was none.    *)
CompileMissing(c) ==
  /\ pc[c] = "look"
  /\ todo[c] = {}
  /\ block[c][goal[c]] = NoBlock
  /\ recompile(c, c, goal[c])
  /\ UNCHANGED <<mem, flags, running, read, target, todo, goal, history>>

Enter(c) ==
  /\ pc[c] = "look"
  /\ todo[c] = {}
  /\ block[c][goal[c]] # NoBlock
  /\ running' = [running EXCEPT ![c] = goal[c]]
  /\ freed' = Compiling(c, goal[c])
  /\ goal' = [goal EXCEPT ![c] = Elsewhere]
  /\ fresh' = [fresh EXCEPT ![c] = {}]
  /\ Goto(c, "idle")
  /\ UNCHANGED <<mem, flags, block, read, target, todo, doing, pending, lost>>

Flushed ==
  /\ pc[Host] = "look"
  /\ todo[Host] = {}
  /\ Goto(Host, "idle")
  /\ UNCHANGED <<mem, flags, block, running, locals, freed, history>>

(* SetPC moves a stopped core into the page: get_entry looks at the block  *)
(* pointer alone.                                                          *)
jit_rebranch(c, i) ==
  /\ pc[c] = "idle"
  /\ pc[Host] = "idle"
  /\ IF block[c][i] = NoBlock
     THEN /\ Goto(c, "look")
          /\ running' = [running EXCEPT ![c] = Elsewhere]
          /\ goal' = [goal EXCEPT ![c] = i]
     ELSE /\ running' = [running EXCEPT ![c] = i]
          /\ UNCHANGED <<pc, goal>>
  /\ UNCHANGED <<mem, flags, block, read, target, todo, doing, freed, history>>

-----------------------------------------------------------------------------
Program(c) == \/ Leave(c)
              \/ \E i \in ISA : Branch(c, i) \/ jit_rebranch(c, i)
              \/ CompileMissing(c) \/ Enter(c)

UserInterface == Flushed \/ \E t \in Core : Flush(t)

Thread(a) == \/ \E w \in Word, v \in Data : Store(a, w, v)
             \/ dirty(a)
             \/ TestDirty(a) \/ LoadFlags(a) \/ ClearDirty(a)
             \/ \E i \in ISA : Recompile(a, i)
             \/ \E w \in Word : CompileWord(a, w)
             \/ Compiled(a)

(* What happens after the use of a deleted block is undefined.             *)
Next == /\ ~freed
        /\ \/ \E c \in Core : Program(c)
           \/ UserInterface
           \/ \E a \in Actor : Thread(a)

Spec == Init /\ [][Next]_vars

-----------------------------------------------------------------------------
Labels == {"idle", "storing", "test", "load", "clear", "look", "compile"}
Block == [Word -> Data \cup {Unread}]

TypeOK == /\ mem \in [Word -> Data]
          /\ flags \in SUBSET Core
          /\ block \in [Core -> [ISA -> Block \cup {NoBlock}]]
          /\ running \in [Core -> ISA \cup {Elsewhere}]
          /\ pc \in [Actor -> Labels]
          /\ read \in [Actor -> SUBSET Core]
          /\ target \in [Actor -> Core]
          /\ todo \in [Actor -> SUBSET ISA]
          /\ doing \in [Actor -> ISA \cup {Elsewhere}]
          /\ goal \in [Core -> ISA \cup {Elsewhere}]
          /\ freed \in BOOLEAN
          /\ pending \in [Actor -> SUBSET Word]
          /\ fresh \in [Core -> SUBSET Word]
          /\ lost \in BOOLEAN

Stale(c, i, w) == /\ block[c][i] # NoBlock
                  /\ block[c][i][w] \notin {Unread, mem[w]}

(* Some thread is still going to set c's flag for word w, or to compile    *)
(* c's block for instruction set i.                                        *)
Underway(c, i, w) ==
  \E a \in Actor : w \in pending[a] \/ (target[a] = c /\ i \in todo[a])

(* Code that does not match the page is flagged, or about to be flagged or *)
(* compiled, whatever is stored while a flag is cleared or a block is      *)
(* compiled; but for flags dropped by a concurrent "flags &= ~bit".        *)
StaleFlagged ==
  lost \/ \A c \in Core, i \in ISA, w \in Word :
            Stale(c, i, w) => c \in flags \/ Underway(c, i, w)

(* "recompile if dirty" (HLE.cpp:374): the page's flags always know.       *)
DirtyKnown ==
  \A c \in Core, i \in ISA, w \in Word :
    Stale(c, i, w) => c \in flags \/ Underway(c, i, w)

(* A branch enters code that has every store completed before the branch.  *)
EntersCurrent ==
  [][\A c \in Core :
       pc[c] = "look" /\ running'[c] # running[c] /\ ~lost
         => \A w \in fresh[c] : ~Stale(c, goal[c], w)]_vars

(* No thread uses a block that another one has deleted: the blocks of a    *)
(* core are left to its thread ("the original calling code migh get        *)
(* overwritten by the compile call", HLE.cpp:400).                         *)
LiveCode == ~freed

(* The strengthening: what a thread's locals say at each label, ...        *)
LocalsAgree ==
  /\ \A c \in Core : target[c] = c
  /\ \A a \in Actor : pc[a] \notin {"look", "compile"} => todo[a] = {}
  /\ \A c \in Core : pc[c] \notin {"idle", "storing"} =>
       running[c] = Elsewhere /\ goal[c] \in ISA
  /\ \A a \in Actor : pc[a] = "compile" =>
       doing[a] \in ISA /\ block[target[a]][doing[a]] # NoBlock
  /\ \A c \in Core : pc[c] \in {"idle", "storing"} => fresh[c] = {}
  /\ \A c \in Core, a \in Actor : fresh[c] \cap pending[a] = {}

(* ... and, where the user interface flushes no page, that a branch past   *)
(* its test of the flag compiles what is stale.                            *)
PastTest ==
  \A c \in Core, i \in ISA, w \in Word :
    pc[c] \in {"look", "compile"} /\ w \in fresh[c] /\ Stale(c, i, w)
      => lost \/ i \in todo[c]

Unflushed == LiveCode /\ PastTest /\ pc[Host] \in {"idle", "storing"}

IInv == TypeOK /\ StaleFlagged /\ LocalsAgree /\ (~Flushing => Unflushed)
=============================================================================
