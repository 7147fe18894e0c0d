---------------------------- MODULE JitPageProofs ----------------------------
(* Proofs about JitPage, for any cores, instruction sets and words.        *)
EXTENDS JitPage, TLAPS

(* A block pointer that is written leaves all other blocks of the page     *)
(* alone.                                                                  *)
LEMMA BlockReplaced ==
  ASSUME TypeOK, NEW t \in Core, NEW i \in ISA, NEW b \in Block,
         block' = [block EXCEPT ![t][i] = b]
  PROVE  /\ block' \in [Core -> [ISA -> Block \cup {NoBlock}]]
         /\ \A c \in Core, j \in ISA :
              block'[c][j] = IF c = t /\ j = i THEN b ELSE block[c][j]
  <1> DEFINE row == [block[t] EXCEPT ![i] = b]
  <1>1. block \in [Core -> [ISA -> Block \cup {NoBlock}]]
    BY DEF TypeOK
  <1>2. row \in [ISA -> Block \cup {NoBlock}]
    BY <1>1
  <1>3. \A j \in ISA : row[j] = IF j = i THEN b ELSE block[t][j]
    BY <1>1
  <1>4. block' = [block EXCEPT ![t] = row]
    OBVIOUS
  <1> HIDE DEF row
  <1> QED BY <1>1, <1>2, <1>3, <1>4

(* What each step does to the blocks.                                      *)
LEMMA Started ==
  ASSUME TypeOK, NEW a \in Actor, NEW t \in Core, NEW i \in ISA, recompile(a, t, i)
  PROVE  /\ block' \in [Core -> [ISA -> Block \cup {NoBlock}]]
         /\ \A c \in Core, j \in ISA :
              block'[c][j] = IF c = t /\ j = i THEN [w \in Word |-> Unread]
                             ELSE block[c][j]
         /\ [w \in Word |-> Unread] # NoBlock
  <1>1. [w \in Word |-> Unread] \in Block
    BY DEF Block
  <1>2. block' = [block EXCEPT ![t][i] = [w \in Word |-> Unread]]
    BY DEF recompile
  <1> QED BY <1>1, <1>2, BlockReplaced, BlockAssumption DEF Block

(* Compiling a word fills it in and turns no block into none, or none into *)
(* one.                                                                    *)
LEMMA WordCompiled ==
  ASSUME TypeOK, LocalsAgree, NEW a \in Actor, NEW w \in Word, CompileWord(a, w)
  PROVE  /\ block' \in [Core -> [ISA -> Block \cup {NoBlock}]]
         /\ \A c \in Core, j \in ISA :
              /\ block'[c][j] = NoBlock <=> block[c][j] = NoBlock
              /\ (block'[c][j] # NoBlock) =>
                   \A v \in Word : \/ block'[c][j][v] = block[c][j][v]
                                   \/ block'[c][j][v] = mem[v]
  <1> DEFINE t == target[a]
             i == doing[a]
             b == [block[t][i] EXCEPT ![w] = mem[w]]
  <1>1. t \in Core /\ i \in ISA /\ block[t][i] \in Block /\ block[t][i] # NoBlock
    <2>1. t \in Core /\ i \in ISA /\ block[t][i] # NoBlock
      BY DEF CompileWord, LocalsAgree, TypeOK
    <2> QED BY <2>1 DEF TypeOK
  <1>2. b \in Block
    BY <1>1 DEF Block, TypeOK
  <1>3. \A v \in Word : b[v] = IF v = w THEN mem[w] ELSE block[t][i][v]
    BY <1>1 DEF Block
  <1>4. block' = [block EXCEPT ![t][i] = b]
    BY DEF CompileWord
  <1>5. b # NoBlock
    BY <1>2, BlockAssumption DEF Block
  <1> HIDE DEF b, t, i
  <1>6. /\ block' \in [Core -> [ISA -> Block \cup {NoBlock}]]
        /\ \A c \in Core, j \in ISA :
             block'[c][j] = IF c = t /\ j = i THEN b ELSE block[c][j]
    BY <1>1, <1>2, <1>4, BlockReplaced
  <1> QED BY <1>1, <1>3, <1>5, <1>6

-----------------------------------------------------------------------------
(* A page begins without code and without flags.                           *)
LEMMA InitEstablishes == Init => IInv
  <1> SUFFICES ASSUME Init PROVE IInv
    OBVIOUS
  <1>1. TypeOK
    BY WordAssumption DEF Init, TypeOK, Labels
  <1>2. StaleFlagged
    BY DEF Init, StaleFlagged, Stale
  <1>3. LocalsAgree
    BY DEF Init, LocalsAgree, Actor
  <1>4. Unflushed
    BY DEF Init, Unflushed, LiveCode, PastTest, Actor
  <1> QED BY <1>1, <1>2, <1>3, <1>4 DEF IInv

(* Every step of the cores and of the user interface keeps the types.      *)
LEMMA TypePreserved ==
  ASSUME IInv, [Next]_vars
  PROVE  TypeOK'
  <1> USE DEF Actor
  <1>0. TypeOK /\ LocalsAgree
    BY DEF IInv
  <1>1. ASSUME NEW c \in Core, Leave(c) PROVE TypeOK'
    BY <1>0, <1>1 DEF Leave, TypeOK, locals, history
  <1>2. ASSUME NEW c \in Core, NEW i \in ISA, Branch(c, i) PROVE TypeOK'
    BY <1>0, <1>2 DEF Branch, TypeOK, Goto, Labels, Unstored
  <1>3. ASSUME NEW c \in Core, NEW i \in ISA, jit_rebranch(c, i) PROVE TypeOK'
    BY <1>0, <1>3 DEF jit_rebranch, TypeOK, Goto, Labels, history
  <1>4. ASSUME NEW c \in Core, CompileMissing(c) PROVE TypeOK'
    <2>1. goal[c] \in ISA
      BY <1>0, <1>4 DEF CompileMissing, LocalsAgree
    <2>2. recompile(c, c, goal[c])
      BY <1>4 DEF CompileMissing
    <2>3. block' \in [Core -> [ISA -> Block \cup {NoBlock}]]
      BY <1>0, <2>1, <2>2, Started
    <2>4. freed' \in BOOLEAN
      BY <2>2 DEF recompile, Compiling
    <2> QED
      BY <1>0, <1>4, <2>1, <2>2, <2>3, <2>4
      DEF CompileMissing, recompile, TypeOK, Goto, Labels, history
  <1>5. ASSUME NEW c \in Core, Enter(c) PROVE TypeOK'
    <2>1. goal[c] \in ISA
      BY <1>0, <1>5 DEF Enter, LocalsAgree
    <2>2. freed' \in BOOLEAN
      BY <1>5 DEF Enter, Compiling
    <2> QED BY <1>0, <1>5, <2>1, <2>2 DEF Enter, TypeOK, Goto, Labels
  <1>6. ASSUME Flushed PROVE TypeOK'
    BY <1>0, <1>6 DEF Flushed, TypeOK, Goto, Labels, locals, history
  <1>7. ASSUME NEW t \in Core, Flush(t) PROVE TypeOK'
    BY <1>0, <1>7 DEF Flush, TypeOK, Goto, Labels, history
  <1>8. ASSUME NEW a \in Actor, NEW w \in Word, NEW v \in Data, Store(a, w, v)
        PROVE  TypeOK'
    BY <1>0, <1>8 DEF Store, TypeOK, Goto, Labels, locals
  <1>9. ASSUME NEW a \in Actor, dirty(a) PROVE TypeOK'
    BY <1>0, <1>9 DEF dirty, TypeOK, Goto, Labels, locals
  <1>10. ASSUME NEW a \in Actor, TestDirty(a) \/ LoadFlags(a) PROVE TypeOK'
    BY <1>0, <1>10 DEF TestDirty, LoadFlags, TypeOK, Goto, Labels, locals, history
  <1>11. ASSUME NEW a \in Actor, ClearDirty(a) PROVE TypeOK'
    BY <1>0, <1>11 DEF ClearDirty, TypeOK, Goto, Labels
  <1>12. ASSUME NEW a \in Actor, NEW i \in ISA, Recompile(a, i) PROVE TypeOK'
    <2>1. CASE block[target[a]][i] = NoBlock
      BY <1>0, <1>12, <2>1 DEF Recompile, TypeOK, history
    <2>2. CASE block[target[a]][i] # NoBlock
      <3>1. recompile(a, target[a], i) /\ target[a] \in Core
        BY <1>0, <1>12, <2>2 DEF Recompile, TypeOK
      <3>2. block' \in [Core -> [ISA -> Block \cup {NoBlock}]]
        BY <1>0, <3>1, Started
      <3>3. freed' \in BOOLEAN
        BY <3>1 DEF recompile, Compiling
      <3> QED
        BY <1>0, <1>12, <3>1, <3>2, <3>3
        DEF Recompile, recompile, TypeOK, Goto, Labels, history
    <2> QED BY <2>1, <2>2
  <1>13. ASSUME NEW a \in Actor, NEW w \in Word, CompileWord(a, w) PROVE TypeOK'
    <2>1. block' \in [Core -> [ISA -> Block \cup {NoBlock}]]
      BY <1>0, <1>13, WordCompiled
    <2> QED BY <1>0, <1>13, <2>1 DEF CompileWord, TypeOK, locals, history
  <1>14. ASSUME NEW a \in Actor, Compiled(a) PROVE TypeOK'
    BY <1>0, <1>14 DEF Compiled, TypeOK, Goto, Labels, history
  <1>15. CASE UNCHANGED vars
    BY <1>0, <1>15 DEF vars, TypeOK, locals, history
  <1> QED
    BY <1>1, <1>2, <1>3, <1>4, <1>5, <1>6, <1>7, <1>8, <1>9, <1>10, <1>11,
       <1>12, <1>13, <1>14, <1>15
    DEF Next, Program, UserInterface, Thread

(* Every step keeps stale code flagged, whatever the other threads do.     *)
LEMMA StaleFlaggedPreserved ==
  ASSUME IInv, [Next]_vars
  PROVE  StaleFlagged'
  <1> USE DEF Actor
  <1>0. TypeOK /\ LocalsAgree /\ StaleFlagged
    BY DEF IInv
  <1>1. CASE \/ UNCHANGED vars
             \/ \E c \in Core : \/ Leave(c) \/ Enter(c)
                               \/ \E i \in ISA : Branch(c, i) \/ jit_rebranch(c, i)
             \/ Flushed
             \/ \E a \in Actor : TestDirty(a) \/ LoadFlags(a) \/ Compiled(a)
    <2>1. UNCHANGED <<mem, flags, block, todo, target, pending, lost>>
      BY <1>1 DEF vars, Leave, Enter, Branch, jit_rebranch, Flushed, TestDirty,
                  LoadFlags, Compiled, locals, history
    <2> QED BY <1>0, <2>1 DEF StaleFlagged, Stale, Underway
  <1>2. ASSUME NEW t \in Core, Flush(t) PROVE StaleFlagged'
    <2>1. todo[Host] = {}
      BY <1>0, <1>2 DEF Flush, LocalsAgree
    <2>2. \A a \in Actor : a # Host => target'[a] = target[a]
      BY <1>0, <1>2 DEF Flush, TypeOK
    <2>3. UNCHANGED <<mem, flags, block, todo, pending, lost>>
      BY <1>2 DEF Flush, history
    <2> QED BY <1>0, <2>1, <2>2, <2>3 DEF StaleFlagged, Stale, Underway
  <1>3. ASSUME NEW a \in Actor, NEW w \in Word, NEW v \in Data, Store(a, w, v)
        PROVE  StaleFlagged'
    <2>1. /\ \A u \in Word : u # w => mem'[u] = mem[u]
          /\ w \in pending'[a]
          /\ \A b \in Actor : pending[b] \subseteq pending'[b]
          /\ UNCHANGED <<flags, block, todo, target, lost>>
      BY <1>0, <1>3 DEF Store, TypeOK, locals
    <2> QED BY <1>0, <2>1 DEF StaleFlagged, Stale, Underway
  <1>4. ASSUME NEW a \in Actor, dirty(a) PROVE StaleFlagged'
    BY <1>4 DEF dirty, StaleFlagged
  <1>5. ASSUME NEW a \in Actor, ClearDirty(a) PROVE StaleFlagged'
    <2>1. /\ todo'[a] = ISA
          /\ \A b \in Actor : todo[b] \subseteq todo'[b]
          /\ \A c \in flags : c = target[a] \/ c \in flags' \/ lost'
          /\ lost => lost'
          /\ UNCHANGED <<mem, block, target, pending>>
      BY <1>0, <1>5 DEF ClearDirty, TypeOK
    <2> QED BY <1>0, <2>1 DEF StaleFlagged, Stale, Underway
  <1>6. ASSUME NEW a \in Actor, NEW i \in ISA, Recompile(a, i) PROVE StaleFlagged'
    <2>1. /\ \A b \in Actor : b # a => todo'[b] = todo[b]
          /\ todo'[a] = todo[a] \ {i}
          /\ UNCHANGED <<mem, flags, target, pending, lost>>
      BY <1>0, <1>6 DEF Recompile, TypeOK, history
    <2>2. CASE block[target[a]][i] = NoBlock
      <3>1. block' = block
        BY <1>6, <2>2 DEF Recompile
      <3> QED BY <1>0, <2>1, <2>2, <3>1 DEF StaleFlagged, Stale, Underway
    <2>3. CASE block[target[a]][i] # NoBlock
      <3>1. recompile(a, target[a], i) /\ target[a] \in Core
        BY <1>0, <1>6, <2>3 DEF Recompile, TypeOK
      <3>2. \A c \in Core, j \in ISA :
              block'[c][j] = IF c = target[a] /\ j = i THEN [w \in Word |-> Unread]
                             ELSE block[c][j]
        BY <1>0, <3>1, Started
      <3> QED BY <1>0, <2>1, <3>2 DEF StaleFlagged, Stale, Underway
    <2> QED BY <2>2, <2>3
  <1>7. ASSUME NEW c \in Core, CompileMissing(c) PROVE StaleFlagged'
    <2>1. recompile(c, c, goal[c]) /\ goal[c] \in ISA
      BY <1>0, <1>7 DEF CompileMissing, LocalsAgree
    <2>2. \A d \in Core, j \in ISA :
            block'[d][j] = IF d = c /\ j = goal[c] THEN [w \in Word |-> Unread]
                           ELSE block[d][j]
      BY <1>0, <2>1, Started
    <2>3. UNCHANGED <<mem, flags, todo, target, pending, lost>>
      BY <1>7 DEF CompileMissing, history
    <2> QED BY <1>0, <2>2, <2>3 DEF StaleFlagged, Stale, Underway
  <1>8. ASSUME NEW a \in Actor, NEW w \in Word, CompileWord(a, w) PROVE StaleFlagged'
    <2>1. UNCHANGED <<mem, flags, todo, target, pending, lost>>
      BY <1>8 DEF CompileWord, locals, history
    <2>2. \A c \in Core, j \in ISA, v \in Word : Stale(c, j, v)' => Stale(c, j, v)
      BY <1>0, <1>8, <2>1, WordCompiled DEF Stale
    <2> QED BY <1>0, <2>1, <2>2 DEF StaleFlagged, Underway
  <1> QED
    BY <1>1, <1>2, <1>3, <1>4, <1>5, <1>6, <1>7, <1>8
    DEF Next, Program, UserInterface, Thread

(* A thread that starts to compile.                                        *)
LEMMA LocalsStart ==
  ASSUME TypeOK, LocalsAgree, NEW a \in Actor, NEW i \in ISA, target[a] \in Core,
         recompile(a, target[a], i), pc[a] = "look",
         UNCHANGED <<running, target, goal, pending, fresh>>,
         \A b \in Actor : todo'[b] \subseteq todo[b]
  PROVE  LocalsAgree'
  <1>1. /\ \A b \in Actor : b # a => pc'[b] = pc[b] /\ doing'[b] = doing[b]
        /\ pc'[a] = "compile" /\ doing'[a] = i
    BY DEF recompile, Goto, TypeOK
  <1>2. /\ \A c \in Core, j \in ISA : block[c][j] # NoBlock => block'[c][j] # NoBlock
        /\ block'[target[a]][i] # NoBlock
    BY Started
  <1>3. ASSUME NEW b \in Actor, pc'[b] = "compile"
        PROVE  doing'[b] \in ISA /\ block'[target'[b]][doing'[b]] # NoBlock
    <2>1. CASE b = a
      BY <1>1, <1>2, <2>1
    <2>2. CASE b # a
      <3>1. target[b] \in Core /\ doing[b] \in ISA /\ block[target[b]][doing[b]] # NoBlock
        BY <1>1, <1>3, <2>2 DEF LocalsAgree, TypeOK
      <3> QED BY <1>1, <1>2, <2>2, <3>1
    <2> QED BY <2>1, <2>2
  <1>4. \A c \in Core : c \in Actor
    BY DEF Actor
  <1>5. /\ \A c \in Core : target'[c] = c
        /\ \A b \in Actor : pc'[b] \notin {"look", "compile"} => todo'[b] = {}
    BY <1>1 DEF LocalsAgree
  <1>6. /\ \A c \in Core : pc'[c] \notin {"idle", "storing"} =>
             running'[c] = Elsewhere /\ goal'[c] \in ISA
        /\ \A c \in Core : pc'[c] \in {"idle", "storing"} => fresh'[c] = {}
        /\ \A c \in Core, b \in Actor : fresh'[c] \cap pending'[b] = {}
    BY <1>1, <1>4 DEF LocalsAgree
  <1> QED BY <1>3, <1>5, <1>6 DEF LocalsAgree

(* Every step keeps a thread's locals in agreement with its label.         *)
LEMMA LocalsPreserved ==
  ASSUME IInv, [Next]_vars
  PROVE  LocalsAgree'
  <1> USE DEF Actor
  <1>0. TypeOK /\ LocalsAgree
    BY DEF IInv
  <1>1. ASSUME NEW c \in Core, Leave(c) PROVE LocalsAgree'
    BY <1>0, <1>1 DEF Leave, LocalsAgree, TypeOK, locals, history
  <1>2. ASSUME NEW c \in Core, NEW i \in ISA, Branch(c, i) PROVE LocalsAgree'
    BY <1>0, <1>2 DEF Branch, LocalsAgree, TypeOK, Goto, Unstored
  <1>3. ASSUME NEW c \in Core, NEW i \in ISA, jit_rebranch(c, i) PROVE LocalsAgree'
    BY <1>0, <1>3 DEF jit_rebranch, LocalsAgree, TypeOK, Goto, history
  <1>4. ASSUME NEW c \in Core, Enter(c) PROVE LocalsAgree'
    BY <1>0, <1>4 DEF Enter, LocalsAgree, TypeOK, Goto
  <1>5. ASSUME Flushed PROVE LocalsAgree'
    BY <1>0, <1>5, ActorAssumption DEF Flushed, LocalsAgree, TypeOK, Goto, locals, history
  <1>6. ASSUME NEW t \in Core, Flush(t) PROVE LocalsAgree'
    BY <1>0, <1>6, ActorAssumption DEF Flush, LocalsAgree, TypeOK, Goto, history
  <1>7. ASSUME NEW a \in Actor, NEW w \in Word, NEW v \in Data, Store(a, w, v)
        PROVE  LocalsAgree'
    BY <1>0, <1>7 DEF Store, LocalsAgree, TypeOK, Goto, locals
  <1>8. ASSUME NEW a \in Actor, dirty(a) PROVE LocalsAgree'
    BY <1>0, <1>8 DEF dirty, LocalsAgree, TypeOK, Goto, locals
  <1>9. ASSUME NEW a \in Actor, TestDirty(a) \/ LoadFlags(a) PROVE LocalsAgree'
    BY <1>0, <1>9 DEF TestDirty, LoadFlags, LocalsAgree, TypeOK, Goto, locals, history
  <1>10. ASSUME NEW a \in Actor, ClearDirty(a) PROVE LocalsAgree'
    BY <1>0, <1>10 DEF ClearDirty, LocalsAgree, TypeOK, Goto
  <1>11. ASSUME NEW a \in Actor, NEW i \in ISA, Recompile(a, i) PROVE LocalsAgree'
    <2>1. CASE block[target[a]][i] = NoBlock
      BY <1>0, <1>11, <2>1 DEF Recompile, LocalsAgree, TypeOK, history
    <2>2. CASE block[target[a]][i] # NoBlock
      <3>1. recompile(a, target[a], i) /\ target[a] \in Core /\ pc[a] = "look"
        BY <1>0, <1>11, <2>2 DEF Recompile, TypeOK
      <3>2. /\ UNCHANGED <<running, target, goal, pending, fresh>>
            /\ \A b \in Actor : todo'[b] \subseteq todo[b]
        BY <1>0, <1>11 DEF Recompile, TypeOK, history
      <3> QED BY <1>0, <3>1, <3>2, LocalsStart
    <2> QED BY <2>1, <2>2
  <1>12. ASSUME NEW c \in Core, CompileMissing(c) PROVE LocalsAgree'
    <2>1. /\ recompile(c, c, goal[c]) /\ goal[c] \in ISA
          /\ target[c] = c /\ pc[c] = "look"
      BY <1>0, <1>12 DEF CompileMissing, LocalsAgree
    <2>2. UNCHANGED <<running, target, todo, goal, pending, fresh>>
      BY <1>12 DEF CompileMissing, history
    <2> QED BY <1>0, <2>1, <2>2, LocalsStart
  <1>13. ASSUME NEW a \in Actor, NEW w \in Word, CompileWord(a, w) PROVE LocalsAgree'
    <2>1. UNCHANGED <<running, pc, locals, pending, fresh>>
      BY <1>13 DEF CompileWord, history
    <2>2. \A c \in Core, j \in ISA : block'[c][j] = NoBlock <=> block[c][j] = NoBlock
      BY <1>0, <1>13, WordCompiled
    <2> QED BY <1>0, <2>1, <2>2 DEF LocalsAgree, TypeOK, locals
  <1>14. ASSUME NEW a \in Actor, Compiled(a) PROVE LocalsAgree'
    BY <1>0, <1>14 DEF Compiled, LocalsAgree, TypeOK, Goto, history
  <1>15. CASE UNCHANGED vars
    BY <1>0, <1>15 DEF vars, LocalsAgree, locals, history
  <1> QED
    BY <1>1, <1>2, <1>3, <1>4, <1>5, <1>6, <1>7, <1>8, <1>9, <1>10, <1>11,
       <1>12, <1>13, <1>14, <1>15
    DEF Next, Program, UserInterface, Thread

(* Where the user interface flushes no page.                               *)
LEMMA UnflushedPreserved ==
  ASSUME IInv, [Next]_vars, ~Flushing
  PROVE  Unflushed'
  <1> USE DEF Actor
  <1>0. TypeOK /\ LocalsAgree /\ StaleFlagged /\ Unflushed
    BY DEF IInv
  <1>a. \A a \in Actor, c \in Core :
          pc[a] \notin {"idle", "storing"} /\ target[a] = c => a = c
    BY <1>0 DEF Unflushed, LocalsAgree
  <1>b. \A c \in Core, i \in ISA : pc[c] = "look" => ~Compiling(c, i)
    BY <1>a DEF Compiling
  <1>1. pc'[Host] \in {"idle", "storing"}
    <2>1. ASSUME NEW c \in Core, Program(c) PROVE pc'[Host] = pc[Host]
      BY <1>0, <2>1, ActorAssumption
      DEF Program, Leave, Branch, jit_rebranch, CompileMissing, Enter, recompile, Goto, TypeOK
    <2>2. CASE UserInterface
      BY <1>0, <2>2 DEF UserInterface, Flush, Flushed, Unflushed
    <2>3. ASSUME NEW a \in Actor, Thread(a), a # Host PROVE pc'[Host] = pc[Host]
      BY <1>0, <2>3
      DEF Thread, Store, dirty, TestDirty, LoadFlags, ClearDirty, Recompile, recompile,
          CompileWord, Compiled, locals, history, Goto, TypeOK
    <2>4. CASE Thread(Host)
      BY <1>0, <2>4
      DEF Thread, Store, dirty, TestDirty, LoadFlags, ClearDirty, Recompile,
          CompileWord, Compiled, Goto, TypeOK, Unflushed
    <2>5. CASE UNCHANGED vars
      BY <1>0, <2>5 DEF vars, Unflushed
    <2> QED BY <1>0, <2>1, <2>2, <2>3, <2>4, <2>5 DEF Next, Unflushed
  <1>2. LiveCode'
    <2>1. ASSUME NEW c \in Core, CompileMissing(c) PROVE ~freed'
      <3>1. freed' = (Compiling(c, goal[c]) \/ running[c] = goal[c])
        BY <2>1 DEF CompileMissing, recompile
      <3>2. pc[c] = "look" /\ goal[c] \in ISA /\ running[c] = Elsewhere
        BY <1>0, <2>1 DEF CompileMissing, LocalsAgree
      <3> QED BY <1>b, <3>1, <3>2, BlockAssumption
    <2>2. ASSUME NEW c \in Core, Enter(c) PROVE ~freed'
      <3>1. pc[c] = "look" /\ goal[c] \in ISA /\ freed' = Compiling(c, goal[c])
        BY <1>0, <2>2 DEF Enter, LocalsAgree
      <3> QED BY <1>b, <3>1
    <2>3. ASSUME NEW a \in Actor, NEW i \in ISA, Recompile(a, i) PROVE ~freed'
      <3>1. CASE freed' = freed
        BY <1>0, <3>1 DEF Unflushed, LiveCode
      <3>2. CASE recompile(a, target[a], i)
        <4>1. pc[a] = "look" /\ a \in Core /\ target[a] = a
          BY <1>0, <2>3 DEF Recompile, Unflushed, LocalsAgree
        <4>2. running[a] = Elsewhere
          BY <1>0, <4>1 DEF LocalsAgree
        <4>3. freed' = (Compiling(a, i) \/ running[a] = i)
          BY <3>2, <4>1 DEF recompile
        <4> QED BY <1>b, <4>1, <4>2, <4>3, BlockAssumption
      <3> QED BY <2>3, <3>1, <3>2 DEF Recompile
    <2>4. CASE freed' = freed
      BY <1>0, <2>4 DEF Unflushed, LiveCode
    <2> QED
      BY <2>1, <2>2, <2>3, <2>4
      DEF LiveCode, Next, Program, UserInterface, Thread, vars, Leave, Branch, jit_rebranch,
          Flush, Flushed, Store, dirty, TestDirty, LoadFlags, ClearDirty,
          CompileWord, Compiled
  <1>3. PastTest'
    <2> SUFFICES ASSUME NEW c \in Core, NEW i \in ISA, NEW w \in Word,
                        pc'[c] \in {"look", "compile"}, w \in fresh'[c],
                        Stale(c, i, w)', ~lost'
                 PROVE  i \in todo'[c]
      BY DEF PastTest
    <2>0. /\ pc[c] \in {"look", "compile"} /\ w \in fresh[c] /\ Stale(c, i, w) /\ ~lost
               => i \in todo[c]
          /\ c \in Actor
      BY <1>0 DEF Unflushed, PastTest
    <2>1. CASE UNCHANGED <<mem, block, fresh, lost>> /\ pc'[c] = pc[c] /\ todo'[c] = todo[c]
      BY <2>0, <2>1 DEF Stale
    <2>2. ASSUME NEW d \in Core, Leave(d) PROVE i \in todo'[c]
      BY <2>1, <2>2 DEF Leave, locals, history
    <2>3. ASSUME NEW d \in Core, NEW j \in ISA, Branch(d, j) PROVE i \in todo'[c]
      <3>1. UNCHANGED <<mem, block, lost, todo>>
        BY <2>3 DEF Branch
      <3>2. c # d
        BY <1>0, <2>3 DEF Branch, Goto, TypeOK
      <3>3. pc'[c] = pc[c] /\ fresh'[c] = fresh[c]
        BY <1>0, <2>3, <3>2 DEF Branch, Goto, TypeOK
      <3> QED BY <2>0, <3>1, <3>3 DEF Stale
    <2>4. ASSUME NEW d \in Core, NEW j \in ISA, jit_rebranch(d, j) PROVE i \in todo'[c]
      <3>1. UNCHANGED <<mem, block, lost, todo, fresh>>
        BY <2>4 DEF jit_rebranch, history
      <3>2. CASE c = d
        BY <1>0, <2>4, <3>1, <3>2 DEF jit_rebranch, LocalsAgree
      <3>3. CASE c # d
        <4>1. pc'[c] = pc[c]
          BY <1>0, <2>4, <3>3 DEF jit_rebranch, Goto, TypeOK
        <4> QED BY <2>0, <3>1, <4>1 DEF Stale
      <3> QED BY <3>2, <3>3
    <2>5. ASSUME NEW d \in Core, CompileMissing(d) PROVE i \in todo'[c]
      <3>1. recompile(d, d, goal[d]) /\ goal[d] \in ISA /\ pc[d] = "look"
        BY <1>0, <2>5 DEF CompileMissing, LocalsAgree
      <3>2. Stale(c, i, w)
        <4>1. mem' = mem
          BY <2>5 DEF CompileMissing
        <4> QED BY <1>0, <3>1, <4>1, Started DEF Stale
      <3>3. pc'[c] = pc[c] \/ pc[c] = "look"
        BY <1>0, <3>1 DEF recompile, Goto, TypeOK
      <3>4. UNCHANGED <<todo, fresh, lost>>
        BY <2>5 DEF CompileMissing, history
      <3> QED BY <2>0, <3>2, <3>3, <3>4
    <2>6. ASSUME NEW d \in Core, Enter(d) PROVE i \in todo'[c]
      <3>1. UNCHANGED <<mem, block, todo, lost>>
        BY <2>6 DEF Enter
      <3>2. c # d
        BY <1>0, <2>6 DEF Enter, Goto, TypeOK
      <3>3. pc'[c] = pc[c] /\ fresh'[c] = fresh[c]
        BY <1>0, <2>6, <3>2 DEF Enter, Goto, TypeOK
      <3> QED BY <2>0, <3>1, <3>3 DEF Stale
    <2>7. CASE UserInterface
      <3>1. UNCHANGED <<mem, block, todo, fresh, lost>> /\ pc'[c] = pc[c]
        BY <1>0, <2>7, ActorAssumption DEF UserInterface, Flush, Flushed, Goto, TypeOK,
                                           locals, history
      <3> QED BY <2>1, <3>1
    <2>8. ASSUME NEW a \in Actor, NEW u \in Word, NEW v \in Data, Store(a, u, v)
          PROVE  i \in todo'[c]
      <3>1. u # w /\ w \in fresh[c]
        BY <1>0, <2>8 DEF Store, TypeOK
      <3>2. mem'[w] = mem[w] /\ UNCHANGED <<block, todo, lost>>
        BY <1>0, <2>8, <3>1 DEF Store, TypeOK, locals
      <3>3. pc'[c] = pc[c]
        BY <1>0, <2>8 DEF Store, Goto, TypeOK
      <3> QED BY <2>0, <3>1, <3>2, <3>3 DEF Stale
    <2>9. ASSUME NEW a \in Actor, dirty(a) \/ LoadFlags(a) PROVE i \in todo'[c]
      <3>1. pc'[c] = pc[c] /\ UNCHANGED <<mem, block, fresh, lost, todo>>
        BY <1>0, <2>9 DEF dirty, LoadFlags, Goto, TypeOK, locals, history
      <3> QED BY <2>1, <3>1
    <2>10. ASSUME NEW a \in Actor, TestDirty(a) PROVE i \in todo'[c]
      <3>1. UNCHANGED <<mem, block, fresh, lost, todo, flags, target, pending>>
        BY <2>10 DEF TestDirty, locals, history
      <3>2. CASE a # c
        <4>1. pc'[c] = pc[c]
          BY <1>0, <2>10, <3>2 DEF TestDirty, Goto, TypeOK
        <4> QED BY <2>1, <3>1, <4>1
      <3>3. CASE a = c
        <4>1. c \notin flags
          BY <1>0, <2>10, <3>3 DEF TestDirty, Goto, TypeOK, LocalsAgree
        <4>2. Stale(c, i, w) /\ w \in fresh[c] /\ ~lost
          BY <3>1 DEF Stale
        <4>3. PICK b \in Actor : w \in pending[b] \/ (target[b] = c /\ i \in todo[b])
          BY <1>0, <4>1, <4>2 DEF StaleFlagged, Underway
        <4>4. w \notin pending[b]
          BY <1>0, <4>2 DEF LocalsAgree
        <4>5. b = c
          BY <1>0, <1>a, <4>3, <4>4 DEF LocalsAgree
        <4> QED BY <3>1, <4>3, <4>4, <4>5
      <3> QED BY <3>2, <3>3
    <2>11. ASSUME NEW a \in Actor, ClearDirty(a) PROVE i \in todo'[c]
      <3>1. UNCHANGED <<mem, block, fresh>> /\ (lost => lost')
        BY <2>11 DEF ClearDirty
      <3>2. CASE a = c
        BY <1>0, <2>11, <3>2 DEF ClearDirty, TypeOK
      <3>3. CASE a # c
        <4>1. pc'[c] = pc[c] /\ todo'[c] = todo[c]
          BY <1>0, <2>11, <3>3 DEF ClearDirty, Goto, TypeOK
        <4> QED BY <2>0, <3>1, <4>1 DEF Stale
      <3> QED BY <3>2, <3>3
    <2>12. ASSUME NEW a \in Actor, NEW j \in ISA, Recompile(a, j) PROVE i \in todo'[c]
      <3>1. UNCHANGED <<mem, fresh, lost>> /\ pc[a] = "look" /\ a \in Core /\ target[a] = a
        BY <1>0, <2>12 DEF Recompile, Unflushed, LocalsAgree, history
      <3>2. /\ Stale(c, i, w)
            /\ ~(c = a /\ i = j)
        <4>1. CASE block[target[a]][j] = NoBlock
          <5>1. block' = block
            BY <2>12, <4>1 DEF Recompile
          <5> QED BY <3>1, <4>1, <5>1 DEF Stale
        <4>2. CASE block[target[a]][j] # NoBlock
          <5>1. recompile(a, target[a], j)
            BY <2>12, <4>2 DEF Recompile
          <5> QED BY <1>0, <3>1, <5>1, Started DEF Stale
        <4> QED BY <4>1, <4>2
      <3>3. /\ c = a \/ todo'[c] = todo[c]
            /\ c = a => todo'[c] = todo[c] \ {j}
        BY <1>0, <2>12 DEF Recompile, TypeOK
      <3>4. pc'[c] = pc[c] \/ pc[c] = "look"
        BY <1>0, <2>12 DEF Recompile, recompile, Goto, TypeOK
      <3> QED BY <2>0, <3>1, <3>2, <3>3, <3>4
    <2>13. ASSUME NEW a \in Actor, NEW u \in Word, CompileWord(a, u) PROVE i \in todo'[c]
      <3>1. UNCHANGED <<mem, pc, todo, fresh, lost>>
        BY <2>13 DEF CompileWord, locals, history
      <3>2. Stale(c, i, w)
        BY <1>0, <2>13, <3>1, WordCompiled DEF Stale
      <3> QED BY <2>0, <3>1, <3>2
    <2>14. ASSUME NEW a \in Actor, Compiled(a) PROVE i \in todo'[c]
      <3>1. UNCHANGED <<mem, block, todo, fresh, lost>>
        BY <2>14 DEF Compiled, history
      <3>2. pc'[c] = pc[c] \/ pc[c] = "compile"
        BY <1>0, <2>14 DEF Compiled, Goto, TypeOK
      <3> QED BY <2>0, <3>1, <3>2 DEF Stale
    <2>15. CASE UNCHANGED vars
      BY <2>1, <2>15 DEF vars, locals, history
    <2> QED
      BY <2>2, <2>3, <2>4, <2>5, <2>6, <2>7, <2>8, <2>9, <2>10, <2>11, <2>12,
         <2>13, <2>14, <2>15
      DEF Next, Program, Thread
  <1> QED BY <1>1, <1>2, <1>3 DEF Unflushed

-----------------------------------------------------------------------------
(* The inductive invariant holds in every reachable state.                 *)
THEOREM Inductive == Spec => []IInv
  <1>1. Init => IInv
    BY InitEstablishes
  <1>2. IInv /\ [Next]_vars => IInv'
    BY TypePreserved, StaleFlaggedPreserved, LocalsPreserved, UnflushedPreserved DEF IInv
  <1> QED BY <1>1, <1>2, PTL DEF Spec

(* Code that does not match the page is flagged, about to be flagged or    *)
(* about to be compiled, flushes included, unless a "flags &= ~bit" (HLE   *)
(* and Mem.cpp) has dropped another thread's flag.                         *)
THEOREM StaleIsFlagged == Spec => []StaleFlagged
  BY Inductive, PTL DEF IInv

(* Where no page is flushed, no branch deletes a block in use.             *)
THEOREM CodeIsLive == ASSUME ~Flushing PROVE Spec => []LiveCode
  <1>1. IInv => LiveCode
    BY DEF IInv, Unflushed
  <1> QED BY <1>1, Inductive, PTL

(* Where no page is flushed, a branch enters code that has every store     *)
(* completed before the branch.                                            *)
THEOREM EnteredIsCurrent == ASSUME ~Flushing PROVE Spec => EntersCurrent
  <1>1. ASSUME IInv, [Next]_vars
        PROVE  [\A c \in Core :
                  pc[c] = "look" /\ running'[c] # running[c] /\ ~lost
                    => \A w \in fresh[c] : ~Stale(c, goal[c], w)]_vars
    <2> SUFFICES ASSUME NEW c \in Core, pc[c] = "look", running'[c] # running[c], ~lost,
                        NEW w \in fresh[c]
                 PROVE  ~Stale(c, goal[c], w)
      OBVIOUS
    <2>0. TypeOK /\ LocalsAgree /\ PastTest
      BY <1>1 DEF IInv, Unflushed
    <2>1. Enter(c)
      <3>1. ASSUME NEW d \in Core, Program(d), d # c PROVE running'[c] = running[c]
        BY <2>0, <3>1 DEF Program, Leave, Branch, jit_rebranch, CompileMissing, Enter, TypeOK
      <3>2. CASE Program(c)
        BY <2>0, <3>2 DEF Program, Leave, Branch, jit_rebranch, CompileMissing
      <3>3. UserInterface => running' = running
        BY DEF UserInterface, Flush, Flushed
      <3>4. ASSUME NEW a \in Actor, Thread(a) PROVE running' = running
        BY <3>4 DEF Thread, Store, dirty, TestDirty, LoadFlags, ClearDirty, Recompile,
                    CompileWord, Compiled
      <3>5. UNCHANGED vars => running' = running
        BY DEF vars
      <3> QED BY <1>1, <3>1, <3>2, <3>3, <3>4, <3>5 DEF Next
    <2>2. todo[c] = {} /\ goal[c] \in ISA /\ w \in Word
      BY <2>0, <2>1 DEF Enter, LocalsAgree, TypeOK
    <2> QED BY <2>0, <2>2 DEF PastTest
  <1> QED BY <1>1, Inductive, PTL DEF EntersCurrent, Spec
=============================================================================
