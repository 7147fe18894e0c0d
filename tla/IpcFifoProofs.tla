---------------------------- MODULE IpcFifoProofs ----------------------------
(***************************************************************************)
(* Theorems about one direction of the IPC FIFO, for every ring size,      *)
(* counter width and set of words.                                         *)
(***************************************************************************)
EXTENDS IpcFifo, SequenceTheorems, TLAPS

(***************************************************************************)
(* The counter arithmetic of fifo<n>: what wrapping counters, the fill     *)
(* level and the slot of a counter have to do with one another.            *)
(***************************************************************************)

(* A remainder is the number itself, or one period above it.               *)
LEMMA SmallMod ==
  ASSUME NEW n \in Nat \ {0}, NEW x \in Int, -n <= x, x < n
  PROVE  x % n = IF x < 0 THEN x + n ELSE x
OBVIOUS

(* Every integer is a multiple of n plus its remainder.                    *)
LEMMA DivMod ==
  ASSUME NEW n \in Nat \ {0}, NEW x \in Int
  PROVE  /\ x % n \in 0 .. n - 1
         /\ x \div n \in Int
         /\ x = (x \div n) * n + (x % n)
OBVIOUS

(* Quotient and remainder are unique.                                      *)
LEMMA ModUnique ==
  ASSUME NEW n \in Nat \ {0}, NEW k \in Int, NEW r \in 0 .. n - 1, NEW x \in Int,
         x = k * n + r
  PROVE  x % n = r
OBVIOUS

(* Adding a multiple of n does not change the remainder.                   *)
LEMMA ModShift ==
  ASSUME NEW n \in Nat \ {0}, NEW q \in Int, NEW x \in Int
  PROVE  (q * n + x) % n = x % n
<1> DEFINE d == x \div n
           k == q + d
           r == x % n
           y == q * n + x
<1>1. d \in Int /\ k \in Int /\ r \in 0 .. n - 1
  BY DivMod
<1>2. x = d * n + r
  BY DivMod
<1>3. k * n = q * n + d * n
  BY <1>1
<1>4. y = k * n + r
  <2> HIDE DEF d, k, r
  <2> QED BY <1>1, <1>2, <1>3
<1> HIDE DEF d, k, r, y
<1>5. y % n = r
  BY <1>1, <1>4, ModUnique
<1> QED BY <1>5 DEF r, y

(* The counters are wider than the ring.                                   *)
LEMMA WrapFacts == /\ Size \in Nat /\ Size > 0
                   /\ Wrap \in Nat /\ Wrap > Size
                   /\ Laps \in Nat /\ Laps > 1
                   /\ Wrap = Laps * Size
<1>1. Wrap = Laps * Size
  BY FifoAssumption DEF Wrap
<1>2. Laps * Size > Size
  BY FifoAssumption
<1> QED BY <1>1, <1>2, FifoAssumption

(* The fill level without a remainder.                                     *)
LEMMA UsedFacts ==
  ASSUME NEW w \in Position, NEW r \in Position
  PROVE  /\ Used(w, r) = IF w < r THEN w - r + Wrap ELSE w - r
         /\ Used(w, r) \in 0 .. Wrap - 1
<1>1. /\ w \in Int /\ r \in Int /\ Wrap \in Nat \ {0}
      /\ -Wrap <= w - r /\ w - r < Wrap
  BY WrapFacts DEF Position
<1>2. (w - r) % Wrap = IF w - r < 0 THEN w - r + Wrap ELSE w - r
  <2> DEFINE x == w - r
  <2>1. x \in Int /\ -Wrap <= x /\ x < Wrap
    BY <1>1
  <2> HIDE DEF x
  <2>2. x % Wrap = IF x < 0 THEN x + Wrap ELSE x
    BY <1>1, <2>1, SmallMod
  <2> QED BY <2>2 DEF x
<1> QED BY <1>1, <1>2 DEF Used, Position

(* Advancing a counter without a remainder.                                *)
LEMMA AdvanceFacts ==
  ASSUME NEW p \in Position
  PROVE  /\ Advance(p) = IF p + 1 = Wrap THEN 0 ELSE p + 1
         /\ Advance(p) \in Position
<1>1. p \in Nat /\ p < Wrap /\ Wrap \in Nat \ {0} /\ Wrap > 1
  BY WrapFacts DEF Position
<1>2. CASE p + 1 = Wrap
  <2>1. Wrap % Wrap = 0
    BY <1>1, ModUnique
  <2> QED BY <2>1, <1>2, <1>1 DEF Advance, Position
<1>3. CASE p + 1 # Wrap
  <2> DEFINE x == p + 1
  <2>1. x \in Int /\ 0 <= x /\ x < Wrap /\ -Wrap <= x
    BY <1>1, <1>3
  <2> HIDE DEF x
  <2>2. x % Wrap = x
    BY <1>1, <2>1, SmallMod
  <2>3. (p + 1) % Wrap = p + 1
    BY <2>2 DEF x
  <2> QED BY <2>3, <1>3, <1>1 DEF Advance, Position
<1> QED BY <1>2, <1>3

(* A write fills the ring by one, and a read empties it by one.            *)
LEMMA UsedAdvance ==
  ASSUME NEW w \in Position, NEW r \in Position
  PROVE  /\ Used(w, r) < Size => Used(Advance(w), r) = Used(w, r) + 1
         /\ Used(w, r) > 0 => Used(w, Advance(r)) = Used(w, r) - 1
<1>1. /\ Advance(w) \in Position /\ Advance(r) \in Position
      /\ Advance(w) = IF w + 1 = Wrap THEN 0 ELSE w + 1
      /\ Advance(r) = IF r + 1 = Wrap THEN 0 ELSE r + 1
  BY AdvanceFacts
<1>2. /\ Used(w, r) = IF w < r THEN w - r + Wrap ELSE w - r
      /\ Used(Advance(w), r) = IF Advance(w) < r THEN Advance(w) - r + Wrap
                                                 ELSE Advance(w) - r
      /\ Used(w, Advance(r)) = IF w < Advance(r) THEN w - Advance(r) + Wrap
                                                 ELSE w - Advance(r)
  BY <1>1, UsedFacts
<1> HIDE DEF Used, Advance
<1> QED BY <1>1, <1>2, WrapFacts DEF Position

(* empty() says that nothing is in the ring.                               *)
LEMMA EmptyFill ==
  ASSUME NEW w \in Position, NEW r \in Position
  PROVE  empty(w, r) <=> Used(w, r) = 0
<1>1. Used(w, r) = IF w < r THEN w - r + Wrap ELSE w - r
  BY UsedFacts
<1> QED BY <1>1, WrapFacts DEF empty, Position

(* As long as the counters keep within Size of each other, size() is 0 for *)
(* the empty and for the full ring and for no other.                       *)
LEMMA SizeFill ==
  ASSUME NEW w \in Position, NEW r \in Position, Used(w, r) <= Size
  PROVE  size(w, r) = 0 <=> Used(w, r) \in {0, Size}
<1> DEFINE u == Used(w, r)
<1>1. u \in Nat /\ u <= Size /\ Size \in Nat \ {0}
  BY UsedFacts, WrapFacts
<1> HIDE DEF u
<1>2. Size % Size = 0
  BY <1>1, ModUnique
<1>3. u < Size => u % Size = u
  BY <1>1, SmallMod
<1>4. u % Size = 0 <=> u \in {0, Size}
  BY <1>1, <1>2, <1>3
<1> QED BY <1>4 DEF u, size

(* full() as written is the full ring.                                     *)
LEMMA FullFill ==
  ASSUME NEW w \in Position, NEW r \in Position, Used(w, r) <= Size
  PROVE  full(w, r) <=> Used(w, r) = Size
BY SizeFill, EmptyFill, WrapFacts DEF full

(* Counters less than a lap apart use different slots.                     *)
LEMMA SlotApart ==
  ASSUME NEW a \in Int, NEW b \in Int, a < b, b - a < Size
  PROVE  Slot(a) # Slot(b)
<1>1. Size \in Nat \ {0}
  BY WrapFacts
<1> SUFFICES ASSUME a % Size = b % Size
             PROVE  FALSE
  BY DEF Slot
<1> DEFINE i == a \div Size
           j == b \div Size
           m == a % Size
           k == j - i
           p == i * Size
           q == j * Size
<1>2. /\ i \in Int /\ j \in Int /\ m \in Int /\ k \in Int
      /\ p \in Int /\ q \in Int
      /\ a = p + m
      /\ b = q + m
  BY <1>1, DivMod
<1>3. k * Size = q - p
  BY <1>1, <1>2
<1>4. k <= 0 => k * Size <= 0
  <2> HIDE DEF k
  <2> QED BY <1>1, <1>2
<1>5. k >= 1 => k * Size >= Size
  <2> HIDE DEF k
  <2> QED BY <1>1, <1>2
<1> HIDE DEF i, j, m, k, p, q
<1>6. b - a = q - p
  BY <1>2
<1> QED BY <1>1, <1>2, <1>3, <1>4, <1>5, <1>6

(* A whole width of the counter away lies the same slot.                   *)
LEMMA SlotShift ==
  ASSUME NEW x \in Int
  PROVE  Slot(Wrap + x) = Slot(x)
<1>1. Size \in Nat \ {0} /\ Laps \in Int /\ Wrap = Laps * Size
  BY WrapFacts
<1>2. (Laps * Size + x) % Size = x % Size
  BY <1>1, ModShift
<1> QED BY <1>1, <1>2 DEF Slot

(* The slot to be written next lies Used behind the slot to be read next.  *)
LEMMA SlotOfFill ==
  ASSUME NEW w \in Position, NEW r \in Position
  PROVE  Slot(r + Used(w, r)) = Slot(w)
<1>1. Used(w, r) = IF w < r THEN w - r + Wrap ELSE w - r
  BY UsedFacts
<1>2. w \in Int /\ r \in Int /\ Wrap \in Int
  BY WrapFacts DEF Position
<1>3. CASE w < r
  <2>1. r + Used(w, r) = Wrap + w
    BY <1>1, <1>2, <1>3
  <2> QED BY <2>1, <1>2, SlotShift
<1>4. CASE ~(w < r)
  <2>1. r + Used(w, r) = w
    BY <1>1, <1>2, <1>4
  <2> QED BY <2>1
<1> QED BY <1>3, <1>4

(* Wrapping the read counter does not move the words behind it.            *)
LEMMA SlotAdvance ==
  ASSUME NEW r \in Position, NEW i \in Int
  PROVE  Slot(Advance(r) + i) = Slot(r + 1 + i)
<1>1. /\ Advance(r) = IF r + 1 = Wrap THEN 0 ELSE r + 1
      /\ r \in Int
  BY AdvanceFacts DEF Position
<1>2. CASE r + 1 = Wrap
  <2>1. Slot(Wrap + i) = Slot(i)
    BY SlotShift
  <2>2. r + 1 + i = Wrap + i /\ Advance(r) + i = i
    BY <1>1, <1>2
  <2> QED BY <2>1, <2>2
<1>3. CASE r + 1 # Wrap
  BY <1>1, <1>3
<1> QED BY <1>2, <1>3

(* A slot is an index of the ring.                                         *)
LEMMA SlotType == ASSUME NEW p \in Int PROVE Slot(p) \in Slots
BY DivMod, WrapFacts DEF Slot, Slots

-----------------------------------------------------------------------------

(* Counters start within their width, and every slot holds a word.         *)
LEMMA InitType == Init => TypeOK
<1> SUFFICES ASSUME Init PROVE TypeOK
  OBVIOUS
<1>1. readpos \in Position /\ writepos \in Position
  BY WrapFacts DEF Init, Position
<1>2. queue \in [Slots -> Data] /\ word \in [Actor -> Data] /\ value \in Data
  BY DataAssumption DEF Init
<1>3. /\ fifocnt \in SUBSET Flags
      /\ signaled \in [Actor -> SUBSET {17, 18}]
      /\ pc \in [Actor -> Labels]
      /\ state \in [Actor -> SUBSET Flags]
  BY DEF Init, Labels, Flags
<1>4. solo \in BOOLEAN /\ polled \in [Actor -> BOOLEAN]
  BY DEF Init
<1> QED BY <1>1, <1>2, <1>3, <1>4 DEF TypeOK

(* Every access keeps the types.                                           *)
LEMMA TypeStep == TypeOK /\ [Next]_vars => TypeOK'
<1> SUFFICES ASSUME TypeOK, [Next]_vars
             PROVE  TypeOK'
  OBVIOUS
<1> USE DEF TypeOK, Goto, ring, history
<1>1. ASSUME NEW a \in Actor, NEW v \in Data, NEW l \in Labels, Begin(a, v, l)
      PROVE  TypeOK'
  BY <1>1 DEF Begin
<1>2. ASSUME NEW a \in Actor, NEW l, NEW m \in Labels, Test(a, l, m)
      PROVE  TypeOK'
  BY <1>2 DEF Test
<1>3. ASSUME NEW a \in Actor, NEW l, DebugBreak(a, l)
      PROVE  TypeOK'
  BY <1>3 DEF DebugBreak, Labels
<1>4. ASSUME NEW a \in Actor, NEW l, NEW s \in SUBSET Flags, NEW m \in Labels,
             Report(a, l, s, m)
      PROVE  TypeOK'
  BY <1>4 DEF Report
<1>5. CASE WriteSlot
  BY <1>5 DEF WriteSlot, Labels, Actor
<1>6. CASE AdvanceWrite
  BY <1>6, AdvanceFacts DEF AdvanceWrite, Labels, Actor
<1>7. CASE ReadSlot
  <2>1. queue[Slot(readpos)] \in Data
    BY SlotType DEF Position
  <2> QED BY <1>7, <2>1 DEF ReadSlot, Labels, Actor
<1>8. CASE AdvanceRead
  BY <1>8, AdvanceFacts DEF AdvanceRead, Labels, Actor
<1>9. ASSUME NEW a \in Actor, flag_fifo(a)
      PROVE  TypeOK'
  BY <1>9 DEF flag_fifo, Labels
<1>10. ASSUME NEW a \in Actor, fire(a)
       PROVE  TypeOK'
  BY <1>10 DEF fire, Fired, Labels
<1>11. ASSUME NEW a \in Actor, TakeSignals(a)
       PROVE  TypeOK'
  BY <1>11 DEF TakeSignals
<1>12. CASE UNCHANGED vars
  BY <1>12 DEF vars
<1>13. ASSUME NEW v \in Data, store32(v) PROVE TypeOK'
  BY <1>1, <1>13 DEF store32, Labels, Actor
<1>14. CASE load32
  BY <1>1, <1>14 DEF load32, Labels, Actor
<1>15. CASE TestNotEmpty \/ TestSize \/ TestPop
  BY <1>2, <1>15 DEF TestNotEmpty, TestSize, TestPop, Labels, Actor
<1>16. CASE Overflow \/ Underflow
  BY <1>3, <1>16 DEF Overflow, Underflow, Actor
<1>17. ASSUME NEW a \in Actor, StateEmpty(a) \/ StateFullSize(a) PROVE TypeOK'
  BY <1>4, <1>17 DEF StateEmpty, StateFullSize, Labels, Flags
<1>18. ASSUME NEW a \in Actor, StateFullEmpty(a) \/ jit_rebranch(a) PROVE TypeOK'
  BY <1>2, <1>18 DEF StateFullEmpty, jit_rebranch, Labels
<1> HIDE DEF TypeOK
<1> QED
  BY <1>5, <1>6, <1>7, <1>8, <1>9, <1>10, <1>11, <1>12, <1>13, <1>14, <1>15,
     <1>16, <1>17, <1>18
     DEF Next, Push, Pop, Finish

(* No access of either handler leaves the types of the variables: counters *)
(* stay within their width and a slot only ever holds a word.              *)
THEOREM TypeCorrect == Spec => []TypeOK
BY InitType, TypeStep, PTL DEF Spec

-----------------------------------------------------------------------------
(* What the guards read, in terms of the fill level.                       *)
LEMMA FillFacts ==
  ASSUME TypeOK, ChecksHold
  PROVE  /\ Fill \in Nat /\ Fill <= Size /\ Size \in Nat /\ Size > 0
         /\ empty(writepos, readpos) <=> Fill = 0
         /\ size(writepos, readpos) = 0 <=> Fill \in {0, Size}
         /\ full(writepos, readpos) <=> Fill = Size
<1>1. readpos \in Position /\ writepos \in Position
  BY DEF TypeOK
<1>2. Fill \in 0 .. Wrap - 1
  BY <1>1, UsedFacts DEF Fill
<1>3. Used(writepos, readpos) <= Size
  BY DEF ChecksHold, Fill
<1>4. Fill \in Nat /\ Size \in Nat /\ Size > 0
  BY <1>2, WrapFacts
<1> QED
  BY <1>1, <1>3, <1>4, EmptyFill, SizeFill, FullFill DEF Fill

(* Only the two advancing accesses change the fill level, each by one.     *)
LEMMA FillStep ==
  ASSUME TypeOK, ChecksHold, [Next]_vars
  PROVE  /\ AdvanceWrite => Fill' = Fill + 1 /\ Fill < Size
         /\ AdvanceRead => Fill' = Fill - 1 /\ Fill > 0
         /\ AdvanceWrite \/ AdvanceRead \/ UNCHANGED <<readpos, writepos>>
<1>1. readpos \in Position /\ writepos \in Position
  BY DEF TypeOK
<1>2. ASSUME AdvanceWrite PROVE Fill' = Fill + 1 /\ Fill < Size
  <2>1. Fill < Size
    BY <1>2 DEF AdvanceWrite, ChecksHold
  <2>2. Used(Advance(writepos), readpos) = Used(writepos, readpos) + 1
    BY <1>1, <2>1, UsedAdvance DEF Fill
  <2> QED BY <1>2, <2>1, <2>2 DEF AdvanceWrite, Fill
<1>3. ASSUME AdvanceRead PROVE Fill' = Fill - 1 /\ Fill > 0
  <2>1. Fill > 0
    BY <1>3 DEF AdvanceRead, ChecksHold
  <2>2. Used(writepos, Advance(readpos)) = Used(writepos, readpos) - 1
    BY <1>1, <2>1, UsedAdvance DEF Fill
  <2> QED BY <1>3, <2>1, <2>2 DEF AdvanceRead, Fill
<1>4. ASSUME ~AdvanceWrite, ~AdvanceRead
      PROVE  UNCHANGED <<readpos, writepos>>
  BY <1>4 DEF Next, Push, Pop, Finish, store32, load32, Begin, TestNotEmpty,
     TestSize, TestPop, Test, Overflow, Underflow, DebugBreak, WriteSlot, ReadSlot,
     StateEmpty, StateFullEmpty, StateFullSize, Report, flag_fifo, fire,
     TakeSignals, jit_rebranch, ring, vars
<1> QED BY <1>2, <1>3, <1>4

(* A step that leaves the counters alone leaves the fill level alone.      *)
LEMMA SameFill == ASSUME UNCHANGED <<readpos, writepos>>
                  PROVE  Fill' = Fill /\ Current' = Current
BY DEF Fill, Current

(* The unguarded checks hold until they are used.                          *)
LEMMA ChecksHoldStep ==
  ASSUME TypeOK, ChecksHold, [Next]_vars
  PROVE  ChecksHold'
<1> USE DEF Goto, Sender, Receiver, Actor
<1>1. /\ Fill \in Nat /\ Fill <= Size /\ Size \in Nat /\ Size > 0
      /\ empty(writepos, readpos) <=> Fill = 0
      /\ size(writepos, readpos) = 0 <=> Fill \in {0, Size}
  BY FillFacts
<1>2. /\ AdvanceWrite => Fill' = Fill + 1 /\ Fill < Size
      /\ AdvanceRead => Fill' = Fill - 1 /\ Fill > 0
      /\ AdvanceWrite \/ AdvanceRead \/ UNCHANGED <<readpos, writepos>>
  BY FillStep
<1>3. DOMAIN pc = Actor
  BY DEF TypeOK
<1> HIDE DEF Fill
<1>4. CASE AdvanceWrite
  <2>1. Fill' = Fill + 1 /\ Fill < Size
    BY <1>2, <1>4
  <2>2. pc'[Sender] = "state.empty" /\ pc'[Receiver] = pc[Receiver]
    BY <1>3, <1>4 DEF AdvanceWrite
  <2> QED BY <1>1, <2>1, <2>2 DEF ChecksHold
<1>5. CASE AdvanceRead
  <2>1. Fill' = Fill - 1 /\ Fill > 0
    BY <1>2, <1>5
  <2>2. pc'[Receiver] = "state.empty" /\ pc'[Sender] = pc[Sender]
    BY <1>3, <1>5 DEF AdvanceRead
  <2> QED BY <1>1, <2>1, <2>2 DEF ChecksHold
<1>6. ASSUME UNCHANGED <<readpos, writepos>>, ~AdvanceWrite, ~AdvanceRead
      PROVE  ChecksHold'
  <2>0. Fill' = Fill
    BY <1>6, SameFill
  <2> USE <1>1, <1>3, <1>6, <2>0 DEF ChecksHold
  <2>1. ASSUME NEW v \in Data, store32(v) PROVE ChecksHold'
    BY <2>1 DEF store32, Begin
  <2>2. CASE load32
    BY <2>2 DEF load32, Begin
  <2>3. CASE TestNotEmpty
    BY <2>3 DEF TestNotEmpty, Test
  <2>4. CASE TestSize
    BY <2>4 DEF TestSize, Test
  <2>5. CASE TestPop
    BY <2>5 DEF TestPop, Test
  <2>6. CASE Overflow \/ Underflow
    BY <2>6 DEF Overflow, Underflow, DebugBreak
  <2>7. CASE WriteSlot
    BY <2>7 DEF WriteSlot
  <2>8. CASE ReadSlot
    BY <2>8 DEF ReadSlot
  <2>9. ASSUME NEW a \in Actor, Finish(a) PROVE ChecksHold'
    BY <2>9 DEF Finish, StateEmpty, StateFullEmpty, StateFullSize, Report, Test,
       flag_fifo, fire, TakeSignals, jit_rebranch
  <2>10. CASE UNCHANGED vars
    BY <2>10 DEF vars
  <2> QED
    BY <2>1, <2>2, <2>3, <2>4, <2>5, <2>6, <2>7, <2>8, <2>9, <2>10
       DEF Next, Push, Pop
<1> QED BY <1>2, <1>4, <1>5, <1>6

-----------------------------------------------------------------------------
(* The receiver's own last state bounds the ring from below.               *)
LEMMA ReceiverStateStep ==
  ASSUME TypeOK, ChecksHold, ReceiverState, [Next]_vars
  PROVE  ReceiverState'
<1> USE DEF Goto, Sender, Receiver, Actor
<1>1. /\ Fill \in Nat /\ Fill <= Size
      /\ empty(writepos, readpos) <=> Fill = 0
  BY FillFacts
<1>2. /\ AdvanceWrite => Fill' = Fill + 1
      /\ AdvanceWrite \/ AdvanceRead \/ UNCHANGED <<readpos, writepos>>
  BY FillStep
<1>3. DOMAIN pc = Actor /\ DOMAIN state = Actor
  BY DEF TypeOK
<1> HIDE DEF Fill
<1>4. CASE AdvanceWrite
  <2>1. Fill' > 0
    BY <1>1, <1>2, <1>4
  <2> QED BY <2>1 DEF ReceiverState
<1>5. CASE AdvanceRead
  BY <1>3, <1>5 DEF AdvanceRead, ReceiverState
<1>6. ASSUME UNCHANGED <<readpos, writepos>>, ~AdvanceWrite, ~AdvanceRead
      PROVE  ReceiverState'
  <2>0. Fill' = Fill
    BY <1>6, SameFill
  <2> USE <1>1, <1>3, <1>6, <2>0 DEF ReceiverState
  <2>1. ASSUME NEW v \in Data, store32(v) PROVE ReceiverState'
    BY <2>1 DEF store32, Begin
  <2>2. CASE load32
    BY <2>2 DEF load32, Begin
  <2>3. CASE TestNotEmpty \/ TestSize \/ TestPop
    BY <2>3 DEF TestNotEmpty, TestSize, TestPop, Test
  <2>4. CASE Overflow \/ Underflow
    BY <2>4 DEF Overflow, Underflow, DebugBreak
  <2>5. CASE WriteSlot \/ ReadSlot
    BY <2>5 DEF WriteSlot, ReadSlot
  <2>6. ASSUME NEW a \in Actor, StateEmpty(a) PROVE ReceiverState'
    BY <2>6 DEF StateEmpty, Report
  <2>7. ASSUME NEW a \in Actor, StateFullEmpty(a) PROVE ReceiverState'
    BY <2>7 DEF StateFullEmpty, Test
  <2>8. ASSUME NEW a \in Actor, StateFullSize(a) PROVE ReceiverState'
    BY <2>8 DEF StateFullSize, Report
  <2>9. ASSUME NEW a \in Actor, flag_fifo(a) \/ fire(a) \/ TakeSignals(a) \/ jit_rebranch(a)
        PROVE  ReceiverState'
    BY <2>9 DEF flag_fifo, fire, TakeSignals, jit_rebranch, Test
  <2>10. CASE UNCHANGED vars
    BY <2>10 DEF vars
  <2> QED
    BY <2>1, <2>2, <2>3, <2>4, <2>5, <2>6, <2>7, <2>8, <2>9, <2>10
       DEF Next, Push, Pop, Finish
<1> QED BY <1>2, <1>4, <1>5, <1>6

(* The sender's own last state bounds the ring from above.                 *)
LEMMA SenderStateStep ==
  ASSUME TypeOK, ChecksHold, SenderState, [Next]_vars
  PROVE  SenderState'
<1> USE DEF Goto, Sender, Receiver, Actor
<1>1. /\ Fill \in Nat /\ Fill <= Size /\ Size \in Nat /\ Size > 0
      /\ empty(writepos, readpos) <=> Fill = 0
      /\ size(writepos, readpos) = 0 <=> Fill \in {0, Size}
  BY FillFacts
<1>2. /\ AdvanceRead => Fill' = Fill - 1
      /\ AdvanceWrite \/ AdvanceRead \/ UNCHANGED <<readpos, writepos>>
  BY FillStep
<1>3. DOMAIN pc = Actor /\ DOMAIN state = Actor
  BY DEF TypeOK
<1> HIDE DEF Fill
<1>4. CASE AdvanceWrite
  BY <1>3, <1>4 DEF AdvanceWrite, SenderState
<1>5. CASE AdvanceRead
  <2>1. Fill' < Size
    BY <1>1, <1>2, <1>5
  <2> QED BY <2>1 DEF SenderState
<1>6. ASSUME UNCHANGED <<readpos, writepos>>, ~AdvanceWrite, ~AdvanceRead
      PROVE  SenderState'
  <2>0. Fill' = Fill
    BY <1>6, SameFill
  <2> USE <1>1, <1>3, <1>6, <2>0 DEF SenderState
  <2>1. ASSUME NEW v \in Data, store32(v) PROVE SenderState'
    BY <2>1 DEF store32, Begin
  <2>2. CASE load32
    BY <2>2 DEF load32, Begin
  <2>3. CASE TestNotEmpty \/ TestSize \/ TestPop
    BY <2>3 DEF TestNotEmpty, TestSize, TestPop, Test
  <2>4. CASE Overflow \/ Underflow
    BY <2>4 DEF Overflow, Underflow, DebugBreak
  <2>5. CASE WriteSlot \/ ReadSlot
    BY <2>5 DEF WriteSlot, ReadSlot
  <2>6. ASSUME NEW a \in Actor, StateEmpty(a) PROVE SenderState'
    BY <2>6 DEF StateEmpty, Report
  <2>7. ASSUME NEW a \in Actor, StateFullEmpty(a) PROVE SenderState'
    BY <2>7 DEF StateFullEmpty, Test
  <2>8. ASSUME NEW a \in Actor, StateFullSize(a) PROVE SenderState'
    BY <2>8 DEF StateFullSize, Report
  <2>9. ASSUME NEW a \in Actor, flag_fifo(a) \/ fire(a) \/ TakeSignals(a) \/ jit_rebranch(a)
        PROVE  SenderState'
    BY <2>9 DEF flag_fifo, fire, TakeSignals, jit_rebranch, Test
  <2>10. CASE UNCHANGED vars
    BY <2>10 DEF vars
  <2> QED
    BY <2>1, <2>2, <2>3, <2>4, <2>5, <2>6, <2>7, <2>8, <2>9, <2>10
       DEF Next, Push, Pop, Finish
<1> QED BY <1>2, <1>4, <1>5, <1>6

-----------------------------------------------------------------------------
(* fire comes after the counter it announces.                              *)
LEMMA WakeupsStep ==
  ASSUME TypeOK, ChecksHold, ReceiverState, Wakeups, [Next]_vars
  PROVE  Wakeups'
<1> USE DEF Goto, Sender, Receiver, Actor, AfterAdvance
<1>1. /\ Fill \in Nat
      /\ empty(writepos, readpos) <=> Fill = 0
  BY FillFacts
<1>2. /\ AdvanceWrite => Fill' = Fill + 1
      /\ AdvanceWrite \/ AdvanceRead \/ UNCHANGED <<readpos, writepos>>
  BY FillStep
<1>3. /\ DOMAIN pc = Actor /\ DOMAIN state = Actor
      /\ DOMAIN polled = Actor /\ DOMAIN signaled = Actor
  BY DEF TypeOK
<1> HIDE DEF Fill
<1>4. CASE AdvanceWrite
  <2>1. pc'[Sender] = "state.empty" /\ pc'[Receiver] = pc[Receiver] /\ Fill' # 0
    BY <1>1, <1>2, <1>3, <1>4 DEF AdvanceWrite
  <2> QED BY <2>1 DEF Wakeups
<1>5. CASE AdvanceRead
  <2>1. /\ pc'[Receiver] = "state.empty" /\ pc'[Sender] = pc[Sender]
        /\ polled'[Receiver] = polled[Receiver] /\ signaled' = signaled
    BY <1>3, <1>5 DEF AdvanceRead
  <2> QED BY <2>1 DEF Wakeups
<1>6. ASSUME UNCHANGED <<readpos, writepos>>, ~AdvanceWrite, ~AdvanceRead
      PROVE  Wakeups'
  <2>0. Fill' = Fill
    BY <1>6, SameFill
  <2> USE <1>1, <1>3, <1>6, <2>0 DEF Wakeups
  <2>1. ASSUME NEW v \in Data, store32(v) PROVE Wakeups'
    BY <2>1 DEF store32, Begin
  <2>2. CASE load32
    BY <2>2 DEF load32, Begin
  <2>3. CASE TestNotEmpty \/ TestSize \/ TestPop
    BY <2>3 DEF TestNotEmpty, TestSize, TestPop, Test, history
  <2>4. CASE Overflow \/ Underflow
    BY <2>4 DEF Overflow, Underflow, DebugBreak
  <2>5. CASE WriteSlot \/ ReadSlot
    BY <2>5 DEF WriteSlot, ReadSlot, history
  <2>6. ASSUME NEW a \in Actor, StateEmpty(a) \/ StateFullSize(a) PROVE Wakeups'
    BY <2>6 DEF StateEmpty, StateFullSize, Report, history
  <2>7. ASSUME NEW a \in Actor, StateFullEmpty(a) PROVE Wakeups'
    BY <2>7 DEF StateFullEmpty, Test, history
  <2>8. ASSUME NEW a \in Actor, fire(a) PROVE Wakeups'
    BY <2>8 DEF fire, Fired, Other, ReceiverState, history
  <2>9. ASSUME NEW a \in Actor, flag_fifo(a) \/ TakeSignals(a) \/ jit_rebranch(a)
        PROVE  Wakeups'
    BY <2>9 DEF flag_fifo, TakeSignals, jit_rebranch, Test, history
  <2>10. CASE UNCHANGED vars
    BY <2>10 DEF vars
  <2> QED
    BY <2>1, <2>2, <2>3, <2>4, <2>5, <2>6, <2>7, <2>8, <2>9, <2>10
       DEF Next, Push, Pop, Finish
<1> QED BY <1>2, <1>4, <1>5, <1>6

(* A handler that runs alone computes and publishes the current state.     *)
LEMMA SoloStateStep ==
  ASSUME TypeOK, ChecksHold, SoloState, [Next]_vars
  PROVE  SoloState'
<1> USE DEF Goto, Sender, Receiver, Actor, Busy, AtRest
<1>1. Current = IF empty(writepos, readpos) THEN {"empty"}
                ELSE IF size(writepos, readpos) = 0 THEN {"full"} ELSE {}
  BY DEF Current, FifoState, full
<1>2. AdvanceWrite \/ AdvanceRead \/ UNCHANGED <<readpos, writepos>>
  BY FillStep
<1>3. DOMAIN pc = Actor /\ DOMAIN state = Actor
  BY DEF TypeOK
<1>4. CASE AdvanceWrite
  BY <1>3, <1>4 DEF AdvanceWrite, SoloState
<1>5. CASE AdvanceRead
  BY <1>3, <1>5 DEF AdvanceRead, SoloState
<1>6. ASSUME UNCHANGED <<readpos, writepos>>, ~AdvanceWrite, ~AdvanceRead
      PROVE  SoloState'
  <2>0. /\ Current' = Current
        /\ empty(writepos, readpos)' <=> empty(writepos, readpos)
    BY <1>6, SameFill DEF empty
  <2> USE <1>3, <2>0 DEF SoloState
  <2>1. ASSUME NEW v \in Data, store32(v) PROVE SoloState'
    BY <2>1 DEF store32, Begin, Other
  <2>2. CASE load32
    BY <2>2 DEF load32, Begin, Other
  <2>3. CASE TestNotEmpty \/ TestSize \/ TestPop
    BY <2>3 DEF TestNotEmpty, TestSize, TestPop, Test, history
  <2>4. CASE Overflow \/ Underflow
    BY <2>4 DEF Overflow, Underflow, DebugBreak
  <2>5. CASE WriteSlot \/ ReadSlot
    BY <2>5 DEF WriteSlot, ReadSlot, history
  <2>6. ASSUME NEW a \in Actor, StateEmpty(a) PROVE SoloState'
    BY <2>6 DEF StateEmpty, Report, history
  <2>7. ASSUME NEW a \in Actor, StateFullEmpty(a) PROVE SoloState'
    BY <1>1, <2>7 DEF StateFullEmpty, Test, history
  <2>8. ASSUME NEW a \in Actor, StateFullSize(a) PROVE SoloState'
    BY <1>1, <2>8 DEF StateFullSize, Report, history
  <2>9. ASSUME NEW a \in Actor, flag_fifo(a) PROVE SoloState'
    BY <2>9 DEF flag_fifo, history
  <2>10. ASSUME NEW a \in Actor, fire(a) PROVE SoloState'
    BY <2>10 DEF fire, history
  <2>11. ASSUME NEW a \in Actor, TakeSignals(a) \/ jit_rebranch(a) PROVE SoloState'
    BY <2>11 DEF TakeSignals, jit_rebranch, Test, history
  <2>12. CASE UNCHANGED vars
    BY <2>12 DEF vars
  <2> QED
    BY <2>1, <2>2, <2>3, <2>4, <2>5, <2>6, <2>7, <2>8, <2>9, <2>10, <2>11, <2>12,
       <1>6 DEF Next, Push, Pop, Finish
<1> QED BY <1>2, <1>4, <1>5, <1>6

-----------------------------------------------------------------------------
(* The slot to be written is none of the slots between the counters.       *)
LEMMA FreshSlot ==
  ASSUME TypeOK, ChecksHold, Fill < Size, NEW i \in 0 .. Fill - 1
  PROVE  Slot(readpos + i) # Slot(writepos)
<1>1. readpos \in Int /\ readpos \in Position /\ writepos \in Position
  BY DEF TypeOK, Position
<1>2. Fill \in Nat
  BY FillFacts
<1>3. Slot(readpos + Fill) = Slot(writepos)
  BY <1>1, SlotOfFill DEF Fill
<1> HIDE DEF Fill
<1> DEFINE a == readpos + i
           b == readpos + Fill
<1>4. a \in Int /\ b \in Int /\ a < b /\ b - a < Size
  BY <1>1, <1>2, WrapFacts
<1> HIDE DEF a, b
<1>5. Slot(a) # Slot(b)
  BY <1>4, SlotApart
<1> QED BY <1>3, <1>5 DEF a, b

(* No access of one core disturbs the word the other has in flight.        *)
LEMMA InFlightStep ==
  ASSUME TypeOK, ChecksHold, InFlight, [Next]_vars
  PROVE  InFlight'
<1> USE DEF Goto, Sender, Receiver, Actor
<1>1. /\ DOMAIN pc = Actor /\ DOMAIN word = Actor /\ DOMAIN queue = Slots
      /\ Slot(readpos) \in Slots /\ Slot(writepos) \in Slots
  BY SlotType DEF TypeOK, Position
<1> USE <1>1 DEF InFlight
<1>2. CASE WriteSlot
  <2>1. pc'[Sender] = "advance" /\ pc'[Receiver] = pc[Receiver]
    BY <1>2 DEF WriteSlot
  <2>2. queue'[Slot(writepos)] = word[Sender] /\ UNCHANGED <<readpos, writepos, word>>
    BY <1>2 DEF WriteSlot
  <2>3. ASSUME pc[Receiver] = "advance"
        PROVE  queue'[Slot(readpos)] = queue[Slot(readpos)]
    <3>1. Fill < Size /\ Fill > 0 /\ Fill \in Nat /\ readpos \in Int
      BY <1>2, <2>3, FillFacts DEF WriteSlot, ChecksHold, TypeOK, Position
    <3>2. Slot(readpos + 0) # Slot(writepos)
      BY <3>1, FreshSlot
    <3>3. Slot(readpos) # Slot(writepos)
      BY <3>1, <3>2
    <3> QED BY <1>2, <3>3 DEF WriteSlot
  <2> QED BY <2>1, <2>2, <2>3
<1>3. CASE ReadSlot
  BY <1>3 DEF ReadSlot, ring
<1>4. CASE AdvanceWrite
  BY <1>4 DEF AdvanceWrite
<1>5. CASE AdvanceRead
  BY <1>5 DEF AdvanceRead
<1>6. ASSUME NEW v \in Data, store32(v) PROVE InFlight'
  BY <1>6 DEF store32, Begin, ring
<1>7. CASE load32
  BY <1>7 DEF load32, Begin, ring
<1>8. CASE TestNotEmpty \/ TestSize \/ TestPop
  BY <1>8 DEF TestNotEmpty, TestSize, TestPop, Test, ring
<1>9. CASE Overflow \/ Underflow
  BY <1>9 DEF Overflow, Underflow, DebugBreak, ring
<1>10. ASSUME NEW a \in Actor, Finish(a) PROVE InFlight'
  BY <1>10 DEF Finish, StateEmpty, StateFullEmpty, StateFullSize, Report, Test,
     flag_fifo, fire, TakeSignals, jit_rebranch, ring
<1>11. CASE UNCHANGED vars
  BY <1>11 DEF vars
<1> QED
  BY <1>2, <1>3, <1>4, <1>5, <1>6, <1>7, <1>8, <1>9, <1>10, <1>11
     DEF Next, Push, Pop

-----------------------------------------------------------------------------
(* The inductive invariant holds in every reachable state.                 *)
THEOREM Inductive == Spec => []IInv
<1>1. Init => IInv
  <2> SUFFICES ASSUME Init PROVE IInv
    OBVIOUS
  <2>1. TypeOK
    BY InitType
  <2>2. Fill = 0 /\ empty(writepos, readpos) /\ Size > 0
    <3>1. Used(0, 0) = 0
      BY WrapFacts, UsedFacts DEF Position
    <3> QED BY <3>1, WrapFacts DEF Init, Fill, empty
  <2>3. /\ ChecksHold /\ ReceiverState /\ SenderState
        /\ Wakeups /\ SoloState /\ InFlight
    <3> HIDE DEF Fill
    <3> QED BY <2>2, WrapFacts
            DEF Init, Actor, Sender, Receiver, ChecksHold, ReceiverState,
                SenderState, Wakeups, SoloState, InFlight
  <2> QED BY <2>1, <2>3 DEF IInv
<1>2. IInv /\ [Next]_vars => IInv'
  BY TypeStep, ChecksHoldStep, ReceiverStateStep, SenderStateStep, WakeupsStep,
     SoloStateStep, InFlightStep DEF IInv
<1> QED BY <1>1, <1>2, PTL DEF Spec

(* The unguarded full and empty checks hold until they are used, so the    *)
(* counters of the two cores never cross, wrapped or not.                  *)
THEOREM NeverOverrun == Spec => []ChecksHold
<1>1. IInv => ChecksHold
  BY DEF IInv
<1> QED BY <1>1, Inductive, PTL

(* The two cores never access the same slot at the same time.              *)
THEOREM SlotsApart == Spec => []NoSlotRace
<1>1. IInv => NoSlotRace
  <2> SUFFICES ASSUME TypeOK, ChecksHold,
                      pc[Sender] = "access", pc[Receiver] = "access"
               PROVE  Slot(writepos) # Slot(readpos)
    BY DEF IInv, NoSlotRace
  <2>1. 0 < Fill /\ Fill < Size /\ Fill \in Nat
    BY FillFacts DEF ChecksHold
  <2>2. readpos \in Int /\ readpos \in Position /\ writepos \in Position
    BY DEF TypeOK, Position
  <2>3. Slot(readpos) # Slot(readpos + Fill)
    <3> HIDE DEF Fill
    <3> DEFINE b == readpos + Fill
    <3>1. b \in Int /\ readpos < b /\ b - readpos < Size
      BY <2>1, <2>2, WrapFacts
    <3> HIDE DEF b
    <3>2. Slot(readpos) # Slot(b)
      BY <2>2, <3>1, SlotApart
    <3> QED BY <3>2 DEF b
  <2> QED BY <2>2, <2>3, SlotOfFill DEF Fill
<1> QED BY <1>1, Inductive, PTL

(* A core may act on the state its own last handler computed.              *)
THEOREM StateIsTrusted == Spec => []OwnStateTrusted
<1>1. IInv => OwnStateTrusted
  BY DEF IInv, ReceiverState, SenderState, OwnStateTrusted, Busy
<1> QED BY <1>1, Inductive, PTL

(* No handler ends with its news untold.                                   *)
THEOREM NoWakeupLost == Spec => []NoLostWakeup
<1>1. IInv => NoLostWakeup
  BY DEF IInv, Wakeups, NoLostWakeup, Busy, AfterAdvance
<1> QED BY <1>1, Inductive, PTL

(* A handler that runs alone leaves the receiver's flags right.            *)
THEOREM FlagHeals == Spec => []FlagHealed
<1>1. IInv => FlagHealed
  BY DEF IInv, SoloState, FlagHealed
<1> QED BY <1>1, Inductive, PTL

-----------------------------------------------------------------------------
(* The words between the counters form a sequence.                         *)
LEMMA ContentsType ==
  ASSUME TypeOK, ChecksHold
  PROVE  Contents \in Seq(Data) /\ Len(Contents) = Fill
<1>1. Fill \in Nat /\ readpos \in Int
  BY FillFacts DEF TypeOK, Position
<1>2. ASSUME NEW i \in 1 .. Fill
      PROVE  queue[Slot(readpos + i - 1)] \in Data
  <2>1. readpos + i - 1 \in Int
    BY <1>1
  <2>2. Slot(readpos + i - 1) \in Slots
    BY <2>1, SlotType
  <2> QED BY <2>2 DEF TypeOK
<1> HIDE DEF Fill
<1> QED BY <1>1, <1>2 DEF Contents

(* An access that moves no counter leaves the words between them alone.    *)
LEMMA ContentsSame ==
  ASSUME TypeOK, ChecksHold, UNCHANGED <<readpos, writepos>>,
         \/ UNCHANGED queue
         \/ WriteSlot
  PROVE  Contents' = Contents
<1>1. Fill' = Fill /\ Fill \in Nat
  BY SameFill, FillFacts
<1>2. ASSUME NEW i \in 1 .. Fill
      PROVE  queue'[Slot(readpos + i - 1)] = queue[Slot(readpos + i - 1)]
  <2>1. CASE UNCHANGED queue
    BY <2>1
  <2>2. CASE WriteSlot
    <3>1. Fill < Size /\ i - 1 \in 0 .. Fill - 1 /\ readpos \in Int
      BY <1>1, <2>2 DEF WriteSlot, ChecksHold, TypeOK, Position
    <3>2. Slot(readpos + (i - 1)) # Slot(writepos)
      BY <3>1, FreshSlot
    <3>3. readpos + (i - 1) = readpos + i - 1
      BY <3>1
    <3>4. Slot(readpos + i - 1) \in Slots /\ queue \in [Slots -> Data]
      BY <3>1, SlotType DEF TypeOK
    <3> QED BY <2>2, <3>2, <3>3, <3>4 DEF WriteSlot
  <2> QED BY <2>1, <2>2
<1> HIDE DEF Fill
<1> QED BY <1>1, <1>2 DEF Contents

(* Advancing writepos accepts the word in flight.                          *)
LEMMA AdvanceWritePuts ==
  ASSUME IInv, AdvanceWrite, [Next]_vars
  PROVE  Ch!Put(word[Sender])
<1>1. TypeOK /\ ChecksHold /\ InFlight
  BY DEF IInv
<1>2. Fill' = Fill + 1 /\ Fill < Size /\ Fill \in Nat
  BY <1>1, FillStep, FillFacts
<1>3. queue' = queue /\ readpos' = readpos /\ value' = value
  BY DEF AdvanceWrite
<1>4. Contents \in Seq(Data) /\ Len(Contents) = Fill
  BY <1>1, ContentsType
<1>5. queue[Slot(readpos + Fill)] = word[Sender]
  <2>1. Slot(readpos + Fill) = Slot(writepos)
    BY <1>1, SlotOfFill DEF TypeOK, Fill
  <2> QED BY <1>1, <2>1 DEF InFlight, AdvanceWrite
<1>6. readpos \in Int
  BY <1>1 DEF TypeOK, Position
<1>7. Contents' = Append(Contents, word[Sender])
  <2>1. Contents' = [i \in 1 .. Fill + 1 |-> queue[Slot(readpos + i - 1)]]
    BY <1>2, <1>3 DEF Contents
  <2>2. readpos + (Fill + 1) - 1 = readpos + Fill
    BY <1>2, <1>6
  <2>3. Append(Contents, word[Sender]) =
          [i \in 1 .. Fill + 1 |-> IF i = Fill + 1 THEN word[Sender] ELSE Contents[i]]
    <3> HIDE DEF Contents, Fill
    <3> QED BY <1>2, <1>4
  <2>4. ASSUME NEW i \in 1 .. Fill + 1
        PROVE  queue[Slot(readpos + i - 1)] =
                 IF i = Fill + 1 THEN word[Sender] ELSE Contents[i]
    <3>1. CASE i = Fill + 1
      BY <3>1, <2>2, <1>5
    <3>2. CASE i # Fill + 1
      <4>1. i \in 1 .. Fill
        BY <1>2, <3>2
      <4> HIDE DEF Fill
      <4> QED BY <3>2, <4>1 DEF Contents
    <3> QED BY <3>1, <3>2
  <2> HIDE DEF Contents, Fill
  <2> QED BY <2>1, <2>3, <2>4
<1> QED BY <1>2, <1>3, <1>4, <1>7 DEF Ch!Put

(* Advancing readpos delivers the oldest word.                             *)
LEMMA AdvanceReadGets ==
  ASSUME IInv, AdvanceRead, [Next]_vars
  PROVE  Ch!Get
<1>1. TypeOK /\ ChecksHold /\ InFlight
  BY DEF IInv
<1>2. Fill' = Fill - 1 /\ Fill > 0 /\ Fill \in Nat
  BY <1>1, FillStep, FillFacts
<1>3. /\ queue' = queue /\ readpos' = Advance(readpos)
      /\ value' = queue[Slot(readpos)]
  BY <1>1 DEF AdvanceRead, InFlight
<1>4. Contents \in Seq(Data) /\ Len(Contents) = Fill
  BY <1>1, ContentsType
<1>5. readpos \in Int /\ readpos \in Position
  BY <1>1 DEF TypeOK, Position
<1>6. Contents # <<>>
  BY <1>2, <1>4
<1>7. value' = Head(Contents)
  <2>1. Contents[1] = queue[Slot(readpos + 1 - 1)]
    <3> HIDE DEF Fill
    <3> QED BY <1>2 DEF Contents
  <2>2. readpos + 1 - 1 = readpos
    BY <1>5
  <2>3. Head(Contents) = Contents[1]
    BY <1>4, <1>6
  <2> QED BY <1>3, <2>1, <2>2, <2>3
<1>8. Contents' = Tail(Contents)
  <2>1. Contents' = [i \in 1 .. Fill - 1 |-> queue[Slot(Advance(readpos) + i - 1)]]
    BY <1>2, <1>3 DEF Contents
  <2>2. Tail(Contents) = [i \in 1 .. Fill - 1 |-> Contents[i + 1]]
    <3> HIDE DEF Contents, Fill
    <3>1. /\ Tail(Contents) \in Seq(Data)
          /\ Len(Tail(Contents)) = Fill - 1
          /\ \A i \in 1 .. Len(Tail(Contents)) : Tail(Contents)[i] = Contents[i + 1]
      BY <1>4, <1>6, HeadTailProperties
    <3>2. Tail(Contents) \in [1 .. Len(Tail(Contents)) -> Data]
      BY <3>1, LenProperties
    <3> QED BY <3>1, <3>2
  <2>3. ASSUME NEW i \in 1 .. Fill - 1
        PROVE  queue[Slot(Advance(readpos) + i - 1)] = Contents[i + 1]
    <3>1. Slot(Advance(readpos) + (i - 1)) = Slot(readpos + 1 + (i - 1))
      BY <1>5, SlotAdvance
    <3>2. Advance(readpos) \in Int
      BY <1>5, AdvanceFacts DEF Position
    <3>3. /\ Advance(readpos) + (i - 1) = Advance(readpos) + i - 1
          /\ readpos + 1 + (i - 1) = readpos + (i + 1) - 1
      BY <1>5, <3>2
    <3>4. i + 1 \in 1 .. Fill
      BY <1>2
    <3>5. Contents[i + 1] = queue[Slot(readpos + (i + 1) - 1)]
      <4> HIDE DEF Fill
      <4> QED BY <3>4 DEF Contents
    <3> QED BY <3>1, <3>3, <3>5
  <2> HIDE DEF Contents, Fill
  <2> QED BY <2>1, <2>2, <2>3
<1> QED BY <1>6, <1>7, <1>8 DEF Ch!Get

(* The unguarded ring implements the bounded channel: every access is a    *)
(* step of the channel or invisible to it, so no word whose push completed *)
(* is lost, duplicated, reordered or torn.                                 *)
THEOREM ImplementsChannel == Spec => ChannelSpec
<1>1. Init => Ch!Init
  <2> SUFFICES ASSUME Init PROVE Ch!Init
    OBVIOUS
  <2>1. Fill = 0
    <3>1. Used(0, 0) = 0
      BY WrapFacts, UsedFacts DEF Position
    <3> QED BY <3>1 DEF Init, Fill
  <2>2. Contents = <<>>
    <3> HIDE DEF Fill
    <3> QED BY <2>1 DEF Contents
  <2> QED BY <2>2 DEF Init, Ch!Init
<1>2. IInv /\ [Next]_vars => [Ch!Next]_(Ch!vars)
  <2> SUFFICES ASSUME IInv, [Next]_vars
               PROVE  Ch!Next \/ UNCHANGED Ch!vars
    OBVIOUS
  <2>1. CASE AdvanceWrite
    <3>1. word[Sender] \in Data
      BY DEF IInv, TypeOK, Actor
    <3>2. Ch!Put(word[Sender])
      BY <2>1, AdvanceWritePuts
    <3> QED BY <3>1, <3>2 DEF Ch!Next
  <2>2. CASE AdvanceRead
    <3>1. Ch!Get
      BY <2>2, AdvanceReadGets
    <3> QED BY <3>1 DEF Ch!Next
  <2>3. ASSUME ~AdvanceWrite, ~AdvanceRead
        PROVE  UNCHANGED Ch!vars
    <3>1. TypeOK /\ ChecksHold
      BY DEF IInv
    <3>2. UNCHANGED <<readpos, writepos>>
      BY <2>3, <3>1, FillStep
    <3>3. value' = value /\ (UNCHANGED queue \/ WriteSlot)
      BY <2>3 DEF Next, Push, Pop, Finish, store32, load32, Begin, TestNotEmpty,
         TestSize, TestPop, Test, Overflow, Underflow, DebugBreak, WriteSlot,
         ReadSlot, StateEmpty, StateFullEmpty, StateFullSize, Report, flag_fifo,
         fire, TakeSignals, jit_rebranch, ring, vars
    <3>4. Contents' = Contents
      BY <3>1, <3>2, <3>3, ContentsSame
    <3> QED BY <3>3, <3>4 DEF Ch!vars
  <2> QED BY <2>1, <2>2, <2>3
<1> QED BY <1>1, <1>2, Inductive, PTL DEF Spec, ChannelSpec, Ch!Spec
=============================================================================
