------------------------------- MODULE IpcFifo -------------------------------
(***************************************************************************)
(* One direction of the IPC FIFO between the two ARM cores: the handler of *)
(* a store to IPCFIFOSEND on the sending core's thread (store32, case      *)
(* 0x188) against the handler of a load from IPCFIFORECV on the receiving  *)
(* core's thread (TRANSFER::load32).  Core/IORegs.cpp has the same two     *)
(* handlers for both directions; the directions share no state.            *)
(*                                                                         *)
(* Nothing guards the ring, so a step is one access to a counter, a slot,  *)
(* the receiver's ipc_fifocnt or a signaled word.  In particular full()    *)
(* reads the remote counter twice, once in empty() and once in size(), as  *)
(* the unoptimised build does; the optimised build, which merges the two   *)
(* reads, has a subset of these behaviours.  Stores are kept in program    *)
(* order, which the x86 hosts preserve.                                    *)
(***************************************************************************)
EXTENDS Fifo

CONSTANTS Data, \* words a program sends
          Zero  \* content of the never written slots (static storage)

ASSUME DataAssumption == Zero \in Data

Sender == "sender"
Receiver == "receiver"
Actor == {Sender, Receiver}
Other(a) == IF a = Sender THEN Receiver ELSE Sender

VARIABLES
  readpos, writepos, queue, \* the ring, owned by the sender's ioregs
  fifocnt,   \* bits 8 and 9 of the receiver's ipc_fifocnt
  signaled,  \* interrupts 17 and 18, pending at each actor
  pc,        \* next access of each actor's handler, "idle" outside one
  word,      \* the value each actor's handler carries
  value,     \* what the last completed load returned
  state,     \* each actor's last result of get_fifostate
  solo,      \* history: the last complete handler ran without overlap
  polled     \* history: signals taken since the other actor's last advance

ring == <<readpos, writepos, queue>>
history == <<solo, polled>>
vars == <<readpos, writepos, queue, fifocnt, signaled, pc, word, value, state,
          solo, polled>>

-----------------------------------------------------------------------------
Labels == {"idle", "broken",
           "full.empty", "full.size", "pop.empty", \* the guards
           "access", "advance",                    \* read() and write()
           "state.empty", "state.full.empty", "state.full.size",
           "flag", "fire"}

Flags == {"empty", "full"}

Busy(a) == pc[a] \notin {"idle", "broken"}
Goto(a, label) == pc' = [pc EXCEPT ![a] = label]

Init == /\ readpos = 0
        /\ writepos = 0
        /\ queue = [s \in Slots |-> Zero]
        /\ fifocnt = {}
        /\ signaled = [a \in Actor |-> {}]
        /\ pc = [a \in Actor |-> "idle"]
        /\ word = [a \in Actor |-> Zero]
        /\ value = Zero
        /\ state = [a \in Actor |-> {"empty"}]
        /\ solo = FALSE
        /\ polled = [a \in Actor |-> TRUE]

-----------------------------------------------------------------------------
(* The core's program issues the store or the load; only now may it        *)
(* overlap with a handler of the other core.                               *)
Begin(a, v, label) ==
  /\ pc[a] = "idle"
  /\ Goto(a, label)
  /\ word' = [word EXCEPT ![a] = v]
  /\ solo' = ~Busy(Other(a))
  /\ UNCHANGED <<ring, fifocnt, signaled, value, state, polled>>

store32(v) == Begin(Sender, v, "full.empty")
load32 == Begin(Receiver, word[Receiver], "pop.empty")

Test(a, here, there) ==
  /\ pc[a] = here
  /\ Goto(a, there)
  /\ UNCHANGED <<ring, fifocnt, signaled, word, value, state, history>>

(* DebugBreak_ faults and stops the core's fiber inside the handler.       *)
DebugBreak(a, here) ==
  /\ pc[a] = here
  /\ Goto(a, "broken")
  /\ solo' = FALSE
  /\ UNCHANGED <<ring, fifocnt, signaled, word, value, state, polled>>

(* The guard of push_fifo: full() is !empty() && size() == 0.              *)
TestNotEmpty ==
  Test(Sender, "full.empty",
       IF empty(writepos, readpos) THEN "access" ELSE "full.size")
(* Mutant: the result of full() is not looked at.                          *)
TestSizeIgnored == Test(Sender, "full.size", "access")
TestSize == /\ size(writepos, readpos) # 0
            /\ Test(Sender, "full.size", "access")
Overflow == /\ size(writepos, readpos) = 0
            /\ DebugBreak(Sender, "full.size")

(* The guard of pop_fifo and the break of its caller.                      *)
(* Mutant: the caller of pop_fifo relies on its flags alone.               *)
TestPopSkipped == Test(Receiver, "pop.empty", "access")
TestPop == /\ ~empty(writepos, readpos)
           /\ Test(Receiver, "pop.empty", "access")
Underflow == /\ empty(writepos, readpos)
             /\ DebugBreak(Receiver, "pop.empty")

(* fifo::write stores into the slot, then advances writepos.               *)
(* Mutant: write() advances before it stores.                              *)
WriteSlotAhead ==
  /\ pc[Sender] = "access"
  /\ queue' = [queue EXCEPT ![Slot(Advance(writepos))] = word[Sender]]
  /\ Goto(Sender, "advance")
  /\ UNCHANGED <<readpos, writepos, fifocnt, signaled, word, value, state, history>>
WriteSlot ==
  /\ pc[Sender] = "access"
  /\ queue' = [queue EXCEPT ![Slot(writepos)] = word[Sender]]
  /\ Goto(Sender, "advance")
  /\ UNCHANGED <<readpos, writepos, fifocnt, signaled, word, value, state, history>>
AdvanceWrite ==
  /\ pc[Sender] = "advance"
  /\ writepos' = Advance(writepos)
  /\ Goto(Sender, "state.empty")
  /\ polled' = [polled EXCEPT ![Receiver] = FALSE]
  /\ UNCHANGED <<readpos, queue, fifocnt, signaled, word, value, state, solo>>

(* fifo::read copies the slot, then advances readpos.                      *)
ReadSlot ==
  /\ pc[Receiver] = "access"
  /\ word' = [word EXCEPT ![Receiver] = queue[Slot(readpos)]]
  /\ Goto(Receiver, "advance")
  /\ UNCHANGED <<ring, fifocnt, signaled, value, state, history>>
AdvanceRead ==
  /\ pc[Receiver] = "advance"
  /\ readpos' = Advance(readpos)
  /\ value' = word[Receiver]
  /\ Goto(Receiver, "state.empty")
  /\ polled' = [polled EXCEPT ![Sender] = FALSE]
  /\ UNCHANGED <<writepos, queue, fifocnt, signaled, word, state, solo>>

(* get_fifostate: empty(), then full() with its own two reads.             *)
Report(a, here, s, there) ==
  /\ pc[a] = here
  /\ state' = [state EXCEPT ![a] = s]
  /\ Goto(a, there)
  /\ UNCHANGED <<ring, fifocnt, signaled, word, value, history>>
(* Mutant: a fifo with one word left is reported empty, and the reverse.   *)
StateEmptyInverted(a) ==
  Report(a, "state.empty",
         IF empty(writepos, readpos) THEN {} ELSE {"empty"}, "state.full.empty")
StateEmpty(a) ==
  Report(a, "state.empty",
         IF empty(writepos, readpos) THEN {"empty"} ELSE {}, "state.full.empty")
StateFullEmpty(a) ==
  Test(a, "state.full.empty",
       IF empty(writepos, readpos) THEN "flag" ELSE "state.full.size")
(* Mutant: the full bit is forgotten.                                      *)
StateEmptyOnly(a) == Report(a, "state.full.size", state[a], "flag")
StateFullSize(a) ==
  Report(a, "state.full.size",
         IF size(writepos, readpos) = 0 THEN state[a] \cup {"full"} ELSE state[a],
         "flag")

(* flag_fifo replaces both bits in the receiver's ipc_fifocnt; its read of *)
(* the other bits does not matter, as no code writes those.                *)
(* Mutant: the old bits are not masked out.                                *)
flag_fifo_unmasked(a) ==
  /\ pc[a] = "flag"
  /\ fifocnt' = fifocnt \cup state[a]
  /\ Goto(a, "fire")
  /\ UNCHANGED <<ring, signaled, word, value, state, history>>
flag_fifo(a) ==
  /\ pc[a] = "flag"
  /\ fifocnt' = state[a]
  /\ Goto(a, "fire")
  /\ UNCHANGED <<ring, signaled, word, value, state, history>>

(* The sender fires interrupt 18 always, the receiver 17 if it saw the     *)
(* fifo drained; the handler ends here.                                    *)
(* Mutant: a word is announced only to a receiver that had none.           *)
FiredOnEmpty(a) == IF "empty" \notin state[a] THEN {}
                   ELSE IF a = Sender THEN {18} ELSE {17}
Fired(a) == IF a = Sender THEN {18}
            ELSE IF "empty" \in state[a] THEN {17} ELSE {}
fire(a) ==
  /\ pc[a] = "fire"
  /\ signaled' = [signaled EXCEPT ![Other(a)] = @ \cup Fired(a)]
  /\ Goto(a, "idle")
  /\ UNCHANGED <<ring, fifocnt, word, value, state, history>>

(* The exchange with which poll_process takes the pending signals, when    *)
(* the core branches between two handlers; see module Interrupt.           *)
TakeSignals(a) ==
  /\ pc[a] = "idle"
  /\ signaled' = [signaled EXCEPT ![a] = {}]
  /\ polled' = [polled EXCEPT ![a] = TRUE]
  /\ UNCHANGED <<ring, fifocnt, pc, word, value, state, solo>>

(* The user moves the stopped core to another address (SetPC): the handler *)
(* is abandoned where it broke.                                            *)
jit_rebranch(a) == Test(a, "broken", "idle")

-----------------------------------------------------------------------------
Push == \/ \E v \in Data : store32(v)
        \/ TestNotEmpty \/ TestSize \/ Overflow
        \/ WriteSlot \/ AdvanceWrite

Pop == \/ load32
       \/ TestPop \/ Underflow
       \/ ReadSlot \/ AdvanceRead

Finish(a) == \/ StateEmpty(a) \/ StateFullEmpty(a) \/ StateFullSize(a)
             \/ flag_fifo(a) \/ fire(a)
             \/ TakeSignals(a) \/ jit_rebranch(a)

Next == Push \/ Pop \/ \E a \in Actor : Finish(a)

Spec == Init /\ [][Next]_vars

-----------------------------------------------------------------------------
(* Types of all variables, counters included: no counter leaves its width. *)
TypeOK == /\ readpos \in Position
          /\ writepos \in Position
          /\ queue \in [Slots -> Data]
          /\ fifocnt \in SUBSET Flags
          /\ signaled \in [Actor -> SUBSET {17, 18}]
          /\ pc \in [Actor -> Labels]
          /\ word \in [Actor -> Data]
          /\ value \in Data
          /\ state \in [Actor -> SUBSET Flags]
          /\ solo \in BOOLEAN
          /\ polled \in [Actor -> BOOLEAN]

Fill == Used(writepos, readpos)
Current == FifoState(writepos, readpos)
AtRest == \A a \in Actor : ~Busy(a)

(* The unguarded checks of push_fifo and pop_fifo stay good until they are *)
(* used: a sender past full() has a free slot and a receiver past empty()  *)
(* has a word, whatever the other core did in between, so the counters     *)
(* never cross even when they wrap.                                        *)
ChecksHold == /\ Fill <= Size
              /\ pc[Sender] \in {"access", "advance"} => Fill < Size
              /\ pc[Receiver] \in {"access", "advance"} => Fill > 0

(* The slot fifo::write stores into is never the slot fifo::read copies.   *)
NoSlotRace == (pc[Sender] = "access" /\ pc[Receiver] = "access")
                => Slot(writepos) # Slot(readpos)

(* A core may trust the state its own last handler computed: words a       *)
(* receiver saw stay until it pops them, room a sender saw stays until it  *)
(* pushes, although full() is torn and the other core goes on.             *)
OwnStateTrusted ==
  /\ (~Busy(Receiver) /\ "empty" \notin state[Receiver]) => Fill > 0
  /\ (~Busy(Sender) /\ "full" \notin state[Sender]) => Fill < Size

(* No lost wakeup: a receiver that has words it has not been told of has   *)
(* interrupt 18 pending once the sender's handler is over, and a sender    *)
(* whose fifo drained has 17 pending once the receiver's handler is over,  *)
(* unless it has taken its signals since (fire comes after the counter).   *)
NoLostWakeup ==
  /\ ~Busy(Sender) => polled[Receiver] \/ 18 \in signaled[Receiver]
  /\ (~Busy(Receiver) /\ Fill = 0) => polled[Sender] \/ 17 \in signaled[Sender]

(* Whatever overlaps left in the receiver's flags, one handler that runs   *)
(* alone to its end repairs them: they are the state of the ring again.    *)
FlagHealed == (AtRest /\ solo) => fifocnt = Current

(* The inductive strengthening of the invariants above: what each handler  *)
(* has established at each of its accesses.                                *)
AfterAdvance == {"state.empty", "state.full.empty", "state.full.size",
                 "flag", "fire"}

ReceiverState ==
  (/\ pc[Receiver] \notin {"access", "advance", "state.empty"}
   /\ "empty" \notin state[Receiver]) => Fill > 0

SenderState ==
  (/\ pc[Sender] \notin {"access", "advance", "state.empty",
                         "state.full.empty", "state.full.size"}
   /\ "full" \notin state[Sender]) => Fill < Size

Wakeups ==
  /\ pc[Sender] \notin AfterAdvance => polled[Receiver] \/ 18 \in signaled[Receiver]
  /\ (pc[Receiver] \notin AfterAdvance /\ Fill = 0)
       => polled[Sender] \/ 17 \in signaled[Sender]

SoloState ==
  solo =>
    /\ ~(Busy(Sender) /\ Busy(Receiver))
    /\ \A a \in Actor :
         /\ pc[a] = "state.full.empty" =>
              state[a] = IF empty(writepos, readpos) THEN {"empty"} ELSE {}
         /\ pc[a] = "state.full.size" =>
              state[a] = {} /\ ~empty(writepos, readpos)
         /\ pc[a] = "flag" => state[a] = Current
         /\ pc[a] = "fire" => fifocnt = Current
    /\ AtRest => fifocnt = Current

(* The slot under a word in flight holds that word.                        *)
InFlight ==
  /\ pc[Sender] = "advance" => queue[Slot(writepos)] = word[Sender]
  /\ pc[Receiver] = "advance" => queue[Slot(readpos)] = word[Receiver]

IInv == /\ TypeOK /\ ChecksHold /\ ReceiverState /\ SenderState
        /\ Wakeups /\ SoloState /\ InFlight

-----------------------------------------------------------------------------
(* The words between the counters, oldest first.                           *)
Contents == [i \in 1 .. Fill |-> queue[Slot(readpos + i - 1)]]

Ch == INSTANCE Channel WITH Capacity <- Size, buffer <- Contents,
                            delivered <- value

(* The ring is a bounded channel: every word whose push completed is       *)
(* delivered once, in order and unchanged.                                 *)
ChannelSpec == Ch!Spec
=============================================================================
