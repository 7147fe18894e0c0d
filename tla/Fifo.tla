-------------------------------- MODULE Fifo --------------------------------
(***************************************************************************)
(* Arithmetic of the ring buffer template fifo<n> (Core/fifo.h).           *)
(*                                                                         *)
(* readpos and writepos are free running unsigned counters; the queue slot *)
(* is the counter modulo SIZE and the fill level is their unsigned         *)
(* difference.  In the code SIZE is 16 and a counter has 32 bits, so the   *)
(* counters wrap after 2^28 laps round the ring; here both are parameters. *)
(***************************************************************************)
EXTENDS Integers

CONSTANTS Size, \* enum { SIZE = n }
          Laps  \* laps round the ring before a counter wraps to 0

(* A single lap could not tell an empty ring from a full one.              *)
ASSUME FifoAssumption == /\ Size \in Nat \ {0}
                         /\ Laps \in Nat \ {0, 1}

Wrap == Size * Laps
Position == 0 .. Wrap - 1
Slots == 0 .. Size - 1

Slot(p) == p % Size

(* Mutant: a counter wider than the word it is stored in.                  *)
AdvanceUnwrapped(p) == p + 1
Advance(p) == (p + 1) % Wrap

(* The unsigned difference writepos - readpos, before size() reduces it.   *)
Used(w, r) == (w - r) % Wrap

size(w, r) == Used(w, r) % Size
empty(w, r) == w = r
full(w, r) == ~empty(w, r) /\ size(w, r) = 0

(* The bits get_fifostate() reports for these counter values.              *)
FifoState(w, r) == { f \in {"empty", "full"} :
                       IF f = "empty" THEN empty(w, r) ELSE full(w, r) }
=============================================================================
