------------------------------- MODULE Channel -------------------------------
(***************************************************************************)
(* What one direction of the IPC link promises: a bounded channel that     *)
(* delivers every accepted word once and in order.  IpcFifo implements it. *)
(***************************************************************************)
EXTENDS Naturals, Sequences

CONSTANTS Capacity, Data, Zero

VARIABLES buffer,    \* words accepted and not yet delivered, oldest first
          delivered  \* the word delivered last

vars == <<buffer, delivered>>

Init == /\ buffer = <<>>
        /\ delivered = Zero

Put(v) == /\ Len(buffer) < Capacity
          /\ buffer' = Append(buffer, v)
          /\ UNCHANGED delivered

Get == /\ buffer # <<>>
       /\ delivered' = Head(buffer)
       /\ buffer' = Tail(buffer)

Next == \/ \E v \in Data : Put(v)
        \/ Get

Spec == Init /\ [][Next]_vars
=============================================================================
