---------------------------- MODULE RegisterFile ----------------------------
(***************************************************************************)
(* What the contexts of a core stand for: the register file of the ARM     *)
(* architecture, as each mode sees it.  r0-r7 and r15 are one register for *)
(* all modes, r8-r12 are one for all modes but fast interrupt mode, which  *)
(* has its own, r13 and r14 exist once per mode.                           *)
(***************************************************************************)
EXTENDS Integers

CONSTANTS Reg, Data, Zero

Mode == 0 .. 5
User == 0
FastInterrupt == 5

(* Register r of mode m is register r of mode x.                           *)
Shared(r, m, x) == \/ r < 8 \/ r = 15
                   \/ r \in 8 .. 12 /\ (m = FastInterrupt <=> x = FastInterrupt)
                   \/ m = x

VARIABLES current, \* the current mode
          view     \* the registers every mode sees

vars == <<current, view>>

Init == /\ current = User
        /\ view = [m \in Mode |-> [r \in Reg |-> Zero]]

(* An instruction writes v to the registers of list, as those of mode m.   *)
WriteAs(m, list, v) ==
  /\ view' = [x \in Mode |-> [r \in Reg |-> IF r \in list /\ Shared(r, m, x)
                                            THEN v ELSE view[x][r]]]
  /\ UNCHANGED current

(* A mode switch changes no register of any mode.                          *)
Enter(m) == /\ current' = m
            /\ UNCHANGED view

Next == \/ \E list \in SUBSET Reg, v \in Data :
             WriteAs(current, list, v) \/ WriteAs(User, list, v)
        \/ \E m \in Mode : Enter(m)

Spec == Init /\ [][Next]_vars
=============================================================================
