----------------------------- MODULE MCInterrupt -----------------------------
(* Two interrupts and a banked register.  The program uses user mode and   *)
(* supervisor mode; in the liveness run it may also break on a mode field  *)
(* that loadcpsr does not know.                                            *)
EXTENDS Interrupt
=============================================================================
