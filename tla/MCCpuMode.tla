------------------------------ MODULE MCCpuMode ------------------------------
(* User, supervisor and fast interrupt mode, a mode field that loadcpsr    *)
(* does not know (0x17, the abort mode of the ARM manuals), and a register *)
(* of each class.                                                          *)
EXTENDS CpuMode
=============================================================================
