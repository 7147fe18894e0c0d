------------------------------ MODULE MCJitPage ------------------------------
(* Both cores, both instruction sets and the user interface on one page.   *)
(* Nothing in JitPage tells one core, or one instruction set, from another.*)
EXTENDS JitPage, TLC

Symmetry == Permutations(Core) \cup Permutations(ISA)
=============================================================================
