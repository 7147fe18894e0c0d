------------------------------ MODULE MCBreakpoint ------------------------------
EXTENDS Breakpoint
=============================================================================
