------------------------------- MODULE MCFiber -------------------------------
EXTENDS Fiber
===============================================================================
