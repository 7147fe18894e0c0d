------------------------------- MODULE Debuggee -------------------------------
(***************************************************************************)
(* What a debugger's user expects of one emulated core: the program stops  *)
(* at every breakpoint, but for the one that it was stopped at and is told *)
(* to continue from, and stays where it is until it is continued.  There   *)
(* are no patched bytes, trap flags, copied contexts or events.            *)
(*                                                                         *)
(* A failure in one of the emulator's functions counts as one at the       *)
(* instruction that called it: it ends a step over that call, and while    *)
(* the line of a breakpoint there is skipped, the user does not see it.    *)
(***************************************************************************)
EXTENDS Naturals

CONSTANTS Addr,     \* the program's instructions
          Outside,  \* the emulator's own functions
          Line,     \* the instructions of a source line
          None

VARIABLES
  phase,    \* "runs", "stopped", or "undefined" when nothing is promised
  pos,      \* the next instruction
  caller,   \* of the function of the emulator that pos is in, or None
  pass,     \* it is executed although it has a breakpoint
  breaks,   \* the regular breakpoints
  once,     \* the one-time breakpoints of a step
  skipping, \* the line is being skipped
  soft      \* stopped by a software breakpoint in the emulator's functions

vars == <<phase, pos, caller, pass, breaks, once, skipping, soft>>

Breakpoints == breaks \cup once

\* Where the user sees the program.
Here == IF pos = Outside THEN caller ELSE pos

Init ==
  /\ phase = "runs"
  /\ pos = Outside
  /\ caller = None
  /\ pass = FALSE
  /\ breaks = {}
  /\ once = {}
  /\ skipping = FALSE
  /\ soft = FALSE

Run ==
  /\ phase = "runs"
  /\ pos \notin Breakpoints \/ pass
  /\ pos' \in Addr \cup {Outside}
  /\ caller' \in IF pos' = Outside THEN Addr \cup {None} ELSE {None}
  /\ pass' = FALSE
  /\ UNCHANGED <<phase, breaks, once, skipping, soft>>

\* An instruction that fails while it is passed is tried again, with its
\* breakpoint.
Retry ==
  /\ phase = "runs"
  /\ pass' = FALSE
  /\ UNCHANGED <<phase, pos, caller, breaks, once, skipping, soft>>

\* A breakpoint or a failure.  The one-time breakpoints go together.
Stop ==
  /\ phase = "runs"
  /\ ~pass
  /\ phase' = "stopped"
  /\ once' = IF Here \in once THEN {} ELSE once
  /\ soft' \in {FALSE, pos = Outside}
  /\ UNCHANGED <<pos, caller, pass, breaks, skipping>>

\* A breakpoint within the line that is being skipped, or a failure in a
\* function that was called there.
Skip ==
  /\ phase = "runs"
  /\ ~pass
  /\ skipping
  /\ Here \in Breakpoints \cap Line
  /\ once' \in SUBSET Addr
  /\ pass' = (pos \in breaks \cup once')
  /\ UNCHANGED <<phase, pos, caller, breaks, skipping, soft>>

Continue ==
  /\ phase = "stopped"
  /\ ~soft \/ pos = Outside
  /\ phase' = "runs"
  /\ once' \in SUBSET Addr
  /\ pass' = (pos \in breaks \cup once')
  /\ soft' = FALSE
  /\ skipping' \in {skipping, TRUE}
  /\ UNCHANGED <<pos, caller, breaks>>

\* Continuing a program that runs, or one that was moved away from a software
\* breakpoint.
Misuse ==
  /\ phase = "runs" \/ (soft /\ pos # Outside)
  /\ phase' = "undefined"
  /\ pos' = Outside
  /\ caller' = None
  /\ pass' = FALSE
  /\ breaks' = {}
  /\ once' = {}
  /\ skipping' = FALSE
  /\ soft' = FALSE

SetPC ==
  /\ phase = "stopped"
  /\ pos' \in Addr
  /\ UNCHANGED <<phase, caller, pass, breaks, once, skipping, soft>>

Toggle ==
  /\ phase # "undefined"
  /\ \E a \in Addr : breaks' = IF a \in breaks THEN breaks \ {a} ELSE breaks \cup {a}
  /\ UNCHANGED <<phase, pos, caller, pass, once, skipping, soft>>

Step ==
  /\ phase # "undefined"
  /\ once' \in SUBSET Addr
  /\ UNCHANGED <<phase, pos, caller, pass, breaks, skipping, soft>>

Next == \/ Run \/ Retry \/ Stop \/ Skip \/ Continue \/ Misuse
        \/ SetPC \/ Toggle \/ Step

Spec == Init /\ [][Next]_vars
===============================================================================
