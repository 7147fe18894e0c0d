--------------------------------- MODULE Fiber ---------------------------------
(***************************************************************************)
(* How the thread of an emulated core (WinFiber) and the user interface    *)
(* hand the program to each other.  A breakpoint is a patched byte; the    *)
(* thread that runs into it, or fails otherwise, copies its registers, is  *)
(* asked by runner<T>::internal_cb what to do, and waits for an event.     *)
(* jit_continue takes the breakpoint out, sets the copy's trap flag and    *)
(* signals the event; the exception after the next instruction puts the    *)
(* breakpoint back.                                                        *)
(*                                                                         *)
(* jit_continue looks at nothing but the copy, so it can be called while   *)
(* the thread runs.  undefined becomes TRUE then, and everything else that *)
(* is left unpromised follows it.                                          *)
(*                                                                         *)
(* A failure in one of the emulator's functions is taken for one at the    *)
(* instruction that called it, which is looked for on the stack: there the *)
(* breakpoint is looked up that internal_cb triggers, not the one that     *)
(* jit_continue takes out.                                                 *)
(*                                                                         *)
(* An instruction is one host instruction.  Breakpoints here are set on    *)
(* compiled code and none is set twice (see Breakpoint).                   *)
(***************************************************************************)
EXTENDS Naturals

CONSTANTS Addr,     \* the program's instructions, in one compiled page
          Outside,  \* the emulator's own functions
          Line,     \* the instructions of a source line
          None

ASSUME OutsideAssumption == Outside \notin Addr
ASSUME NoneAssumption == None \notin Addr \cup {Outside}
ASSUME LineAssumption == Line \subseteq Addr

VARIABLES
  thread,   \* "running", "failed" (in handle_failure), "signalling" the event
            \* itself, or "waiting" for it
  eip,      \* the processor's registers, in the exception's record while the
  trap,     \* thread does not run: position and trap flag
  caller,   \* the first word on its stack that points into the page's code,
            \* or None, for as long as it is Outside
  context,  \* Fiber::context, the copy of these
  cont,     \* the event
  byte,     \* the positions that hold DEBUG_BREAK
  breaks,   \* the regular breakpoints in the debugger table
  once,     \* the one-time breakpoints in it
  last,     \* last_error, the breakpoint of the last stop
  repatch,  \* the breakpoint that is taken out
  skip,     \* skip_instructions
  skipsrc,  \* whether the line is being skipped
  told,     \* the user interface was told of a stop and has not continued
  ui,       \* "idle", "signalling", "source" (the same, of a source step) or
            \* "stepping" (the rest of the source step)
  undefined \* history: continued while it was not stopped, or into the
            \* middle of an instruction

registers == <<eip, trap, caller>>
table == <<byte, breaks, once>>
vars == <<thread, registers, context, cont, table, last, repatch, skip, skipsrc,
          told, ui, undefined>>

Place == Addr \cup {Outside}

(* The thread begins with a failure of its own (entry), below no compiled  *)
(* code.  That failure triggers nothing (initialized).                     *)
Init ==
  /\ thread = "failed"
  /\ eip = Outside
  /\ trap = FALSE
  /\ caller = None
  /\ context = [eip |-> Outside, trap |-> FALSE]
  /\ cont = FALSE
  /\ byte = {}
  /\ breaks = {}
  /\ once = {}
  /\ last = None
  /\ repatch = None
  /\ skip = FALSE
  /\ skipsrc = FALSE
  /\ told = FALSE
  /\ ui = "idle"
  /\ undefined = FALSE

-----------------------------------------------------------------------------
(* One instruction of the program or some of the emulator's functions,     *)
(* which may leave any word on the stack.  With the trap flag an exception *)
(* follows it, which clears the flag.                                      *)
Execute ==
  /\ thread = "running"
  /\ eip \notin byte
  /\ eip' \in Place
  /\ caller' \in IF eip' = Outside THEN Addr \cup {None} ELSE {None}
  /\ IF trap
     THEN /\ thread' = "failed"
          /\ trap' = FALSE
          /\ context' = [eip |-> eip', trap |-> FALSE]
     ELSE UNCHANGED <<thread, trap, context>>
  /\ UNCHANGED <<cont, table, last, repatch, skip, skipsrc, told, ui, undefined>>

(* DEBUG_BREAK, another instruction that fails, or, in debug_magic, a      *)
(* software breakpoint, which is to be skipped.                            *)
Fail ==
  /\ thread = "running"
  /\ thread' = "failed"
  /\ context' = [eip |-> eip, trap |-> trap]
  /\ skip' \in {skip, skip \/ eip = Outside}
  /\ UNCHANGED <<registers, cont, table, last, repatch, skipsrc, told, ui, undefined>>

-----------------------------------------------------------------------------
(* set_onetime, which forgets the one-time breakpoints there were.         *)
SetOnce(P) ==
  /\ once' = P
  /\ byte' = (byte \ once) \cup P

(* At most two, not where a regular one is or the program has stopped.     *)
Steps == {P \in SUBSET (Addr \ (breaks \cup {context.eip, repatch})) :
            \E a, b \in Addr : P \subseteq {a, b}}

(* jit_continue up to do_continue, when the bytes are b and the one-time   *)
(* breakpoints o.                                                          *)
(* Mutant: the trap flag is not set.                                       *)
Take_untrapped(b, o) ==
  LET hit == context.eip \in breaks \cup o
  IN  /\ byte' = IF hit THEN b \ {context.eip} ELSE b
      /\ repatch' = IF hit THEN context.eip ELSE repatch
      /\ skip' = FALSE
      /\ UNCHANGED context
Take(b, o) ==
  LET hit == context.eip \in breaks \cup o
  IN  /\ byte' = IF hit THEN b \ {context.eip} ELSE b
      /\ repatch' = IF hit THEN context.eip ELSE repatch
      /\ context' = IF hit THEN [context EXCEPT !.trap = TRUE] ELSE context
      /\ skip' = FALSE

(* internal_cb after the instruction without its breakpoint.               *)
(* Mutant: the event is not signalled.                                     *)
PutBack_silent ==
  /\ thread = "failed"
  /\ repatch # None
  /\ byte' = byte \cup {repatch}
  /\ repatch' = None
  /\ thread' = "waiting"
  /\ UNCHANGED <<registers, context, cont, breaks, once, last, skip, skipsrc, told, ui,
                 undefined>>
PutBack ==
  /\ thread = "failed"
  /\ repatch # None
  /\ byte' = byte \cup {repatch}
  /\ repatch' = None
  /\ thread' = "signalling"
  /\ UNCHANGED <<registers, context, cont, breaks, once, last, skip, skipsrc, told, ui,
                 undefined>>

(* The position in the page's code that the stop is for: a return address  *)
(* when it is Outside, None when the walk of the stack comes to its end.   *)
(* Mutant: without the walk.                                               *)
resolve_eip_v2_unwalked == IF context.eip = Outside THEN None ELSE context.eip
resolve_eip_v2 == IF context.eip = Outside THEN caller ELSE context.eip

(* trigger: the breakpoint that was hit is remembered, and a one-time      *)
(* breakpoint goes with the others.                                        *)
Hit == resolve_eip_v2 \in breaks \cup once
trigger ==
  /\ last' = IF Hit THEN resolve_eip_v2 ELSE None
  /\ once' = IF resolve_eip_v2 \in once THEN {} ELSE once
  /\ byte' = IF resolve_eip_v2 \in once THEN byte \ once ELSE byte

(* internal_cb otherwise: the user interface is told, ...                  *)
Tell ==
  /\ thread = "failed"
  /\ repatch = None
  /\ ~(skipsrc /\ Hit /\ resolve_eip_v2 \in Line)
  /\ trigger
  /\ told' = TRUE
  /\ thread' = "waiting"
  /\ UNCHANGED <<registers, context, cont, breaks, repatch, skip, skipsrc, ui, undefined>>

(* ... but within the line that is skipped, where it goes on (skipcb): from *)
(* a breakpoint or, untold, from a failure in a function called there.     *)
(* Mutant: the event is not signalled.                                     *)
SkipOn_silent ==
  /\ thread = "failed"
  /\ repatch = None
  /\ skipsrc /\ Hit /\ resolve_eip_v2 \in Line
  /\ last' = resolve_eip_v2
  /\ \E P \in Steps : once' = P /\ Take((byte \ once) \cup P, P)
  /\ thread' = "waiting"
  /\ UNCHANGED <<registers, cont, breaks, skipsrc, told, ui, undefined>>
SkipOn ==
  /\ thread = "failed"
  /\ repatch = None
  /\ skipsrc /\ Hit /\ resolve_eip_v2 \in Line
  /\ last' = resolve_eip_v2
  /\ \E P \in Steps : once' = P /\ Take((byte \ once) \cup P, P)
  /\ thread' = "signalling"
  /\ UNCHANGED <<registers, cont, breaks, skipsrc, told, ui, undefined>>

Signal ==
  /\ thread = "signalling"
  /\ cont' = TRUE
  /\ thread' = "waiting"
  /\ UNCHANGED <<registers, context, table, last, repatch, skip, skipsrc, told, ui, undefined>>

(* The event resets itself.                                                *)
(* Mutant: the registers are not those of the copy.                        *)
Resume_uncopied ==
  /\ thread = "waiting"
  /\ cont
  /\ cont' = FALSE
  /\ thread' = "running"
  /\ UNCHANGED <<registers, context, table, last, repatch, skip, skipsrc, told, ui, undefined>>
Resume ==
  /\ thread = "waiting"
  /\ cont
  /\ cont' = FALSE
  /\ eip' = context.eip
  /\ trap' = context.trap
  /\ thread' = "running"
  /\ UNCHANGED <<caller, context, table, last, repatch, skip, skipsrc, told, ui, undefined>>

-----------------------------------------------------------------------------
(* Continue, at any time: nothing tells whether the thread has stopped.    *)
Continued ==
  /\ told' = FALSE
  /\ undefined' = (undefined \/ ~told \/ (skip /\ context.eip # Outside))

Continue ==
  /\ ui = "idle"
  /\ Take(byte, once)
  /\ Continued
  /\ ui' = "signalling"
  /\ UNCHANGED <<thread, registers, cont, breaks, once, last, skipsrc>>

(* A source step continues by itself (skipline) and then, while the        *)
(* program runs, places the breakpoint of a plain step.                    *)
SourceStep ==
  /\ ui = "idle"
  /\ told
  /\ last \in Line
  /\ skipsrc' = TRUE
  /\ \E P \in Steps : once' = P /\ Take((byte \ once) \cup P, P)
  /\ Continued
  /\ ui' = "source"
  /\ UNCHANGED <<thread, registers, cont, breaks, last>>

SignalUI ==
  /\ ui \in {"signalling", "source"}
  /\ cont' = TRUE
  /\ ui' = IF ui = "source" THEN "stepping" ELSE "idle"
  /\ UNCHANGED <<thread, registers, context, table, last, repatch, skip, skipsrc, told, undefined>>

PlainStep ==
  /\ ui = "stepping"
  /\ \E P \in {{}} \cup {{a} : a \in Addr \ (breaks \cup {repatch})} : SetOnce(P)
  /\ ui' = "idle"
  /\ UNCHANGED <<thread, registers, context, cont, breaks, last, repatch, skip, skipsrc, told,
                 undefined>>

(* Of a stopped program.                                                   *)
step ==
  /\ ui = "idle"
  /\ told
  /\ \E P \in Steps : SetOnce(P)
  /\ UNCHANGED <<thread, registers, context, cont, breaks, last, repatch, skip, skipsrc, told, ui,
                 undefined>>

jit_rebranch(a) ==
  /\ ui = "idle"
  /\ told
  /\ context' = [context EXCEPT !.eip = a]
  /\ UNCHANGED <<thread, registers, cont, table, last, repatch, skip, skipsrc, told, ui, undefined>>

(* At any time; not the one breakpoint that is taken out.                  *)
Toggle(a) ==
  /\ ui = "idle"
  /\ a \notin once \cup {repatch}
  /\ IF a \in breaks
     THEN breaks' = breaks \ {a} /\ byte' = byte \ {a}
     ELSE breaks' = breaks \cup {a} /\ byte' = byte \cup {a}
  /\ UNCHANGED <<thread, registers, context, cont, once, last, repatch, skip, skipsrc, told, ui,
                 undefined>>

-----------------------------------------------------------------------------
Handler == PutBack \/ Tell \/ SkipOn \/ Signal \/ Resume
Thread == Execute \/ Fail \/ Handler
UserInterface == \/ Continue \/ SourceStep \/ SignalUI \/ PlainStep \/ step
                 \/ \E a \in Addr : jit_rebranch(a) \/ Toggle(a)
Next == Thread \/ UserInterface

Spec == Init /\ [][Next]_vars

(* The thread in its handler and the user interface in its call are        *)
(* scheduled as long as they can go on.  The program owes nothing.         *)
FairSpec == Spec /\ WF_vars(Handler) /\ WF_vars(SignalUI)

-----------------------------------------------------------------------------
TypeOK ==
  /\ thread \in {"running", "failed", "signalling", "waiting"}
  /\ eip \in Place
  /\ trap \in BOOLEAN
  /\ caller \in Addr \cup {None}
  /\ context \in [eip : Place, trap : BOOLEAN]
  /\ cont \in BOOLEAN
  /\ byte \subseteq Addr
  /\ breaks \subseteq Addr
  /\ once \subseteq Addr
  /\ last \in Addr \cup {None}
  /\ repatch \in Addr \cup {None}
  /\ skip \in BOOLEAN
  /\ skipsrc \in BOOLEAN
  /\ told \in BOOLEAN
  /\ ui \in {"idle", "signalling", "source", "stepping"}
  /\ undefined \in BOOLEAN

(* The thread never waits for good: the user interface knows that it has   *)
(* stopped, has called jit_continue, or the event is set.  This holds even *)
(* when the program is continued while it runs ("access to the context is  *)
(* only valid while not in running state", osdep.h): two events that merge *)
(* lose no stop, as the breakpoint is met again.                           *)
NeverForgotten ==
  thread = "waiting" => told \/ cont \/ ui \in {"signalling", "source"}

(* What is strengthened: who has the program, and ...                      *)
Handover ==
  /\ thread = "waiting" =>
       \/ told /\ ~cont /\ ui \in {"idle", "stepping"} /\ repatch = None
       \/ ~told /\ cont /\ ui \in {"idle", "stepping"}
       \/ ~told /\ ~cont /\ ui \in {"signalling", "source"}
  /\ thread # "waiting" => ~told /\ ~cont /\ ui \in {"idle", "stepping"}

(* ... that a breakpoint that is taken out is at the next instruction,     *)
(* which is trapped, and the others are patched.                           *)
Patched ==
  /\ byte = (breaks \cup once) \ {repatch}
  /\ breaks \cap once = {}
  /\ repatch # None =>
       /\ repatch \in breaks \cup once
       /\ thread = "running" => trap /\ eip = repatch
       /\ thread \in {"signalling", "waiting"} => context.trap /\ context.eip = repatch
  /\ ui \in {"source", "stepping"} => repatch \notin once
  /\ skip => repatch = None /\ (thread = "failed" \/ told)
  /\ skip /\ thread = "failed" => context.eip = Outside

IInv == TypeOK /\ NeverForgotten /\ (undefined \/ (Handover /\ Patched))

(* The program that the user sees.  It is in the processor's registers     *)
(* while the thread runs, else in their copy.                              *)
Phase == IF undefined THEN "undefined" ELSE IF told THEN "stopped" ELSE "runs"
Pos == IF undefined THEN Outside ELSE IF thread = "running" THEN eip ELSE context.eip
Caller == IF undefined THEN None ELSE caller
Pass == ~undefined /\ repatch # None /\ thread # "failed"
Regular == IF undefined THEN {} ELSE breaks
Once == IF undefined THEN {} ELSE once
Skipping == ~undefined /\ skipsrc
Soft == ~undefined /\ told /\ skip

Promise == INSTANCE Debuggee WITH
  phase <- Phase, pos <- Pos, caller <- Caller, pass <- Pass, breaks <- Regular, once <- Once,
  skipping <- Skipping, soft <- Soft

(* Patched bytes, a trap flag, a copy of the registers and an event make a *)
(* program that stops at its breakpoints, passes only the one it continues *)
(* from, takes a failure Outside for one at its caller and nowhere else,   *)
(* and stays stopped (jit_continue, internal_cb, resolve_eip_v2).          *)
PromiseSpec == Promise!Spec

(* Who calls jit_continue sees the thread run, and the exception after the *)
(* instruction without its breakpoint does not hold it (internal_cb).      *)
Resumes ==
  /\ ui \in {"signalling", "source"} ~> thread = "running"
  /\ thread = "failed" /\ repatch # None ~> thread = "running"
===============================================================================
