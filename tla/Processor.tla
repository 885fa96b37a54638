------------------------------ MODULE Processor ------------------------------
(***************************************************************************)
(* What the drivers share.  One thread runs their functions step by step   *)
(* (todo holds what the running call still has to do); an interrupt that   *)
(* is enabled, pending and has an entry in the ROM's jump table is served  *)
(* before the thread's next step.  A step is a tuple of its name and what  *)
(* it is about.                                                            *)
(***************************************************************************)
EXTENDS Naturals, Sequences

VARIABLES todo,         \* the steps the running call has left
          enabled,      \* NVIC->ISER, as a set of interrupts
          pending,      \* the NVIC's pending latches
          hooked        \* the interrupts with an entry in the jump table

processor == <<todo, enabled, pending, hooked>>

Serving == enabled \cap pending \cap hooked

Call(steps) == todo = <<>> /\ Serving = {} /\ todo' = steps

Step(step) == todo # <<>> /\ Head(todo) = step /\ Serving = {} /\ todo' = Tail(todo)
==============================================================================
