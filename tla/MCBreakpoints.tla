---------------------------- MODULE MCBreakpoints ----------------------------
(***************************************************************************)
(* An inferior of three words: the start breakpoint at 4, a trap #0 of the  *)
(* program at 8.  gdb also asks for breakpoints at an odd address, below   *)
(* the program and at its end.  The table has two slots: a repeated Z fills*)
(* it, and after one z another address shares it with the slot left over.  *)
(***************************************************************************)
EXTENDS Breakpoints

AnyTarget == {2, 4, 5, 6, 8, 10}
==============================================================================
