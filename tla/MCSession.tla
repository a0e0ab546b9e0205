------------------------------ MODULE MCSession ------------------------------
(***************************************************************************)
(* Instances of Session for TLC: where a Ctrl-C interrupt can be taken.    *)
(***************************************************************************)
EXTENDS SessionInvariants

\* Besides the inferior, the way from a command loop back to it.
WayBack == {"continuing", "resume"}

\* Every point at which CtrlC_enable can be found set.
AllWindows == {"load", "report", "loop_end", "enter", "continuing",
               "pre_run", "pexec", "unload", "resume"}
==============================================================================
