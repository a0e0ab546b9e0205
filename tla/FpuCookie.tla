------------------------------- MODULE FpuCookie -------------------------------
(***************************************************************************)
(* Cookie_FPU of gdbserver/cookies.c, which the description of the         *)
(* registers and the packets that transfer them look at each for itself.   *)
(***************************************************************************)
VARIABLE fpu   \* the _FPU cookie has one of the bits that count
===============================================================================
