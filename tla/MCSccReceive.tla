---------------------------- MODULE MCSccReceive ----------------------------
(* A ring of four bytes; two kinds of bytes besides Ctrl-C tell an order.  *)
EXTENDS SccReceive

Line == {CtrlC, 97, 98}
=============================================================================
