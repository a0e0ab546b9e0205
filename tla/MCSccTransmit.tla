---------------------------- MODULE MCSccTransmit ----------------------------
(* A ring of four bytes; two kinds of bytes tell an order.                  *)
EXTENDS SccTransmit

TwoBytes == {97, 98}
==============================================================================
