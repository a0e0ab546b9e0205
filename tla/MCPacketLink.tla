---------------------------- MODULE MCPacketLink ----------------------------
(* Three requests; the reply to the second asks for no acknowledgement.     *)
EXTENDS PacketLink

Second == {2}
=============================================================================
