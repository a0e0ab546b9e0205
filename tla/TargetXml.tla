------------------------------ MODULE TargetXml ------------------------------
(***************************************************************************)
(* The target description of gdbserver/target_xml.c as gdb reads it with   *)
(* qXfer packets: WriteTargetXML of gdbserver/packet.c copies a chunk out  *)
(* of a text that lies in several parts.                                   *)
(*                                                                         *)
(* A character is its position in the whole text, so that a text is intact *)
(* if its n-th character is n.  Hexadecimal numbers and the escaping of    *)
(* the reply are left out: the text has none of the characters that need   *)
(* it.                                                                     *)
(***************************************************************************)
EXTENDS FpuCookie, Naturals, Sequences

CONSTANTS HeaderLen, CpuLen, FpuLen, FooterLen,  \* lengths of the parts
          PacketSize,  \* PACKET_SIZE, which the server announces to gdb
          MaxRead,     \* PACKET_SIZE - 20
          ReadLens     \* how much gdb asks for at a time

ASSUME PartsAssumption ==
  /\ HeaderLen \in Nat \ {0} /\ CpuLen \in Nat \ {0}
  /\ FpuLen \in Nat \ {0} /\ FooterLen \in Nat \ {0}

\* gdb asks for a packet of the size it was promised, less the 'l' or 'm', and
\* for a little less when its own buffer runs full.
ASSUME SizesAssumption ==
  /\ PacketSize \in Nat /\ MaxRead \in Nat \ {0} /\ MaxRead < PacketSize
  /\ ReadLens \subseteq MaxRead..(PacketSize - 1)

VARIABLES
  reading,      \* gdb: "asks", "waits" or "done"
  received,     \* gdb: the text so far
  asked,        \* gdb: the length it asked for
  more,         \* the reply begins with 'm' and not with 'l'
  reply,        \* the characters behind it
  ix,           \* the part the loop is at
  offset, len   \* the locals of WriteTargetXML

replyVars == <<more, reply, ix, offset, len>>
xmlVars   == <<fpu, reading, received, asked, replyVars>>

-----------------------------------------------------------------------------
(* GetTargetXml *)

\* Where the parts begin; the last entry is the length of the text.
Starts(hasFpu) ==
  IF hasFpu THEN <<0, HeaderLen, HeaderLen + CpuLen, HeaderLen + CpuLen + FpuLen,
                   HeaderLen + CpuLen + FpuLen + FooterLen>>
            ELSE <<0, HeaderLen, HeaderLen + CpuLen, HeaderLen + CpuLen + FooterLen>>

NumParts == IF fpu THEN 4 ELSE 3
Start(p) == Starts(fpu)[p]
XmlLen   == Start(NumParts + 1)

\* n characters of the text from position first.
Text(first, n) == [k \in 1..n |-> first + k - 1]

XmlTypeOK ==
  /\ fpu \in BOOLEAN
  /\ reading \in {"asks", "waits", "done"}
  /\ received \in Seq(Nat) /\ reply \in Seq(Nat)
  /\ asked \in Nat /\ more \in BOOLEAN
  /\ ix \in 1..(NumParts + 1)
  /\ offset \in Nat /\ len \in Nat

XmlInit == /\ fpu \in BOOLEAN
           /\ reading = "asks" /\ received = <<>> /\ asked = 0
           /\ more = TRUE /\ reply = <<>>
           /\ ix = 1 /\ offset = 0 /\ len = 0

-----------------------------------------------------------------------------
(* WriteTargetXML *)

\* Mutant of IsLast: the end is only seen from behind it.
IsLastBehind(first, n) == first > XmlLen

\* Whether this transfer ends the description.
IsLast(first, n) == first + n > XmlLen

\* Mutant of ChunkLen: a chunk that is not the last fills the packet.
ChunkLenFull(first, n) ==
  IF IsLast(first, n) THEN (IF first >= XmlLen THEN 0 ELSE XmlLen - first)
                      ELSE PacketSize

\* How much the loop is told to copy.  A chunk that is not the last is as long
\* as a packet allows, whatever gdb asked for.
ChunkLen(first, n) ==
  IF IsLast(first, n) THEN (IF first >= XmlLen THEN 0 ELSE XmlLen - first)
                      ELSE MaxRead

\* gdb asks for n characters of what follows the text it has.
Ask(n) ==
  /\ reading = "asks" /\ asked' = n
  /\ reading' = "waits"
  /\ more' = ~IsLast(Len(received), n)
  /\ reply' = <<>> /\ ix' = 1
  /\ offset' = Len(received)
  /\ len' = ChunkLen(Len(received), n)
  /\ UNCHANGED <<fpu, received>>

PartLen == Start(ix + 1) - Start(ix)

Copying == reading = "waits" /\ ix <= NumParts /\ len > 0

\* A part that lies before the offset.
SkipPart ==
  /\ Copying /\ offset >= PartLen
  /\ offset' = offset - PartLen
  /\ ix' = ix + 1
  /\ UNCHANGED <<fpu, reading, received, asked, more, reply, len>>

Copied == IF PartLen - offset < len THEN PartLen - offset ELSE len

\* Mutant of CopyPart: the next part is read from the same offset.
CopyPartKeepsOffset ==
  /\ Copying /\ offset < PartLen
  /\ reply' = reply \o Text(Start(ix) + offset, Copied)
  /\ len' = len - Copied
  /\ ix' = ix + 1
  /\ UNCHANGED <<fpu, reading, received, asked, more, offset>>

\* Characters from the offset on, up to the end of the part or of the chunk.
CopyPart ==
  /\ Copying /\ offset < PartLen
  /\ reply' = reply \o Text(Start(ix) + offset, Copied)
  /\ len' = len - Copied
  /\ offset' = 0
  /\ ix' = ix + 1
  /\ UNCHANGED <<fpu, reading, received, asked, more>>

\* The reply is transmitted; gdb goes on until one begins with 'l'.
Receive ==
  /\ reading = "waits" /\ ~Copying
  /\ received' = received \o reply
  /\ reading' = IF more THEN "asks" ELSE "done"
  /\ UNCHANGED <<fpu, asked, replyVars>>

XmlNext == (\E n \in ReadLens : Ask(n)) \/ SkipPart \/ CopyPart \/ Receive

XmlSpec == XmlInit /\ [][XmlNext]_xmlVars

-----------------------------------------------------------------------------
(* Properties *)

\* gdb always has a beginning of the description, and in the end all of it.
PrefixReceived ==
  /\ received = Text(0, Len(received)) /\ Len(received) <= XmlLen
  /\ reading = "done" => Len(received) = XmlLen

\* A reply fits into outPacket, which WriteChar fills without a look at its size,
\* and is not longer than gdb asked, which it would refuse.
ReplyFits == Len(reply) + 1 <= PacketSize /\ Len(reply) <= asked

\* The description gdb assembles from chunks is the one of this machine, at
\* every offset and at every border of a part, and no chunk runs over the end
\* of outPacket (packet.c:588-640, target_xml.c:66-88).
DescriptionIntact == PrefixReceived /\ ReplyFits
=============================================================================
