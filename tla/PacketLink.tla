----------------------------- MODULE PacketLink -----------------------------
(***************************************************************************)
(* The packet layer of gdbserver/packet.c: ReceivePacket with its framing, *)
(* checksum and acknowledgement, TransmitPacket with its wait for one, and *)
(* gdb at the other end of a line that loses and damages bytes and may be  *)
(* cut, while somebody may press the key that ends the server.             *)
(*                                                                         *)
(* A request is the bytes  $ data # sum1 sum2 ; the data of request n and  *)
(* its checksum carry n, so that the checksum of a packet is right exactly *)
(* if nothing of it was damaged (checksums that collide are left out).     *)
(* What the server sends is taken packet by packet, because gdb's framing  *)
(* is not part of this program: a reply takes one place in the driver's    *)
(* buffer, as an acknowledgement does.  Acknowledgement is always on: the server  *)
(* does not offer QStartNoAckMode (server.c:16).  The server runs with     *)
(* --multi: it waits for the next gdb when one has gone.                   *)
(***************************************************************************)
EXTENDS Naturals, Sequences

CONSTANTS NumRequests,  \* how many requests gdb sends
          SkipAck,      \* the requests whose reply asks for no acknowledgement
          TxRoom,       \* what the driver's output buffer holds
          MaxFaults,    \* how many bytes the line loses or damages
          MaxDrops,     \* how often the connection drops
          MaxKeys       \* how often the quit key is pressed

ASSUME RequestsAssumption == /\ NumRequests \in Nat \ {0}
                             /\ SkipAck \subseteq 1..NumRequests
ASSUME RoomAssumption == TxRoom \in Nat \ {0}
ASSUME FaultsAssumption == MaxFaults \in Nat /\ MaxDrops \in Nat /\ MaxKeys \in Nat

Byte(kind, n) == [kind |-> kind, n |-> n]
Sign(kind)    == Byte(kind, 0)

\* The bytes of request n.
Packet(n) == <<Sign("$"), Byte("data", n), Sign("#"), Byte("sum1", n), Byte("sum2", n)>>

\* What a damaged byte of a request may look like; "}" is the escape 0x7d.  A
\* byte damaged into a '$' would begin a packet nobody sent, whose refusal
\* gdb takes for that of another one; acknowledgements carry no number.
Damaged == {Sign("#"), Sign("}"), Sign("junk")}

Kinds == {"$", "#", "}", "junk", "data", "sum1", "sum2", "+", "-", "reply"}
Bytes == [kind : Kinds, n : 0..NumRequests]

VARIABLES
  toServer, toGdb,  \* the line in either direction, with the driver's buffers
  point,            \* where ReceivePacket or TransmitPacket waits for a byte,
                    \* "connect": it waits for a connection, "handle": the
                    \* command loop has a packet, "transmit": it has a reply,
                    \* "ended": the server has ended
  inPacket,         \* the payload received so far, and then its checksum
  executed,         \* the request handled last
  gdb,              \* "idle", "ack" (sent, not acknowledged) or "reply"
  sent, answered,   \* the request sent last, the last one that was answered
  connected,        \* somebody is at the other end of the line
  key,              \* the quit key waits in the keyboard's buffer
  faults, drops, keys, \* what is still to come
  \* history of the outstanding request, only read by properties
  times,            \* how often it was handled, counted up to two
  hit,              \* what the line damaged or lost on its way to gdb; "drop":
                    \* something of a conversation that was cut may be left
  swallowed         \* the quit key was read in place of another byte

lineVars   == <<toServer, toGdb>>
serverVars == <<point, inPacket, executed, times, key, swallowed>>
gdbVars    == <<gdb, sent, answered>>
faultVars  == <<faults, hit, connected, drops, keys>>
vars == <<lineVars, serverVars, gdbVars, faultVars>>

TypeOK == /\ toServer \in Seq(Bytes) /\ toGdb \in Seq(Bytes)
          /\ point \in {"connect", "start", "payload", "escaped", "sum1", "sum2",
                        "handle", "transmit", "ack", "ended"}
          /\ inPacket \in Seq(Bytes)
          /\ executed \in 0..NumRequests
          /\ gdb \in {"idle", "ack", "reply"}
          /\ sent \in 0..NumRequests /\ answered \in 0..NumRequests
          /\ {connected, key, swallowed} \subseteq BOOLEAN
          /\ faults \in 0..MaxFaults /\ drops \in 0..MaxDrops /\ keys \in 0..MaxKeys
          /\ times \in 0..2
          /\ hit \subseteq {"+", "-", "reply", "drop"}

Init == /\ toServer = <<>> /\ toGdb = <<>>
        /\ point = "connect" /\ inPacket = <<>>
        /\ executed = 0 /\ times = 0
        /\ gdb = "idle" /\ sent = 0 /\ answered = 0
        /\ connected = FALSE /\ key = FALSE /\ swallowed = FALSE
        /\ faults = MaxFaults /\ drops = MaxDrops /\ keys = MaxKeys /\ hit = {}

-----------------------------------------------------------------------------
(* ReceivePacket *)

\* GetByte returns c.
GetByte(c) ==
  /\ toServer # <<>> /\ c = Head(toServer) /\ toServer' = Tail(toServer)
  /\ UNCHANGED <<key, swallowed>>

\* GetByte returns COMM_ERR_KILLED: nothing has arrived, and the key is taken.
Killed == /\ toServer = <<>> /\ connected /\ key
          /\ key' = FALSE /\ UNCHANGED toServer

\* GetByte returns COMM_ERR_DISCONNECTED.
Dropped == /\ toServer = <<>> /\ ~connected
           /\ UNCHANGED <<toServer, key, swallowed>>

\* An error that is taken for a byte.
Misread == Dropped \/ (Killed /\ swallowed' = TRUE)

\* The driver's buffer takes a byte while it has room, whoever is there.  When it
\* is full PutByte loops, without a look at the key, until somebody has read;
\* if the line drops, the byte is lost (comm.c:47-52, 89-101).
PutByte(c) ==
  /\ connected => Len(toGdb) < TxRoom
  /\ toGdb' = IF Len(toGdb) < TxRoom THEN Append(toGdb, c) ELSE toGdb

\* ReceivePacket begins with a look at the connection.
Waiting == IF connected THEN "start" ELSE "connect"

\* The connection comes, or the quit key is pressed before it does.
WaitConnection ==
  /\ point = "connect"
  /\ \/ connected /\ point' = "start" /\ UNCHANGED key
     \/ ~connected /\ key /\ key' = FALSE /\ point' = "ended"
  /\ UNCHANGED <<lineVars, inPacket, executed, times, swallowed, gdbVars, faultVars>>

\* Everything before a '$' is skipped, acknowledgements among it.
WaitStart(c) ==
  /\ point = "start" /\ GetByte(c)
  /\ point' = IF c = Sign("$") THEN "payload" ELSE "start"
  /\ inPacket' = <<>>
  /\ UNCHANGED <<toGdb, executed, times, gdbVars, faultVars>>

\* A '$' is an error: the packet it begins is skipped as well.
Payload(c) ==
  /\ point = "payload" /\ GetByte(c)
  /\ point' = CASE c = Sign("$") -> "start"
                [] c = Sign("#") -> "sum1"
                [] c = Sign("}") -> "escaped"
                [] OTHER         -> "payload"
  /\ inPacket' = IF c \in {Sign("$"), Sign("#"), Sign("}")} THEN inPacket
                 ELSE Append(inPacket, c)
  /\ UNCHANGED <<toGdb, executed, times, gdbVars, faultVars>>

\* Whatever comes behind the escape is data, and not what was sent.
Escaped(c) ==
  /\ point = "escaped" /\ GetByte(c)
  /\ point' = "payload"
  /\ inPacket' = Append(inPacket, Sign("junk"))
  /\ UNCHANGED <<toGdb, executed, times, gdbVars, faultVars>>

\* Mutant of Interrupted: inside a packet the key is taken for an error in it.
InterruptedInPacket ==
  /\ point \in {"start", "payload", "escaped"}
  /\ \/ Killed /\ UNCHANGED swallowed /\ point' = IF point = "start" THEN "ended" ELSE "start"
     \/ Dropped /\ point' = "connect"
  /\ UNCHANGED <<toGdb, inPacket, executed, times, gdbVars, faultVars>>

\* The command loop is given a 0x1a, which ends the server, or a 'k', after
\* which it waits for the next connection.
Interrupted ==
  /\ point \in {"start", "payload", "escaped"}
  /\ \/ Killed /\ point' = "ended" /\ UNCHANGED swallowed
     \/ Dropped /\ point' = "connect"
  /\ UNCHANGED <<toGdb, inPacket, executed, times, gdbVars, faultVars>>

\* The bytes of the checksum, or whatever GetByte returned instead.
FirstSum(c) ==
  /\ point = "sum1"
  /\ GetByte(c) \/ (c = Sign("junk") /\ Misread)
  /\ point' = "sum2" /\ inPacket' = Append(inPacket, c)
  /\ UNCHANGED <<toGdb, executed, times, gdbVars, faultVars>>

\* The checksum behind the packet is the packet's.
SumOK(received) ==
  \E n \in 1..NumRequests :
    received = <<Byte("data", n), Byte("sum1", n), Byte("sum2", n)>>

\* Mutants of SecondSum: the checksum is not compared; the answers are swapped.
SecondSumTrusts(c) ==
  /\ point = "sum2"
  /\ GetByte(c) \/ (c = Sign("junk") /\ Misread)
  /\ inPacket' = Append(inPacket, c)
  /\ PutByte(Sign("+")) /\ point' = IF connected THEN "handle" ELSE Waiting
  /\ UNCHANGED <<executed, times, gdbVars, faultVars>>

SecondSumSwapped(c) ==
  /\ point = "sum2"
  /\ GetByte(c) \/ (c = Sign("junk") /\ Misread)
  /\ inPacket' = Append(inPacket, c)
  /\ PutByte(Sign(IF SumOK(inPacket') THEN "-" ELSE "+"))
  /\ point' = IF SumOK(inPacket') /\ connected THEN "handle" ELSE Waiting
  /\ UNCHANGED <<executed, times, gdbVars, faultVars>>

\* The packet is acknowledged, or refused and waited for again.  If gdb has gone
\* by now it is not handled: a 'k' takes its place.
SecondSum(c) ==
  /\ point = "sum2"
  /\ GetByte(c) \/ (c = Sign("junk") /\ Misread)
  /\ inPacket' = Append(inPacket, c)
  /\ PutByte(Sign(IF SumOK(inPacket') THEN "+" ELSE "-"))
  /\ point' = IF SumOK(inPacket') /\ connected THEN "handle" ELSE Waiting
  /\ UNCHANGED <<executed, times, gdbVars, faultVars>>

-----------------------------------------------------------------------------
(* The command loop and TransmitPacket *)

\* The request is executed, and its reply transmitted if gdb is still there.
Handle ==
  /\ point = "handle"
  /\ executed' = Head(inPacket).n
  /\ times' = IF executed' = sent /\ times < 2 THEN times + 1 ELSE times
  /\ point' = IF connected THEN "transmit" ELSE Waiting
  /\ UNCHANGED <<lineVars, inPacket, key, swallowed, gdbVars, faultVars>>

\* An acknowledgement is waited for even if the line dropped meanwhile.
Transmit ==
  /\ point = "transmit"
  /\ PutByte(Byte("reply", executed))
  /\ point' = IF executed \in SkipAck THEN Waiting ELSE "ack"
  /\ UNCHANGED <<toServer, inPacket, executed, times, key, swallowed, gdbVars, faultVars>>

\* Mutant of WaitForAck: only an acknowledgement ends the wait.
WaitForAckInsists(c) ==
  /\ point = "ack"
  /\ GetByte(c) \/ (c = Sign("junk") /\ Misread)
  /\ point' = IF c = Sign("+") THEN Waiting ELSE "ack"
  /\ UNCHANGED <<toGdb, inPacket, executed, times, gdbVars, faultVars>>

\* One byte is read as the acknowledgement, whatever it is; an error of GetByte
\* is taken for a dropped connection.
WaitForAck(c) ==
  /\ point = "ack"
  /\ GetByte(c) \/ (c = Sign("junk") /\ Misread)
  /\ point' = Waiting
  /\ UNCHANGED <<toGdb, inPacket, executed, times, gdbVars, faultVars>>

-----------------------------------------------------------------------------
(* gdb *)

Send(bytes) == toServer' = toServer \o bytes

\* Nothing of an earlier conversation is left: not in the line, not in the
\* driver's buffers, and not with the server.
Settled == toServer = <<>> /\ toGdb = <<>> /\ point \in {"connect", "start"}

Request ==
  /\ connected /\ gdb = "idle" /\ sent < NumRequests
  /\ sent' = sent + 1 /\ gdb' = "ack"
  /\ Send(Packet(sent'))
  /\ times' = 0 /\ hit' = IF Settled THEN {} ELSE hit \cap {"drop"}
  /\ UNCHANGED <<toGdb, point, inPacket, executed, key, swallowed, answered,
                 faults, connected, drops, keys>>

FromServer(c) == connected /\ toGdb # <<>> /\ c = Head(toGdb) /\ toGdb' = Tail(toGdb)

Acknowledged ==
  /\ gdb = "ack" /\ FromServer(Sign("+"))
  /\ gdb' = "reply"
  /\ UNCHANGED <<toServer, serverVars, sent, answered, faultVars>>

Refused ==
  /\ gdb = "ack" /\ FromServer(Sign("-"))
  /\ Send(Packet(sent))
  /\ UNCHANGED <<serverVars, gdbVars, faultVars>>

\* A packet instead of an acknowledgement: gdb takes it for an old reply,
\* acknowledges and forgets it.
Gobbled ==
  /\ gdb = "ack"
  /\ \E n \in 0..NumRequests : FromServer(Byte("reply", n))
  /\ Send(<<Sign("+")>>)
  /\ UNCHANGED <<serverVars, gdbVars, faultVars>>

Answered ==
  /\ gdb = "reply"
  /\ \E n \in 1..NumRequests : FromServer(Byte("reply", n)) /\ answered' = n
  /\ gdb' = "idle"
  /\ Send(<<Sign("+")>>)
  /\ UNCHANGED <<serverVars, sent, faultVars>>

\* A damaged reply, which carries no number, is refused.
ReplyRefused ==
  /\ gdb = "reply" /\ FromServer(Byte("reply", 0))
  /\ Send(<<Sign("-")>>)
  /\ UNCHANGED <<serverVars, gdbVars, faultVars>>

Skipped ==
  /\ \/ gdb = "idle" /\ \E c \in Bytes : FromServer(c)
     \/ gdb = "ack" /\ FromServer(Sign("junk"))
     \/ gdb = "reply" /\ \E kind \in {"junk", "+", "-"} : FromServer(Sign(kind))
  /\ UNCHANGED <<toServer, serverVars, gdbVars, faultVars>>

\* gdb's time-outs are longer than anything still under way needs.
Silence == toServer = <<>> /\ toGdb = <<>> /\ point \notin {"handle", "transmit"}

AckTimeout ==
  /\ gdb = "ack" /\ Silence
  /\ Send(Packet(sent))
  /\ UNCHANGED <<toGdb, serverVars, gdbVars, faultVars>>

\* The reply is asked for again, in vain, and given up.
ReplyTimeout ==
  /\ gdb = "reply" /\ Silence
  /\ gdb' = "idle"
  /\ Send(<<Sign("-"), Sign("+")>>)
  /\ UNCHANGED <<toGdb, serverVars, sent, answered, faultVars>>

-----------------------------------------------------------------------------
(* The line *)

FaultToServer ==
  /\ connected /\ faults > 0 /\ toServer # <<>>
  /\ faults' = faults - 1
  /\ \/ toServer' = Tail(toServer)
     \/ \E c \in Damaged : toServer' = <<c>> \o Tail(toServer)
  /\ UNCHANGED <<toGdb, serverVars, gdbVars, hit, connected, drops, keys>>

FaultToGdb ==
  /\ connected /\ faults > 0 /\ toGdb # <<>>
  /\ faults' = faults - 1
  /\ hit' = hit \cup ({Head(toGdb).kind} \ {"junk"})
  /\ \/ toGdb' = Tail(toGdb)
     \/ toGdb' = <<Sign(IF Head(toGdb).kind = "reply" THEN "reply" ELSE "junk")>> \o Tail(toGdb)
  /\ UNCHANGED <<toServer, serverVars, gdbVars, connected, drops, keys>>

\* gdb goes.  What has arrived by then stays in the driver's buffers and is read
\* and sent later; the rest is lost (comm.c:89-124).
Drop ==
  /\ connected /\ drops > 0
  /\ connected' = FALSE /\ drops' = drops - 1
  /\ \E k \in 0..Len(toServer) : toServer' = SubSeq(toServer, 1, k)
  /\ gdb' = "idle" /\ hit' = hit \cup {"drop"}
  /\ UNCHANGED <<toGdb, serverVars, sent, answered, faults, keys>>

\* A gdb comes.  It takes longer than the server needs to see that one has gone.
\* Some of what waited to be sent may have gone out to nobody.
Connect ==
  /\ ~connected /\ point = "connect"
  /\ connected' = TRUE
  /\ \E k \in 0..Len(toGdb) : toGdb' = SubSeq(toGdb, k + 1, Len(toGdb))
  /\ UNCHANGED <<toServer, serverVars, gdbVars, faults, hit, drops, keys>>

QuitKey ==
  /\ keys > 0 /\ ~key /\ point # "ended"
  /\ key' = TRUE /\ keys' = keys - 1 /\ swallowed' = FALSE
  /\ UNCHANGED <<lineVars, point, inPacket, executed, times, gdbVars, faults, hit,
                 connected, drops>>

\* gdb has asked everything it wanted to ask, or nobody is there to ask.
Done == /\ \/ gdb = "idle" /\ sent = NumRequests /\ Silence
           \/ point = "ended"
        /\ UNCHANGED vars

-----------------------------------------------------------------------------
Server == \/ \E c \in Bytes : \/ WaitStart(c) \/ Payload(c) \/ Escaped(c)
                              \/ FirstSum(c) \/ SecondSum(c) \/ WaitForAck(c)
          \/ WaitConnection \/ Interrupted \/ Handle \/ Transmit

Gdb == \/ Acknowledged \/ Refused \/ Gobbled \/ Answered \/ ReplyRefused \/ Skipped
       \/ AckTimeout \/ ReplyTimeout

Next == \/ Server \/ Gdb \/ Request
        \/ FaultToServer \/ FaultToGdb \/ Drop \/ Connect \/ QuitKey \/ Done

Spec == Init /\ [][Next]_vars

\* The server polls the line and executes what it received, and gdb, while it
\* waits, reads what arrives or runs into its time-out.  gdb need not ask.
FairSpec == Spec /\ WF_vars(Server) /\ WF_vars(Gdb)

-----------------------------------------------------------------------------
(* Properties *)

\* Nothing but the outstanding request is executed, and gdb never takes an
\* answer to an earlier request for the one it waits for, whatever the line
\* damaged or lost; after a cut, until nothing is left of the conversation that
\* was cut, at least in the order in which they were sent (packet.c:59-254,
\* comm.c:89-124).
Protocol == INSTANCE RemoteCall
              WITH call <- sent, open <- gdb # "idle", cut <- "drop" \in hit
ImplementsRemoteCall == Protocol!Spec

\* A request is executed twice only if gdb could not know that the first one
\* had arrived, because its acknowledgement was damaged or lost, or if gdb took
\* what was left of a cut conversation for an answer to it: a step or a memory
\* write is not repeated otherwise (packet.c:170-176).
ExecutedOnce == times > 1 => hit \cap {"+", "drop"} # {}

\* Nobody waits for ever: a request ends, and it ends with its answer if nothing
\* was damaged or lost on the way to gdb.  A refused reply is not sent again
\* (packet.c:232-249), so that nothing more can be promised.  Neither a dropped
\* connection nor a key that was swallowed leaves the server where the next
\* request is not heard.
RequestsAnswered ==
  gdb = "ack" ~> \/ gdb = "idle" /\ (answered = sent \/ hit # {})
                 \/ point = "ended"

\* The quit key ends the server wherever it waits for a byte or a connection,
\* in the middle of a packet and between two gdbs, but for the three places
\* where what GetByte returns is not looked at (comm.c:32-45, packet.c:71-126,
\* 168-169, 235).  It is not looked at while PutByte waits for room: that ends
\* because gdb reads what it is sent, or goes.
QuitKeyHeard == key ~> point = "ended" \/ swallowed
=============================================================================
