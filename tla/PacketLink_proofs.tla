-------------------------- MODULE PacketLink_proofs --------------------------
(***************************************************************************)
(* Proofs about PacketLink for every number of requests, of damaged bytes, *)
(* of drops and of key strokes, any output buffer, and whatever replies    *)
(* ask for no acknowledgement.                                             *)
(***************************************************************************)
EXTENDS PacketLink, SequenceTheorems, TLAPS

-----------------------------------------------------------------------------
(* The bytes of a line.  gdb has one copy of its request under way: what     *)
(* follows a '$' belongs to the copy sent last.                              *)

\* All bytes that carry a number are of request n.
Own(s, n) == \A j \in DOMAIN s : s[j].n \in {0, n}

\* No packet begins here.
NoStart(s) == \A j \in DOMAIN s : s[j] # Sign("$")

\* A packet that begins here is the last one, and is one of request n.
OneStart(s, n) == \A i, j \in DOMAIN s :
                    i < j /\ s[i] = Sign("$") => s[j] # Sign("$") /\ s[j].n \in {0, n}

\* A copy of request n, or what is left of it.
OneCopy(s, n) == \A j \in DOMAIN s : s[j].n \in {0, n} /\ (j > 1 => s[j] # Sign("$"))

\* The server is inside a packet.
Reading == point \in {"payload", "escaped", "sum1", "sum2"}

\* The server waits for a packet, has one or is about to end, and none comes.
Quiet == ~Reading /\ NoStart(toServer)

\* The server has a request or its reply.
Busy == point \in {"handle", "transmit"}

\* An answer to the request sent last, as it was sent or damaged.
AnswerOf(n) == {Byte("reply", n), Sign("reply")}

\* What is on its way to gdb: an acknowledgement or what is left of one, and
\* behind it the reply, or either of them.
Acks == {Sign("+"), Sign("-"), Sign("junk")}

ToGdbWhileAck ==
  \/ toGdb = <<>>
  \/ \E c \in Acks : toGdb = <<c>>
  \/ /\ executed = sent
     /\ \E r \in AnswerOf(sent) :
          toGdb = <<r>> \/ \E c \in {Sign("+"), Sign("junk")} : toGdb = <<c, r>>

ToGdbWhileReply ==
  \/ toGdb = <<>>
  \/ executed = sent /\ ~Busy /\ \E r \in AnswerOf(sent) : toGdb = <<r>>

\* The conversation while nothing is left of one that was cut.
Talking ==
  /\ OneStart(toServer, sent)
  /\ Reading => gdb = "ack" /\ toGdb = <<>> /\ OneCopy(toServer, sent) /\ Own(inPacket, sent)
  /\ gdb = "idle" => Quiet /\ toGdb = <<>> /\ ~Busy
  /\ gdb = "ack" => ToGdbWhileAck /\ (toGdb # <<>> => Quiet)
  /\ gdb = "reply" => ToGdbWhileReply /\ Quiet
  /\ Busy =>
       /\ NoStart(toServer)
       /\ gdb = "ack" => toGdb \in {<<>>, <<Sign("+")>>, <<Sign("junk")>>}
  /\ point = "transmit" => executed = sent

\* A packet that will be handled is the request sent last.
HandlesLast == point = "handle" => Len(inPacket) = 3 /\ inPacket[1].n = sent

\* A request that was taken is not sent again unless the '+' was lost.
TakenOnce ==
  /\ times > 1 => "+" \in hit
  /\ point = "handle" /\ times > 0 => "+" \in hit
  /\ gdb = "ack" /\ (point = "handle" \/ times > 0) /\ "+" \notin hit
       => toGdb # <<>> /\ toGdb[1] = Sign("+")

\* gdb waits for something only if it has asked and is there.
Asking == gdb # "idle" => sent # 0 /\ connected

-----------------------------------------------------------------------------
(* What travels, also behind a cut, travels in the order of its numbers.     *)

Within(s, low, high) == \A i \in DOMAIN s : s[i].n = 0 \/ (low <= s[i].n /\ s[i].n <= high)
Rising(s) == \A i, j \in DOMAIN s : i < j /\ s[j].n # 0 => s[i].n <= s[j].n
Below(s, t) == \A i \in DOMAIN s, j \in DOMAIN t : t[j].n # 0 => s[i].n <= t[j].n
Signals(s) == \A i \in DOMAIN s : s[i].kind \in {"+", "-", "reply", "junk"}

Ordered ==
  /\ answered <= executed /\ executed <= sent
  /\ Within(toServer, executed, sent) /\ Rising(toServer)
  /\ Within(toGdb, answered, executed) /\ Rising(toGdb) /\ Signals(toGdb)
  /\ Reading \/ point = "handle" => Within(inPacket, executed, sent) /\ Below(inPacket, toServer)
  /\ point = "handle" => Len(inPacket) = 3 /\ inPacket[1].n # 0

LinkInv ==
  /\ TypeOK
  /\ Asking
  /\ Ordered
  /\ "drop" \notin hit => Talking /\ HandlesLast /\ TakenOnce

-----------------------------------------------------------------------------
(* Bytes and sequences of bytes *)

\* What a byte is: its kind and its number.
LEMMA ByteFacts ==
  /\ \A kind \in Kinds, n \in 0..NumRequests : Byte(kind, n) \in Bytes
  /\ \A kind \in Kinds : Sign(kind) \in Bytes
  /\ \A b \in Bytes : b.kind \in Kinds /\ b.n \in 0..NumRequests
  /\ \A kind, n : Byte(kind, n).kind = kind /\ Byte(kind, n).n = n
  /\ \A kind : Sign(kind).kind = kind /\ Sign(kind).n = 0
<1>1. 0 \in 0..NumRequests
  BY RequestsAssumption
<1>2. \A kind \in Kinds, n \in 0..NumRequests : Byte(kind, n) \in Bytes
  BY DEF Byte, Bytes
<1>3. \A kind, n : Byte(kind, n).kind = kind /\ Byte(kind, n).n = n
  BY DEF Byte
<1>4. \A b \in Bytes : b.kind \in Kinds /\ b.n \in 0..NumRequests
  BY DEF Bytes
<1> QED
  BY <1>1, <1>2, <1>3, <1>4 DEF Sign

\* What is left of a sequence of bytes when the first is taken.
LEMMA TailFacts ==
  ASSUME NEW s \in Seq(Bytes), s # <<>>
  PROVE  /\ Tail(s) \in Seq(Bytes) /\ Len(Tail(s)) = Len(s) - 1 /\ Len(s) \in Nat \ {0}
         /\ \A i \in 1..(Len(s) - 1) : Tail(s)[i] = s[i + 1]
         /\ Head(s) = s[1] /\ Head(s) \in Bytes
  OBVIOUS

\* The bytes at the beginning of a sequence, and those at its end.
LEMMA SubSeqFacts ==
  ASSUME NEW s \in Seq(Bytes), NEW k \in 0..Len(s)
  PROVE  /\ SubSeq(s, 1, k) \in Seq(Bytes) /\ DOMAIN SubSeq(s, 1, k) = 1..k
         /\ \A i \in 1..k : SubSeq(s, 1, k)[i] = s[i]
         /\ SubSeq(s, k + 1, Len(s)) \in Seq(Bytes)
         /\ DOMAIN SubSeq(s, k + 1, Len(s)) = 1..(Len(s) - k)
         /\ \A i \in 1..(Len(s) - k) : SubSeq(s, k + 1, Len(s))[i] = s[i + k]
<1>1. Len(s) \in Nat /\ k \in Nat /\ k <= Len(s)
  OBVIOUS
<1>2. SubSeq(s, 1, k) \in Seq(Bytes) /\ Len(SubSeq(s, 1, k)) = k
      /\ \A i \in 1..k : SubSeq(s, 1, k)[i] = s[i]
  BY <1>1
<1>3. /\ SubSeq(s, k + 1, Len(s)) \in Seq(Bytes) /\ Len(SubSeq(s, k + 1, Len(s))) = Len(s) - k
      /\ \A i \in 1..(Len(s) - k) : SubSeq(s, k + 1, Len(s))[i] = s[i + k]
  BY <1>1
<1> QED
  BY <1>2, <1>3

\* The first byte is read, or lost.
LEMMA HeadGone ==
  ASSUME NEW s \in Seq(Bytes), s # <<>>, NEW n
  PROVE  /\ NoStart(s) => NoStart(Tail(s)) /\ Head(s) # Sign("$")
         /\ OneStart(s, n) => OneStart(Tail(s), n)
         /\ OneStart(s, n) /\ Head(s) = Sign("$") => OneCopy(Tail(s), n) /\ NoStart(Tail(s))
         /\ OneCopy(s, n) => /\ OneCopy(Tail(s), n) /\ NoStart(Tail(s))
                             /\ Head(s).n \in {0, n}
<1> DEFINE t == Tail(s)
<1>1. /\ t \in Seq(Bytes) /\ Len(t) = Len(s) - 1 /\ Len(s) \in Nat \ {0}
      /\ DOMAIN t = 1..(Len(s) - 1) /\ DOMAIN s = 1..Len(s)
      /\ \A i \in 1..(Len(s) - 1) : t[i] = s[i + 1]
      /\ Head(s) = s[1]
  BY TailFacts
<1> HIDE DEF t
<1>2. \A i \in DOMAIN t : i + 1 \in DOMAIN s /\ t[i] = s[i + 1] /\ i + 1 > 1
  BY <1>1
<1>3. 1 \in DOMAIN s /\ \A i, j \in DOMAIN t : i < j => i + 1 < j + 1
  BY <1>1
<1>4. NoStart(s) => NoStart(t) /\ Head(s) # Sign("$")
  BY <1>1, <1>2, <1>3 DEF NoStart
<1>5. OneStart(s, n) => OneStart(t, n)
  BY <1>2, <1>3 DEF OneStart
<1>6. OneStart(s, n) /\ Head(s) = Sign("$") => OneCopy(t, n) /\ NoStart(t)
  BY <1>1, <1>2, <1>3 DEF OneStart, OneCopy, NoStart
<1>7. OneCopy(s, n) => OneCopy(t, n) /\ NoStart(t) /\ Head(s).n \in {0, n}
  BY <1>1, <1>2, <1>3 DEF OneCopy, NoStart
<1> QED
  BY <1>4, <1>5, <1>6, <1>7 DEF t

\* The first byte is damaged.
LEMMA HeadDamaged ==
  ASSUME NEW s \in Seq(Bytes), s # <<>>, NEW n, NEW c \in Damaged
  PROVE  /\ <<c>> \o Tail(s) \in Seq(Bytes)
         /\ NoStart(s) => NoStart(<<c>> \o Tail(s))
         /\ OneStart(s, n) => OneStart(<<c>> \o Tail(s), n)
         /\ OneCopy(s, n) => OneCopy(<<c>> \o Tail(s), n)
<1> DEFINE t == <<c>> \o Tail(s)
<1>1. c \in Bytes /\ c # Sign("$") /\ c.n = 0
  <2>1. c.kind \in {"#", "}", "junk"} /\ c = Sign(c.kind)
    BY ByteFacts DEF Damaged
  <2>2. c.kind \in Kinds /\ c.kind # "$"
    BY <2>1 DEF Kinds
  <2> QED
    BY <2>1, <2>2, ByteFacts
<1>2. /\ t \in Seq(Bytes) /\ Len(t) = Len(s) /\ t[1] = c
      /\ \A i \in 2..Len(s) : t[i] = s[i]
  BY <1>1, TailFacts
<1>3. DOMAIN t = 1..Len(s) /\ DOMAIN s = 1..Len(s) /\ Len(s) \in Nat
  BY <1>2
<1> HIDE DEF t
<1>4. \A i \in DOMAIN t : i \in DOMAIN s /\ (t[i] = c \/ t[i] = s[i])
  BY <1>2, <1>3
<1>5. NoStart(s) => NoStart(t)
  BY <1>1, <1>4 DEF NoStart
<1>6. OneStart(s, n) => OneStart(t, n)
  BY <1>1, <1>4 DEF OneStart
<1>7. OneCopy(s, n) => OneCopy(t, n)
  BY <1>1, <1>4 DEF OneCopy
<1> QED
  BY <1>2, <1>5, <1>6, <1>7 DEF t

\* Bytes that begin no packet behind such bytes, and a packet behind them.
LEMMA SentBehind ==
  ASSUME NEW s \in Seq(Bytes), NEW p \in Seq(Bytes), NoStart(s), NEW n
  PROVE  /\ s \o p \in Seq(Bytes)
         /\ NoStart(p) => NoStart(s \o p)
         /\ OneStart(p, n) => OneStart(s \o p, n)
<1> DEFINE t == s \o p
<1>1. /\ t \in Seq(Bytes) /\ Len(t) = Len(s) + Len(p)
      /\ \A i \in 1..Len(s) : t[i] = s[i]
      /\ \A i \in 1..Len(p) : t[Len(s) + i] = p[i]
      /\ Len(s) \in Nat /\ Len(p) \in Nat
      /\ DOMAIN s = 1..Len(s) /\ DOMAIN p = 1..Len(p) /\ DOMAIN t = 1..(Len(s) + Len(p))
  OBVIOUS
<1> HIDE DEF t
<1>2. \A j \in DOMAIN t :
        \/ j \in DOMAIN s /\ t[j] = s[j]
        \/ j - Len(s) \in DOMAIN p /\ t[j] = p[j - Len(s)] /\ j > Len(s)
  <2> TAKE j \in DOMAIN t
  <2>1. CASE j <= Len(s)
    BY <1>1, <2>1
  <2>2. CASE j > Len(s)
    <3>1. j - Len(s) \in 1..Len(p) /\ j = Len(s) + (j - Len(s))
      BY <1>1, <2>2
    <3> QED
      BY <1>1, <2>2, <3>1
  <2> QED
    BY <1>1, <2>1, <2>2
<1>3. NoStart(p) => NoStart(t)
  BY <1>2 DEF NoStart
<1>4. OneStart(p, n) => OneStart(t, n)
  <2> SUFFICES ASSUME OneStart(p, n), NEW i \in DOMAIN t, NEW j \in DOMAIN t,
                      i < j, t[i] = Sign("$")
               PROVE  t[j] # Sign("$") /\ t[j].n \in {0, n}
    BY DEF OneStart
  <2>1. i - Len(s) \in DOMAIN p /\ p[i - Len(s)] = Sign("$") /\ i > Len(s)
    BY <1>2 DEF NoStart
  <2>2. j > Len(s)
    BY <1>1, <2>1
  <2>3. j - Len(s) \in DOMAIN p /\ t[j] = p[j - Len(s)] /\ i - Len(s) < j - Len(s)
    BY <1>1, <1>2, <2>1, <2>2
  <2> QED
    BY <2>1, <2>3 DEF OneStart
<1> QED
  BY <1>1, <1>3, <1>4 DEF t

\* What gdb sends.
LEMMA SentBytes ==
  ASSUME NEW n \in 1..NumRequests
  PROVE  /\ Packet(n) \in Seq(Bytes) /\ OneStart(Packet(n), n) /\ OneCopy(Packet(n), n)
         /\ <<Sign("+")>> \in Seq(Bytes) /\ NoStart(<<Sign("+")>>)
         /\ <<Sign("-")>> \in Seq(Bytes) /\ NoStart(<<Sign("-")>>)
         /\ <<Sign("-"), Sign("+")>> \in Seq(Bytes) /\ NoStart(<<Sign("-"), Sign("+")>>)
<1>1. /\ Sign("$") \in Bytes /\ Byte("data", n) \in Bytes /\ Sign("#") \in Bytes
      /\ Byte("sum1", n) \in Bytes /\ Byte("sum2", n) \in Bytes
      /\ Sign("+") \in Bytes /\ Sign("-") \in Bytes
      /\ Sign("$").n = 0 /\ Sign("#").n = 0 /\ Byte("data", n).n = n
      /\ Byte("sum1", n).n = n /\ Byte("sum2", n).n = n
      /\ Byte("data", n) # Sign("$") /\ Sign("#") # Sign("$") /\ Byte("sum1", n) # Sign("$")
      /\ Byte("sum2", n) # Sign("$") /\ Sign("+") # Sign("$") /\ Sign("-") # Sign("$")
  <2>1. n \in 0..NumRequests
    OBVIOUS
  <2>2. {"$", "data", "#", "sum1", "sum2", "+", "-"} \subseteq Kinds
    BY DEF Kinds
  <2> QED
    BY <2>1, <2>2, ByteFacts
<1>2. Packet(n) \in Seq(Bytes) /\ DOMAIN Packet(n) = 1..5
  BY <1>1 DEF Packet
<1>3. /\ Packet(n)[1] = Sign("$") /\ Packet(n)[2] = Byte("data", n) /\ Packet(n)[3] = Sign("#")
      /\ Packet(n)[4] = Byte("sum1", n) /\ Packet(n)[5] = Byte("sum2", n)
  BY DEF Packet
<1>4. \A j \in 1..5 : Packet(n)[j].n \in {0, n} /\ (j > 1 => Packet(n)[j] # Sign("$"))
  <2>1. \A j \in 1..5 : j = 1 \/ j = 2 \/ j = 3 \/ j = 4 \/ j = 5
    OBVIOUS
  <2> QED
    BY <1>1, <1>3, <2>1
<1>5. OneCopy(Packet(n), n)
  BY <1>2, <1>4 DEF OneCopy
<1>6. OneStart(Packet(n), n)
  BY <1>2, <1>4 DEF OneStart
<1> QED
  BY <1>1, <1>2, <1>5, <1>6 DEF NoStart

-----------------------------------------------------------------------------
(* Types *)

USE DEF lineVars, serverVars, gdbVars, faultVars

\* Everything has its type at first.
LEMMA InitTypeOK == Init => TypeOK
<1> SUFFICES ASSUME Init PROVE TypeOK
  OBVIOUS
<1>1. {connected, key, swallowed} \subseteq BOOLEAN
  BY DEF Init
<1>2. 0 \in 0..NumRequests /\ MaxFaults \in 0..MaxFaults /\ MaxDrops \in 0..MaxDrops
      /\ MaxKeys \in 0..MaxKeys
  BY RequestsAssumption, FaultsAssumption
<1> QED
  BY <1>1, <1>2 DEF Init, TypeOK

\* Each step keeps the flags Boolean.
LEMMA StepFlags ==
  ASSUME {connected, key, swallowed} \subseteq BOOLEAN, [Next]_vars
  PROVE  {connected, key, swallowed}' \subseteq BOOLEAN
<1>a. connected \in BOOLEAN /\ key \in BOOLEAN /\ swallowed \in BOOLEAN
  OBVIOUS
<1> DEFINE Goal == connected' \in BOOLEAN /\ key' \in BOOLEAN /\ swallowed' \in BOOLEAN
<1>1. ASSUME NEW c, WaitStart(c) \/ Payload(c) \/ Escaped(c) PROVE Goal
  BY <1>a, <1>1, Zenon DEF WaitStart, Payload, Escaped, GetByte
<1>2. ASSUME NEW c, FirstSum(c) PROVE Goal
  BY <1>a, <1>2, Zenon DEF FirstSum, GetByte, Misread, Dropped, Killed
<1>3. ASSUME NEW c, SecondSum(c) PROVE Goal
  BY <1>a, <1>3, Zenon DEF SecondSum, GetByte, Misread, Dropped, Killed
<1>4. ASSUME NEW c, WaitForAck(c) PROVE Goal
  BY <1>a, <1>4, Zenon DEF WaitForAck, GetByte, Misread, Dropped, Killed
<1>5. CASE WaitConnection \/ Handle \/ Transmit
  BY <1>a, <1>5, Zenon DEF WaitConnection, Handle, Transmit
<1>6. CASE Interrupted
  BY <1>a, <1>6, Zenon DEF Interrupted, Dropped, Killed
<1>7. CASE Acknowledged \/ Refused \/ Gobbled \/ Answered \/ ReplyRefused
  BY <1>a, <1>7, Zenon DEF Acknowledged, Refused, Gobbled, Answered, ReplyRefused
<1>8. CASE Skipped \/ AckTimeout \/ ReplyTimeout
  BY <1>a, <1>8, Zenon DEF Skipped, AckTimeout, ReplyTimeout
<1>9. CASE Request \/ FaultToServer \/ FaultToGdb
  BY <1>a, <1>9, Zenon DEF Request, FaultToServer, FaultToGdb
<1>10. CASE Drop \/ Connect \/ QuitKey
  BY <1>a, <1>10, Zenon DEF Drop, Connect, QuitKey
<1>11. CASE Done \/ UNCHANGED vars
  BY <1>a, <1>11, Zenon DEF Done, vars
<1>12. Goal
  BY <1>1, <1>2, <1>3, <1>4, <1>5, <1>6, <1>7, <1>8, <1>9, <1>10, <1>11 DEF Next, Server, Gdb
<1> QED
  BY <1>12

\* All types but those of the flags.
OtherTypes ==
  /\ toServer \in Seq(Bytes) /\ toGdb \in Seq(Bytes)
  /\ point \in {"connect", "start", "payload", "escaped", "sum1", "sum2",
                "handle", "transmit", "ack", "ended"}
  /\ inPacket \in Seq(Bytes)
  /\ executed \in 0..NumRequests
  /\ gdb \in {"idle", "ack", "reply"}
  /\ sent \in 0..NumRequests /\ answered \in 0..NumRequests
  /\ faults \in 0..MaxFaults /\ drops \in 0..MaxDrops /\ keys \in 0..MaxKeys
  /\ times \in 0..2
  /\ hit \subseteq {"+", "-", "reply", "drop"}

\* A byte without a number is a byte.
LEMMA SignsAreBytes ==
  /\ \A kind \in {"$", "#", "}", "junk", "+", "-", "reply"} : Sign(kind) \in Bytes
  /\ \A n \in 0..NumRequests : Byte("reply", n) \in Bytes
  /\ \A c \in Damaged : c \in Bytes
BY ByteFacts DEF Kinds, Damaged

\* What GetByte returns, and what it leaves behind.
LEMMA ByteTaken ==
  ASSUME toServer \in Seq(Bytes), NEW c, GetByte(c) \/ (c = Sign("junk") /\ Misread)
  PROVE  /\ \/ toServer # <<>> /\ c = Head(toServer) /\ toServer' = Tail(toServer)
            \/ toServer = <<>> /\ c = Sign("junk") /\ toServer' = <<>>
         /\ c \in Bytes /\ toServer' \in Seq(Bytes)
<1>1. CASE GetByte(c)
  BY <1>1, TailFacts DEF GetByte
<1>2. CASE c = Sign("junk") /\ Misread
  <2>1. toServer = <<>> /\ toServer' = toServer
    BY <1>2 DEF Misread, Dropped, Killed
  <2> QED
    BY <1>2, <2>1, SignsAreBytes
<1> QED
  BY <1>1, <1>2

\* Taking a byte from the line keeps its type.
LEMMA FromServerTypes ==
  ASSUME toGdb \in Seq(Bytes), NEW c, FromServer(c)
  PROVE  c \in Bytes /\ toGdb' \in Seq(Bytes)
BY DEF FromServer

\* What is on its way to gdb are acknowledgements and replies, and what the
\* line made of them.
LEMMA ToGdbKinds ==
  ASSUME LinkInv, toGdb # <<>>
  PROVE  Head(toGdb).kind \in {"+", "-", "reply", "junk"}
<1>1. toGdb \in Seq(Bytes) /\ Signals(toGdb)
  BY DEF LinkInv, TypeOK, Ordered
<1>2. Head(toGdb) = toGdb[1] /\ 1 \in DOMAIN toGdb
  BY <1>1
<1> QED
  BY <1>1, <1>2 DEF Signals

\* Each step preserves the types that are no flags.
LEMMA StepOtherTypes == LinkInv /\ [Next]_vars => OtherTypes'
<1> SUFFICES ASSUME LinkInv, [Next]_vars PROVE OtherTypes'
  OBVIOUS
<1> USE DEF LinkInv
<1>a. OtherTypes /\ Waiting \in {"connect", "start"}
  BY DEF TypeOK, OtherTypes, Waiting
<1>b. sent \in 0..NumRequests /\ (gdb # "idle" => sent \in 1..NumRequests)
  BY RequestsAssumption DEF TypeOK, Asking
<1>c. toServer \in Seq(Bytes) /\ toGdb \in Seq(Bytes) /\ inPacket \in Seq(Bytes)
  BY DEF TypeOK
<1>d. \A p : p \in Seq(Bytes) => toServer \o p \in Seq(Bytes)
  BY <1>c
<1>e. \A c \in Bytes : Append(toGdb, c) \in Seq(Bytes) /\ Append(inPacket, c) \in Seq(Bytes)
  BY <1>c
<1>1. ASSUME NEW c \in Bytes, WaitStart(c) PROVE OtherTypes'
  <2>1. toServer' \in Seq(Bytes)
    BY <1>1, <1>c, ByteTaken DEF WaitStart
  <2> QED
    BY <1>1, <1>a, <2>1 DEF WaitStart, OtherTypes
<1>2. ASSUME NEW c \in Bytes, Payload(c) PROVE OtherTypes'
  <2>1. toServer' \in Seq(Bytes)
    BY <1>2, <1>c, ByteTaken DEF Payload
  <2>2. point' \in {"start", "sum1", "escaped", "payload"}
    BY <1>2 DEF Payload
  <2>3. inPacket' \in Seq(Bytes)
    BY <1>2, <1>c, <1>e DEF Payload
  <2> QED
    BY <1>2, <1>a, <2>1, <2>2, <2>3 DEF Payload, OtherTypes
<1>3. ASSUME NEW c \in Bytes, Escaped(c) PROVE OtherTypes'
  <2>1. toServer' \in Seq(Bytes)
    BY <1>3, <1>c, ByteTaken DEF Escaped
  <2>2. inPacket' \in Seq(Bytes)
    BY <1>3, <1>e, SignsAreBytes DEF Escaped
  <2> QED
    BY <1>3, <1>a, <2>1, <2>2 DEF Escaped, OtherTypes
<1>4. ASSUME NEW c \in Bytes, FirstSum(c) PROVE OtherTypes'
  <2>1. toServer' \in Seq(Bytes)
    BY <1>4, <1>c, ByteTaken DEF FirstSum
  <2>2. inPacket' \in Seq(Bytes)
    BY <1>4, <1>e DEF FirstSum
  <2> QED
    BY <1>4, <1>a, <2>1, <2>2 DEF FirstSum, OtherTypes
<1>5. ASSUME NEW c \in Bytes, SecondSum(c) PROVE OtherTypes'
  <2>1. toServer' \in Seq(Bytes)
    BY <1>5, <1>c, ByteTaken DEF SecondSum
  <2>2. inPacket' \in Seq(Bytes)
    BY <1>5, <1>e DEF SecondSum
  <2>3. toGdb' \in Seq(Bytes)
    BY <1>5, <1>c, <1>e, SignsAreBytes DEF SecondSum, PutByte
  <2>4. point' \in {"handle", "connect", "start"}
    BY <1>5, <1>a DEF SecondSum
  <2> QED
    BY <1>5, <1>a, <2>1, <2>2, <2>3, <2>4 DEF SecondSum, OtherTypes
<1>6. ASSUME NEW c \in Bytes, WaitForAck(c) PROVE OtherTypes'
  <2>1. toServer' \in Seq(Bytes)
    BY <1>6, <1>c, ByteTaken DEF WaitForAck
  <2> QED
    BY <1>6, <1>a, <2>1 DEF WaitForAck, OtherTypes
<1>7. CASE WaitConnection
  BY <1>7, <1>a DEF WaitConnection, OtherTypes
<1>8. CASE Interrupted
  <2>1. toServer' = toServer /\ point' \in {"ended", "connect"}
    BY <1>8 DEF Interrupted, Killed, Dropped
  <2> QED
    BY <1>8, <1>a, <2>1 DEF Interrupted, OtherTypes
<1>9. CASE Handle
  <2>1. Head(inPacket) \in Bytes
    <3>1. Len(inPacket) = 3
      BY <1>9 DEF Handle, Ordered
    <3>2. inPacket # <<>>
      BY <3>1
    <3> QED
      BY <1>c, <3>2, TailFacts
  <2>2. executed' \in 0..NumRequests
    BY <1>9, <2>1, ByteFacts DEF Handle
  <2>3. times' \in 0..2 /\ point' \in {"transmit", "connect", "start"}
    BY <1>9, <1>a DEF Handle, OtherTypes
  <2> QED
    BY <1>9, <1>a, <2>2, <2>3 DEF Handle, OtherTypes
<1>25. CASE Transmit
  <2>1. Byte("reply", executed) \in Bytes
    BY <1>a, SignsAreBytes DEF OtherTypes
  <2>2. toGdb' \in Seq(Bytes)
    BY <1>25, <1>c, <1>e, <2>1 DEF Transmit, PutByte
  <2>3. point' \in {"ack", "connect", "start"}
    BY <1>25, <1>a DEF Transmit
  <2> QED
    BY <1>25, <1>a, <2>2, <2>3 DEF Transmit, OtherTypes
<1>10. CASE Request
  <2>1. sent' \in 1..NumRequests /\ sent' = sent + 1
    BY <1>10, <1>b, RequestsAssumption DEF Request
  <2>2. toServer' \in Seq(Bytes)
    BY <1>10, <1>d, <2>1, SentBytes DEF Request, Send
  <2> QED
    BY <1>10, <1>a, <2>1, <2>2 DEF Request, OtherTypes
<1>11. CASE Acknowledged
  <2>1. toGdb' \in Seq(Bytes)
    BY <1>11, <1>c, FromServerTypes DEF Acknowledged
  <2> QED
    BY <1>11, <1>a, <2>1 DEF Acknowledged, OtherTypes
<1>12. CASE Refused
  <2>1. toGdb' \in Seq(Bytes)
    BY <1>12, <1>c, FromServerTypes DEF Refused
  <2>2. toServer' \in Seq(Bytes)
    BY <1>12, <1>b, <1>d, SentBytes DEF Refused, Send
  <2> QED
    BY <1>12, <1>a, <2>1, <2>2 DEF Refused, OtherTypes
<1>13. CASE Gobbled
  <2>1. toGdb' \in Seq(Bytes)
    BY <1>13, <1>c, FromServerTypes DEF Gobbled
  <2>2. toServer' \in Seq(Bytes)
    BY <1>13, <1>b, <1>d, SentBytes DEF Gobbled, Send
  <2> QED
    BY <1>13, <1>a, <2>1, <2>2 DEF Gobbled, OtherTypes
<1>14. CASE Answered
  <2>1. toGdb' \in Seq(Bytes)
    BY <1>14, <1>c, FromServerTypes DEF Answered
  <2>2. toServer' \in Seq(Bytes)
    BY <1>14, <1>b, <1>d, SentBytes DEF Answered, Send
  <2>3. answered' \in 0..NumRequests
    BY <1>14 DEF Answered
  <2> QED
    BY <1>14, <1>a, <2>1, <2>2, <2>3 DEF Answered, OtherTypes
<1>15. CASE ReplyRefused
  <2>1. toGdb' \in Seq(Bytes)
    BY <1>15, <1>c, FromServerTypes DEF ReplyRefused
  <2>2. toServer' \in Seq(Bytes)
    BY <1>15, <1>b, <1>d, SentBytes DEF ReplyRefused, Send
  <2> QED
    BY <1>15, <1>a, <2>1, <2>2 DEF ReplyRefused, OtherTypes
<1>16. CASE Skipped
  <2>1. toGdb' \in Seq(Bytes)
    BY <1>16, <1>c, FromServerTypes DEF Skipped
  <2> QED
    BY <1>16, <1>a, <2>1 DEF Skipped, OtherTypes
<1>17. CASE AckTimeout
  <2>1. toServer' \in Seq(Bytes)
    BY <1>17, <1>b, <1>d, SentBytes DEF AckTimeout, Send
  <2> QED
    BY <1>17, <1>a, <2>1 DEF AckTimeout, OtherTypes
<1>18. CASE ReplyTimeout
  <2>1. toServer' \in Seq(Bytes)
    BY <1>18, <1>b, <1>d, SentBytes DEF ReplyTimeout, Send
  <2> QED
    BY <1>18, <1>a, <2>1 DEF ReplyTimeout, OtherTypes
<1>19. CASE FaultToServer
  <2>1. toServer' \in Seq(Bytes)
    BY <1>19, <1>c, HeadDamaged, TailFacts DEF FaultToServer
  <2>2. faults' \in 0..MaxFaults
    BY <1>19, <1>a, FaultsAssumption DEF FaultToServer, OtherTypes
  <2> QED
    BY <1>19, <1>a, <2>1, <2>2 DEF FaultToServer, OtherTypes
<1>20. CASE FaultToGdb
  <2>1. Tail(toGdb) \in Seq(Bytes) /\ Head(toGdb) \in Bytes
    BY <1>20, <1>c, TailFacts DEF FaultToGdb
  <2>2. toGdb' \in Seq(Bytes)
    <3>1. \A b \in Bytes : <<b>> \o Tail(toGdb) \in Seq(Bytes)
      BY <2>1
    <3> QED
      BY <1>20, <2>1, <3>1, SignsAreBytes DEF FaultToGdb
  <2>3. faults' \in 0..MaxFaults
    BY <1>20, <1>a, FaultsAssumption DEF FaultToGdb, OtherTypes
  <2>4. hit' \subseteq {"+", "-", "reply", "drop"}
    <3>1. Head(toGdb).kind \in {"+", "-", "reply", "junk"}
      BY <1>20, ToGdbKinds DEF FaultToGdb
    <3> QED
      BY <1>20, <1>a, <3>1 DEF FaultToGdb, OtherTypes
  <2> QED
    BY <1>20, <1>a, <2>2, <2>3, <2>4 DEF FaultToGdb, OtherTypes
<1>21. CASE Drop
  <2>1. toServer' \in Seq(Bytes)
    BY <1>21, <1>c, SubSeqFacts DEF Drop
  <2>2. drops' \in 0..MaxDrops
    BY <1>21, <1>a, FaultsAssumption DEF Drop, OtherTypes
  <2> QED
    BY <1>21, <1>a, <2>1, <2>2 DEF Drop, OtherTypes
<1>22. CASE Connect
  <2>1. toGdb' \in Seq(Bytes)
    BY <1>22, <1>c, SubSeqFacts DEF Connect
  <2> QED
    BY <1>22, <1>a, <2>1 DEF Connect, OtherTypes
<1>23. CASE QuitKey
  <2>1. keys' \in 0..MaxKeys
    BY <1>23, <1>a, FaultsAssumption DEF QuitKey, OtherTypes
  <2> QED
    BY <1>23, <1>a, <2>1 DEF QuitKey, OtherTypes
<1>24. CASE Done \/ UNCHANGED vars
  BY <1>24, <1>a DEF Done, vars, OtherTypes
<1> QED
  BY <1>1, <1>2, <1>3, <1>4, <1>5, <1>6, <1>7, <1>8, <1>9, <1>10, <1>11, <1>12, <1>13, <1>14,
     <1>15, <1>16, <1>17, <1>18, <1>19, <1>20, <1>21, <1>22, <1>23, <1>24, <1>25
     DEF Next, Server, Gdb

-----------------------------------------------------------------------------
(* The order of what travels *)

\* A part of a sequence keeps the order.
LEMMA PartInOrder ==
  ASSUME NEW s \in Seq(Bytes), NEW t \in Seq(Bytes), NEW k \in Nat,
         \A i \in DOMAIN t : i + k \in DOMAIN s /\ t[i] = s[i + k]
  PROVE  /\ \A low, high : Within(s, low, high) => Within(t, low, high)
         /\ Rising(s) => Rising(t)
         /\ Signals(s) => Signals(t)
         /\ \A u : Below(u, s) => Below(u, t)
<1>1. \A i, j \in DOMAIN t : i < j => i + k < j + k
  OBVIOUS
<1> QED
  BY <1>1 DEF Within, Rising, Signals, Below

\* So do the tail, the beginning and the end of one.
LEMMA PartsInOrder ==
  ASSUME NEW s \in Seq(Bytes), NEW t \in Seq(Bytes),
         \/ s # <<>> /\ t = Tail(s)
         \/ \E k \in 0..Len(s) : t = SubSeq(s, 1, k)
         \/ \E k \in 0..Len(s) : t = SubSeq(s, k + 1, Len(s))
  PROVE  /\ \A low, high : Within(s, low, high) => Within(t, low, high)
         /\ Rising(s) => Rising(t)
         /\ Signals(s) => Signals(t)
         /\ \A u : Below(u, s) => Below(u, t)
<1>0. Len(s) \in Nat /\ DOMAIN s = 1..Len(s)
  OBVIOUS
<1>1. ASSUME s # <<>>, t = Tail(s)
      PROVE  1 \in Nat /\ \A i \in DOMAIN t : i + 1 \in DOMAIN s /\ t[i] = s[i + 1]
  <2>1. DOMAIN t = 1..(Len(s) - 1) /\ \A i \in 1..(Len(s) - 1) : t[i] = s[i + 1]
    BY <1>1, TailFacts
  <2>2. \A i \in 1..(Len(s) - 1) : i + 1 \in 1..Len(s)
    BY <1>0
  <2> QED
    BY <1>0, <2>1, <2>2
<1>6. CASE s # <<>> /\ t = Tail(s)
  BY <1>1, <1>6, PartInOrder
<1>2. ASSUME NEW k \in 0..Len(s), t = SubSeq(s, 1, k)
      PROVE  0 \in Nat /\ \A i \in DOMAIN t : i + 0 \in DOMAIN s /\ t[i] = s[i + 0]
  <2>1. DOMAIN t = 1..k /\ \A i \in 1..k : t[i] = s[i]
    BY <1>2, SubSeqFacts
  <2>2. \A i \in 1..k : i + 0 = i /\ i \in 1..Len(s)
    BY <1>0
  <2> QED
    BY <1>0, <2>1, <2>2
<1>3. ASSUME NEW k \in 0..Len(s), t = SubSeq(s, k + 1, Len(s))
      PROVE  k \in Nat /\ \A i \in DOMAIN t : i + k \in DOMAIN s /\ t[i] = s[i + k]
  <2>1. DOMAIN t = 1..(Len(s) - k) /\ \A i \in 1..(Len(s) - k) : t[i] = s[i + k]
    BY <1>3, SubSeqFacts
  <2>2. k \in Nat /\ \A i \in 1..(Len(s) - k) : i + k \in 1..Len(s)
    BY <1>0
  <2> QED
    BY <1>0, <2>1, <2>2
<1>4. CASE \E k \in 0..Len(s) : t = SubSeq(s, 1, k)
  BY <1>2, <1>4, PartInOrder
<1>5. CASE \E k \in 0..Len(s) : t = SubSeq(s, k + 1, Len(s))
  BY <1>3, <1>5, PartInOrder
<1> QED
  BY <1>4, <1>5, <1>6

\* A byte is added at the end.
LEMMA AddedInOrder ==
  ASSUME NEW s \in Seq(Bytes), NEW c \in Bytes, NEW low \in Nat, NEW high \in Nat,
         c.n = 0 \/ (low <= c.n /\ c.n <= high)
  PROVE  /\ Within(s, low, high) => Within(Append(s, c), low, high)
         /\ Rising(s) /\ (c.n = 0 \/ (c.n = high /\ Within(s, low, high))) => Rising(Append(s, c))
         /\ Signals(s) /\ c.kind \in {"+", "-", "reply", "junk"} => Signals(Append(s, c))
         /\ \A t : Below(s, t) /\ (\A j \in DOMAIN t : t[j].n # 0 => c.n <= t[j].n)
                     => Below(Append(s, c), t)
<1> DEFINE t == Append(s, c)
<1>1. /\ Len(s) \in Nat /\ DOMAIN s = 1..Len(s) /\ DOMAIN t = 1..(Len(s) + 1)
      /\ t[Len(s) + 1] = c /\ \A i \in 1..Len(s) : t[i] = s[i]
  OBVIOUS
<1> HIDE DEF t
<1>2. \A i \in DOMAIN t : (i \in DOMAIN s /\ t[i] = s[i]) \/ (i = Len(s) + 1 /\ t[i] = c)
  BY <1>1
<1>3. \A b \in Bytes : b.n \in Nat
  BY ByteFacts, RequestsAssumption
<1>4. \A i \in DOMAIN s : s[i] \in Bytes /\ s[i].n \in Nat
  BY <1>3
<1>5. Within(s, low, high) => Within(t, low, high)
  BY <1>2 DEF Within
<1>6. Signals(s) /\ c.kind \in {"+", "-", "reply", "junk"} => Signals(t)
  BY <1>2 DEF Signals
<1>7. \A u : Below(s, u) /\ (\A j \in DOMAIN u : u[j].n # 0 => c.n <= u[j].n) => Below(t, u)
  BY <1>2 DEF Below
<1>8. Rising(s) /\ (c.n = 0 \/ (c.n = high /\ Within(s, low, high))) => Rising(t)
  <2> SUFFICES ASSUME Rising(s), c.n = 0 \/ (c.n = high /\ Within(s, low, high)),
                      NEW i \in DOMAIN t, NEW j \in DOMAIN t, i < j, t[j].n # 0
               PROVE  t[i].n <= t[j].n
    BY DEF Rising
  <2>1. i \in DOMAIN s /\ t[i] = s[i]
    BY <1>1, <1>2
  <2>2. CASE j \in DOMAIN s /\ t[j] = s[j]
    BY <2>1, <2>2 DEF Rising
  <2>3. CASE j = Len(s) + 1 /\ t[j] = c
    BY <2>1, <2>3, <1>4 DEF Within
  <2> QED
    BY <1>2, <2>2, <2>3
<1> QED
  BY <1>5, <1>6, <1>7, <1>8 DEF t

\* Bytes of the last request are sent behind those before.
LEMMA SentInOrder ==
  ASSUME NEW s \in Seq(Bytes), NEW p \in Seq(Bytes), NEW low \in Nat, NEW high \in Nat,
         NEW n \in Nat, low <= high, high <= n, Own(p, n), Within(s, low, high)
  PROVE  /\ Within(s \o p, low, n)
         /\ Rising(s) => Rising(s \o p)
         /\ \A u \in Seq(Bytes) : Below(u, s) /\ Within(u, low, high) => Below(u, s \o p)
<1> DEFINE t == s \o p
<1>1. /\ Len(s) \in Nat /\ Len(p) \in Nat /\ DOMAIN s = 1..Len(s) /\ DOMAIN p = 1..Len(p)
      /\ DOMAIN t = 1..(Len(s) + Len(p))
      /\ \A i \in 1..Len(s) : t[i] = s[i]
      /\ \A i \in 1..Len(p) : t[Len(s) + i] = p[i]
  OBVIOUS
<1> HIDE DEF t
<1>2. \A j \in DOMAIN t : \/ j \in DOMAIN s /\ t[j] = s[j]
                          \/ j > Len(s) /\ \E i \in DOMAIN p : t[j] = p[i]
  <2> TAKE j \in DOMAIN t
  <2>1. CASE j <= Len(s)
    BY <1>1, <2>1
  <2>2. CASE j > Len(s)
    <3>1. j - Len(s) \in 1..Len(p) /\ j = Len(s) + (j - Len(s))
      BY <1>1, <2>2
    <3> QED
      BY <1>1, <2>2, <3>1
  <2> QED
    BY <1>1, <2>1, <2>2
<1>3. \A j \in DOMAIN t : \/ j \in DOMAIN s /\ t[j] = s[j]
                          \/ j > Len(s) /\ t[j].n \in {0, n}
  BY <1>2 DEF Own
<1>4. /\ \A b \in Bytes : b.n \in Nat
      /\ \A i \in DOMAIN s : s[i] \in Bytes
  BY ByteFacts, RequestsAssumption
<1>5. Within(t, low, n)
  <2> SUFFICES ASSUME NEW j \in DOMAIN t, t[j].n # 0 PROVE low <= t[j].n /\ t[j].n <= n
    BY DEF Within
  <2>1. CASE j \in DOMAIN s /\ t[j] = s[j]
    BY <2>1, <1>4 DEF Within
  <2> QED
    BY <1>3, <2>1
<1>6. Rising(s) => Rising(t)
  <2> SUFFICES ASSUME Rising(s), NEW i \in DOMAIN t, NEW j \in DOMAIN t, i < j, t[j].n # 0
               PROVE  t[i].n <= t[j].n
    BY DEF Rising
  <2>1. CASE j \in DOMAIN s /\ t[j] = s[j]
    <3>1. i \in DOMAIN s /\ t[i] = s[i]
      BY <1>1, <2>1
    <3> QED
      BY <2>1, <3>1 DEF Rising
  <2>2. CASE t[j].n = n
    <3>1. CASE i \in DOMAIN s /\ t[i] = s[i]
      BY <2>2, <3>1, <1>4 DEF Within
    <3> QED
      BY <1>3, <2>2, <3>1
  <2> QED
    BY <1>3, <2>1, <2>2
<1>7. \A u \in Seq(Bytes) : Below(u, s) /\ Within(u, low, high) => Below(u, t)
  <2> SUFFICES ASSUME NEW u \in Seq(Bytes), Below(u, s), Within(u, low, high),
                      NEW i \in DOMAIN u, NEW j \in DOMAIN t, t[j].n # 0
               PROVE  u[i].n <= t[j].n
    BY DEF Below
  <2>1. CASE j \in DOMAIN s /\ t[j] = s[j]
    BY <2>1 DEF Below
  <2>2. CASE t[j].n = n
    <3>1. u[i] \in Bytes /\ u[i].n \in Nat
      BY <1>4
    <3> QED
      BY <2>2, <3>1 DEF Within
  <2> QED
    BY <1>3, <2>1, <2>2
<1> QED
  BY <1>5, <1>6, <1>7 DEF t

\* A damaged byte has no number.
LEMMA DamagedInOrder ==
  ASSUME NEW s \in Seq(Bytes), s # <<>>, NEW c \in Bytes, c.n = 0
  PROVE  /\ \A low, high : Within(s, low, high) => Within(<<c>> \o Tail(s), low, high)
         /\ Rising(s) => Rising(<<c>> \o Tail(s))
         /\ Signals(s) /\ c.kind \in {"+", "-", "reply", "junk"} => Signals(<<c>> \o Tail(s))
         /\ \A u : Below(u, s) => Below(u, <<c>> \o Tail(s))
<1> DEFINE t == <<c>> \o Tail(s)
<1>1. /\ t \in Seq(Bytes) /\ Len(t) = Len(s) /\ t[1] = c
      /\ \A i \in 2..Len(s) : t[i] = s[i]
  BY TailFacts
<1>2. DOMAIN t = 1..Len(s) /\ DOMAIN s = 1..Len(s) /\ Len(s) \in Nat
  BY <1>1
<1> HIDE DEF t
<1>3. \A i \in DOMAIN t : i \in DOMAIN s /\ (t[i] = c \/ t[i] = s[i])
  BY <1>1, <1>2
<1>4. \A i \in DOMAIN s : s[i] \in Bytes /\ s[i].n \in Nat
  BY ByteFacts, RequestsAssumption
<1>5. Rising(s) => Rising(t)
  <2> SUFFICES ASSUME Rising(s), NEW i \in DOMAIN t, NEW j \in DOMAIN t, i < j, t[j].n # 0
               PROVE  t[i].n <= t[j].n
    BY DEF Rising
  <2>1. j \in DOMAIN s /\ t[j] = s[j] /\ i \in DOMAIN s /\ (t[i] = c \/ t[i] = s[i])
    BY <1>3
  <2>2. s[i].n <= s[j].n
    BY <2>1 DEF Rising
  <2> QED
    BY <1>4, <2>1, <2>2
<1>6. /\ \A low, high : Within(s, low, high) => Within(t, low, high)
      /\ Signals(s) /\ c.kind \in {"+", "-", "reply", "junk"} => Signals(t)
      /\ \A u : Below(u, s) => Below(u, t)
  BY <1>3 DEF Within, Signals, Below
<1> QED
  BY <1>5, <1>6 DEF t

-----------------------------------------------------------------------------
(* The conversation *)

\* What is known of it while nothing is left of one that was cut.
Whole == Talking /\ HandlesLast /\ TakenOnce

\* What gdb finds at the head of the line, and what it leaves.
LEMMA GdbReads ==
  ASSUME LinkInv, "drop" \notin hit, toGdb # <<>>
  PROVE  /\ connected /\ Talking /\ Quiet /\ gdb \in {"ack", "reply"}
         /\ gdb = "ack" =>
              \/ Head(toGdb) \in Acks /\ Tail(toGdb) = <<>>
              \/ /\ executed = sent /\ ~Busy
                 /\ Head(toGdb) \in AnswerOf(sent) /\ Tail(toGdb) = <<>>
              \/ /\ executed = sent /\ ~Busy
                 /\ Head(toGdb) \in {Sign("+"), Sign("junk")}
                 /\ \E r \in AnswerOf(sent) : Tail(toGdb) = <<r>>
         /\ gdb = "reply" => /\ executed = sent /\ ~Busy
                             /\ Head(toGdb) \in AnswerOf(sent) /\ Tail(toGdb) = <<>>
<1>1. Talking /\ gdb \in {"idle", "ack", "reply"}
  BY DEF LinkInv, TypeOK
<1>2. gdb \in {"ack", "reply"} /\ Quiet /\ connected
  BY <1>1 DEF Talking, LinkInv, Asking
<1>3. \A c, r : /\ Head(<<c>>) = c /\ Tail(<<c>>) = <<>> /\ Len(<<c>>) = 1 /\ <<c>>[1] = c
                /\ Head(<<c, r>>) = c /\ Tail(<<c, r>>) = <<r>> /\ Len(<<c, r>>) = 2
  OBVIOUS
<1>4. CASE gdb = "reply"
  BY <1>1, <1>2, <1>3, <1>4 DEF Talking, ToGdbWhileReply
<1>5. CASE gdb = "ack"
  <2>1. CASE \E c \in Acks : toGdb = <<c>>
    BY <1>1, <1>2, <1>3, <1>5, <2>1
  <2>2. ASSUME executed = sent, NEW r \in AnswerOf(sent),
               toGdb = <<r>> \/ \E c \in {Sign("+"), Sign("junk")} : toGdb = <<c, r>>
        PROVE  ~Busy
    <3>1. SUFFICES ASSUME Busy PROVE FALSE
      OBVIOUS
    <3>2. toGdb = <<Sign("+")>> \/ toGdb = <<Sign("junk")>>
      BY <1>1, <1>5, <3>1 DEF Talking
    <3>3. toGdb = <<r>> /\ (r = Sign("+") \/ r = Sign("junk"))
      BY <1>3, <2>2, <3>2
    <3>4. r.kind = "reply"
      BY ByteFacts DEF AnswerOf
    <3> QED
      BY <3>3, <3>4, ByteFacts
  <2>3. CASE /\ executed = sent
             /\ \E r \in AnswerOf(sent) :
                  toGdb = <<r>> \/ \E c \in {Sign("+"), Sign("junk")} : toGdb = <<c, r>>
    BY <1>1, <1>2, <1>3, <1>5, <2>2, <2>3
  <2> QED
    BY <1>1, <1>5, <2>1, <2>3 DEF Talking, ToGdbWhileAck
<1> QED
  BY <1>1, <1>2, <1>4, <1>5

\* What is left of the line when the server has taken a byte, or an error for one.
LEMMA ByteRead ==
  ASSUME toServer \in Seq(Bytes), NEW c, GetByte(c) \/ (c = Sign("junk") /\ Misread), NEW n
  PROVE  /\ OneStart(toServer, n) => OneStart(toServer', n)
         /\ NoStart(toServer) => NoStart(toServer')
         /\ OneCopy(toServer, n) => OneCopy(toServer', n) /\ NoStart(toServer') /\ c.n \in {0, n}
<1>1. CASE toServer # <<>> /\ c = Head(toServer) /\ toServer' = Tail(toServer)
  BY <1>1, HeadGone
<1>2. CASE toServer = <<>> /\ c = Sign("junk") /\ toServer' = <<>>
  <2>1. DOMAIN <<>> = {}
    OBVIOUS
  <2> QED
    BY <1>2, <2>1, ByteFacts DEF NoStart
<1> QED
  BY <1>1, <1>2, ByteTaken

\* The server receives.
LEMMA StepReceive ==
  ASSUME LinkInv, "drop" \notin hit, NEW c \in Bytes,
         WaitStart(c) \/ Payload(c) \/ Escaped(c) \/ FirstSum(c) \/ WaitForAck(c)
  PROVE  Whole'
<1>1. Talking /\ HandlesLast /\ TakenOnce /\ gdb \in {"idle", "ack", "reply"}
      /\ toServer \in Seq(Bytes) /\ inPacket \in Seq(Bytes)
  BY DEF LinkInv, TypeOK
<1>2. UNCHANGED <<toGdb, executed, times, gdb, sent, hit, connected>>
      /\ ~Busy /\ ~Busy'
  BY DEF WaitStart, Payload, Escaped, FirstSum, WaitForAck, Waiting, Busy
<1>3. HandlesLast' /\ TakenOnce'
  BY <1>1, <1>2 DEF HandlesLast, TakenOnce, Busy
<1>5. DOMAIN <<>> = {}
  OBVIOUS
<1>6. /\ OneStart(toServer, sent) => OneStart(toServer', sent)
      /\ NoStart(toServer) => NoStart(toServer')
      /\ OneCopy(toServer, sent) => OneCopy(toServer', sent) /\ NoStart(toServer')
                                    /\ c.n \in {0, sent}
  <2>1. GetByte(c) \/ (c = Sign("junk") /\ Misread)
    BY DEF WaitStart, Payload, Escaped, FirstSum, WaitForAck
  <2> QED
    BY <1>1, <2>1, ByteRead
<1>7. CASE ~Reading'
  <2>1. Quiet => Quiet'
    BY <1>6, <1>7 DEF Quiet
  <2>2. Reading => gdb = "ack" /\ toGdb = <<>>
    BY <1>1 DEF Talking
  <2>3. toGdb # <<>> => Quiet
    BY GdbReads
  <2> QED
    BY <1>1, <1>2, <1>3, <1>6, <1>7, <2>1, <2>2, <2>3
       DEF Talking, Whole, ToGdbWhileAck, ToGdbWhileReply, Busy
<1>8. CASE Reading'
  <2>1. gdb = "ack" /\ toGdb = <<>> /\ OneCopy(toServer', sent) /\ Own(inPacket', sent)
    <3>1. CASE WaitStart(c)
      <4>1. c = Sign("$") /\ inPacket' = <<>> /\ toServer # <<>> /\ point = "start"
        BY <1>8, <3>1 DEF WaitStart, Reading, GetByte
      <4>2. ~Quiet /\ OneCopy(toServer', sent)
        <5>1. c = Head(toServer) /\ toServer' = Tail(toServer)
          BY <3>1 DEF WaitStart, GetByte
        <5> QED
          BY <1>1, <4>1, <5>1, HeadGone DEF Quiet, Talking
      <4>3. gdb = "ack" /\ toGdb = <<>>
        BY <1>1, <4>2 DEF Talking
      <4> QED
        BY <1>5, <4>1, <4>2, <4>3 DEF Own
    <3>2. CASE Reading
      <4>1. /\ gdb = "ack" /\ toGdb = <<>> /\ OneCopy(toServer', sent) /\ Own(inPacket, sent)
            /\ c.n \in {0, sent}
        BY <1>1, <1>6, <3>2 DEF Talking
      <4>2. \/ inPacket' = inPacket \/ inPacket' = Append(inPacket, c)
            \/ inPacket' = Append(inPacket, Sign("junk"))
        BY <1>8, <3>2 DEF WaitStart, Payload, Escaped, FirstSum, WaitForAck, Reading
      <4>3. ASSUME NEW d \in Bytes, d.n \in {0, sent} PROVE Own(Append(inPacket, d), sent)
        BY <1>1, <4>1, <4>3 DEF Own
      <4> QED
        BY <4>1, <4>2, <4>3, SignsAreBytes, ByteFacts
    <3> QED
      BY <1>8, <3>1, <3>2 DEF Payload, Escaped, FirstSum, WaitForAck, Reading, Waiting
  <2> QED
    BY <1>1, <1>2, <1>3, <1>6, <1>8, <2>1
       DEF Talking, Whole, ToGdbWhileAck, ToGdbWhileReply, Busy
<1> QED
  BY <1>7, <1>8

\* The packet is complete.
LEMMA StepSecondSum ==
  ASSUME LinkInv, "drop" \notin hit, NEW c \in Bytes, SecondSum(c)
  PROVE  Whole'
<1>1. Talking /\ HandlesLast /\ TakenOnce /\ toServer \in Seq(Bytes)
      /\ inPacket \in Seq(Bytes) /\ times \in 0..2
  BY DEF LinkInv, TypeOK
<1>2. UNCHANGED <<executed, times, gdb, sent, hit, connected>> /\ point = "sum2"
  BY DEF SecondSum
<1>3. /\ gdb = "ack" /\ toGdb = <<>> /\ OneCopy(toServer, sent) /\ Own(inPacket, sent)
      /\ connected
  BY <1>1, <1>2 DEF Talking, Reading, LinkInv, Asking
<1>4. OneStart(toServer', sent) /\ NoStart(toServer') /\ c.n \in {0, sent}
  BY <1>1, <1>3, ByteRead DEF SecondSum, Talking
<1>5. inPacket' = Append(inPacket, c) /\ Own(inPacket', sent)
  BY <1>1, <1>3, <1>4 DEF SecondSum, Own
<1>6. \/ SumOK(inPacket') /\ point' = "handle" /\ toGdb' = <<Sign("+")>>
      \/ ~SumOK(inPacket') /\ point' = "start" /\ toGdb' = <<Sign("-")>>
  <2>1. \A d : Append(<<>>, d) = <<d>>
    OBVIOUS
  <2>2. Len(<<>>) < TxRoom
    BY RoomAssumption
  <2> QED
    BY <1>3, <2>1, <2>2 DEF SecondSum, PutByte, Waiting
<1>7. times > 0 => "+" \in hit
  BY <1>1, <1>3, <1>2 DEF TakenOnce
<1>8. \A d : <<d>> # <<>> /\ <<d>>[1] = d
  OBVIOUS
<1>9. TakenOnce'
  BY <1>1, <1>2, <1>6, <1>7, <1>8 DEF TakenOnce
<1>10. HandlesLast'
  <2> SUFFICES ASSUME SumOK(inPacket') PROVE Len(inPacket') = 3 /\ inPacket'[1].n = sent
    BY <1>2, <1>6 DEF HandlesLast
  <2>1. PICK n \in 1..NumRequests :
          inPacket' = <<Byte("data", n), Byte("sum1", n), Byte("sum2", n)>>
    BY DEF SumOK
  <2>2. Len(inPacket') = 3 /\ DOMAIN inPacket' = 1..3 /\ inPacket'[1] = Byte("data", n)
    BY <2>1
  <2>3. inPacket'[1].n = n
    BY <2>2, ByteFacts
  <2>4. inPacket'[1].n \in {0, sent}
    BY <1>5, <2>2 DEF Own
  <2> QED
    BY <2>2, <2>3, <2>4
<1>11. Talking'
  <2>1. ~Reading' /\ Quiet'
    BY <1>4, <1>6 DEF Reading, Quiet
  <2>2. ToGdbWhileAck'
    BY <1>6 DEF ToGdbWhileAck, Acks
  <2> QED
    BY <1>2, <1>3, <1>4, <1>6, <1>8, <2>1, <2>2 DEF Talking, Busy
<1> QED
  BY <1>1, <1>2, <1>9, <1>10, <1>11 DEF Whole

\* The server answers the request it was sent last.
LEMMA ExecutesLast ==
  ASSUME LinkInv, "drop" \notin hit, Handle
  PROVE  executed' = sent
<1>1. Len(inPacket) = 3 /\ inPacket[1].n = sent /\ inPacket \in Seq(Bytes)
  BY DEF LinkInv, HandlesLast, TypeOK, Handle
<1>2. inPacket # <<>>
  BY <1>1
<1> QED
  BY <1>1, <1>2, TailFacts DEF Handle

\* The request is executed.
LEMMA StepHandle ==
  ASSUME LinkInv, "drop" \notin hit, Handle
  PROVE  Whole'
<1>1. Talking /\ HandlesLast /\ TakenOnce /\ times \in 0..2
      /\ gdb \in {"idle", "ack", "reply"} /\ executed' = sent
  BY ExecutesLast DEF LinkInv, TypeOK
<1>2. UNCHANGED <<toServer, toGdb, inPacket, gdb, sent, hit, connected>> /\ point = "handle"
  BY DEF Handle
<1>3. Busy /\ gdb # "idle" /\ NoStart(toServer)
      /\ (gdb = "ack" => toGdb \in {<<>>, <<Sign("+")>>, <<Sign("junk")>>})
      /\ (gdb = "reply" => toGdb = <<>>)
  BY <1>1, <1>2 DEF Talking, ToGdbWhileReply, Busy
<1>4. point' = "transmit" /\ Busy' /\ ~Reading'
  BY <1>3 DEF Handle, LinkInv, Asking, Busy, Reading
<1>5. times' > 0 /\ (times' > 1 => times > 0)
  BY <1>1 DEF Handle
<1>6. ToGdbWhileReply' \/ gdb # "reply"
  BY <1>2, <1>3 DEF ToGdbWhileReply
<1>7. gdb = "ack" => ToGdbWhileAck'
  BY <1>2, <1>3 DEF ToGdbWhileAck, Acks
<1>8. Talking'
  BY <1>1, <1>2, <1>3, <1>4, <1>6, <1>7 DEF Talking, Quiet
<1>9. TakenOnce' /\ HandlesLast'
  BY <1>1, <1>2, <1>3, <1>4, <1>5 DEF TakenOnce, HandlesLast
<1> QED
  BY <1>8, <1>9 DEF Whole

\* Its reply is transmitted.
LEMMA StepTransmit ==
  ASSUME LinkInv, "drop" \notin hit, Transmit
  PROVE  Whole'
<1>1. Talking /\ HandlesLast /\ TakenOnce /\ times \in 0..2
      /\ gdb \in {"idle", "ack", "reply"}
  BY DEF LinkInv, TypeOK
<1>2. /\ UNCHANGED <<toServer, inPacket, executed, times, gdb, sent, hit, connected>>
      /\ Busy /\ ~Busy' /\ ~Reading' /\ point' # "handle" /\ executed = sent
  BY <1>1 DEF Transmit, Waiting, Reading, Busy, Talking
<1>5. /\ NoStart(toServer) /\ gdb # "idle"
      /\ gdb = "ack" => toGdb \in {<<>>, <<Sign("+")>>, <<Sign("junk")>>}
      /\ gdb = "reply" => toGdb = <<>>
  BY <1>1, <1>2 DEF Talking, ToGdbWhileReply
<1>4. toGdb' = Append(toGdb, Byte("reply", sent))
  <2>1. connected
    BY <1>5 DEF LinkInv, Asking
  <2> QED
    BY <1>2, <2>1 DEF Transmit, PutByte
<1>6. \A c, d : /\ Append(<<>>, d) = <<d>> /\ Append(<<c>>, d) = <<c, d>>
                /\ <<c, d>>[1] = c /\ <<c, d>> # <<>>
  <2> TAKE c, d
  <2>1. <<c>> \in Seq({c, d}) /\ Len(<<c>>) = 1 /\ d \in {c, d} /\ <<c>>[1] = c
    OBVIOUS
  <2>2. /\ Append(<<c>>, d) \in Seq({c, d}) /\ Len(Append(<<c>>, d)) = 2
        /\ Append(<<c>>, d)[1] = c /\ Append(<<c>>, d)[2] = d
    BY <2>1, AppendProperties
  <2>3. /\ <<c, d>> \in Seq({c, d}) /\ Len(<<c, d>>) = 2
        /\ <<c, d>>[1] = c /\ <<c, d>>[2] = d
    OBVIOUS
  <2>4. \A i \in 1..2 : i = 1 \/ i = 2
    OBVIOUS
  <2>5. Append(<<c>>, d) = <<c, d>>
    BY <2>2, <2>3, <2>4, SeqEqual
  <2> QED
    BY <2>5
<1>7. /\ gdb = "ack" => ToGdbWhileAck'
      /\ gdb = "reply" => ToGdbWhileReply'
  BY <1>2, <1>4, <1>5, <1>6 DEF ToGdbWhileAck, ToGdbWhileReply, AnswerOf
<1>8. Talking'
  BY <1>1, <1>2, <1>5, <1>7 DEF Talking, Quiet, Busy
<1>9. TakenOnce'
  <2>1. gdb = "ack" /\ times > 0 /\ "+" \notin hit =>
          toGdb' = <<Sign("+"), Byte("reply", sent)>>
    <3> SUFFICES ASSUME gdb = "ack", times > 0, "+" \notin hit
                 PROVE  toGdb' = <<Sign("+"), Byte("reply", sent)>>
      OBVIOUS
    <3>1. toGdb # <<>> /\ toGdb[1] = Sign("+")
      BY <1>1, <1>2 DEF TakenOnce
    <3>2. Sign("junk") # Sign("+") /\ <<Sign("junk")>>[1] = Sign("junk")
      BY ByteFacts
    <3>3. toGdb = <<Sign("+")>>
      BY <1>5, <3>1, <3>2
    <3> QED
      BY <1>4, <1>6, <3>3
  <2> QED
    BY <1>1, <1>2, <1>6, <2>1 DEF TakenOnce
<1> QED
  BY <1>2, <1>8, <1>9 DEF Whole, HandlesLast

\* What else the server does.
LEMMA StepWait ==
  ASSUME LinkInv, "drop" \notin hit, WaitConnection \/ Interrupted
  PROVE  Whole'
<1>1. Talking /\ HandlesLast /\ TakenOnce
  BY DEF LinkInv
<1>2. /\ UNCHANGED <<toServer, toGdb, executed, times, gdb, sent, hit, connected>>
      /\ ~Busy /\ ~Busy' /\ ~Reading'
  BY DEF WaitConnection, Interrupted, Killed, Dropped, Reading, Busy
<1>3. Quiet => Quiet'
  BY <1>2 DEF Quiet
<1>4. Talking'
  <2>1. Reading => gdb = "ack" /\ toGdb = <<>>
    BY <1>1 DEF Talking
  <2>2. toGdb # <<>> => Quiet
    BY GdbReads
  <2> QED
    BY <1>1, <1>2, <1>3, <2>1, <2>2 DEF Talking, ToGdbWhileAck, ToGdbWhileReply, Busy
<1> QED
  BY <1>1, <1>2, <1>4 DEF Whole, HandlesLast, TakenOnce, Busy

\* gdb asks.
LEMMA StepRequest ==
  ASSUME LinkInv, Request, "drop" \notin hit \/ Settled
  PROVE  Whole'
<1>1. toServer \in Seq(Bytes) /\ sent \in 0..NumRequests
  BY DEF LinkInv, TypeOK
<1>2. NoStart(toServer) /\ toGdb = <<>> /\ ~Reading /\ ~Busy
  <2>1. CASE "drop" \notin hit
    BY <2>1 DEF LinkInv, Talking, Quiet, Request
  <2>2. CASE Settled
    <3>1. DOMAIN <<>> = {}
      OBVIOUS
    <3> QED
      BY <2>2, <3>1 DEF Settled, NoStart, Reading, Busy
  <2> QED
    BY <2>1, <2>2
<1>3. /\ UNCHANGED <<toGdb, point, connected>> /\ gdb' = "ack" /\ times' = 0
      /\ sent' = sent + 1 /\ sent' \in 1..NumRequests /\ toServer' = toServer \o Packet(sent')
  BY <1>1, RequestsAssumption DEF Request, Send
<1>4. OneStart(toServer', sent')
  BY <1>1, <1>2, <1>3, SentBytes, SentBehind
<1>5. Talking'
  BY <1>2, <1>3, <1>4 DEF Talking, Reading, ToGdbWhileAck, Busy
<1> QED
  BY <1>2, <1>3, <1>5 DEF Whole, HandlesLast, TakenOnce, Busy

\* gdb reads.
LEMMA StepGdbReads ==
  ASSUME LinkInv, "drop" \notin hit,
         Acknowledged \/ Refused \/ Gobbled \/ Answered \/ ReplyRefused \/ Skipped
  PROVE  Whole'
<1>1. PICK c : FromServer(c)
  BY DEF Acknowledged, Refused, Gobbled, Answered, ReplyRefused, Skipped
<1>2. /\ toGdb # <<>> /\ c = Head(toGdb) /\ toGdb' = Tail(toGdb)
  BY <1>1 DEF FromServer
<1>3. /\ Talking /\ HandlesLast /\ TakenOnce /\ ~Reading
      /\ NoStart(toServer) /\ toServer \in Seq(Bytes) /\ toGdb \in Seq(Bytes)
      /\ gdb \in {"ack", "reply"} /\ sent \in 1..NumRequests
  BY <1>2, GdbReads, RequestsAssumption DEF LinkInv, TypeOK, Asking, Quiet
<1>4. UNCHANGED <<point, inPacket, executed, times, sent, hit, connected>>
  BY DEF Acknowledged, Refused, Gobbled, Answered, ReplyRefused, Skipped
<1>5. c = toGdb[1]
  BY <1>2, <1>3, TailFacts
<1>6. /\ gdb = "ack" =>
           \/ c \in Acks /\ toGdb' = <<>>
           \/ /\ executed = sent /\ ~Busy /\ c \in AnswerOf(sent) /\ toGdb' = <<>>
           \/ /\ executed = sent /\ ~Busy /\ c \in {Sign("+"), Sign("junk")}
              /\ \E r \in AnswerOf(sent) : toGdb' = <<r>>
      /\ gdb = "reply" => /\ executed = sent /\ ~Busy
                          /\ c \in AnswerOf(sent) /\ toGdb' = <<>>
  BY <1>2, GdbReads
<1>7. \A kind, n : Byte(kind, n).kind = kind /\ Sign(kind).kind = kind
  BY ByteFacts
<1>8. HandlesLast'
  BY <1>3, <1>4 DEF HandlesLast
<1>9. c # Sign("+") \/ gdb' # "ack" => TakenOnce'
  BY <1>3, <1>4, <1>5 DEF TakenOnce, Acknowledged, Refused, Gobbled, Answered, ReplyRefused,
                          Skipped
<1>10. ASSUME NoStart(toServer') \/ (OneStart(toServer', sent) /\ gdb' = "ack" /\ toGdb' = <<>>
                                     /\ ~Busy),
              gdb' = "ack" => ToGdbWhileAck',
              gdb' = "reply" => ToGdbWhileReply',
              gdb' = "idle" => toGdb' = <<>> /\ ~Busy,
              Busy => toGdb' = <<>>
       PROVE  Talking'
  <2>1. NoStart(toServer') => OneStart(toServer', sent)
    BY DEF NoStart, OneStart
  <2> QED
    BY <1>3, <1>4, <1>10, <2>1 DEF Talking, Quiet, Reading, Busy
<1>11. ASSUME Talking', TakenOnce' PROVE Whole'
  BY <1>8, <1>11 DEF Whole
<1>12. /\ NoStart(toServer \o <<Sign("+")>>) /\ NoStart(toServer \o <<Sign("-")>>)
       /\ OneStart(toServer \o Packet(sent), sent)
  BY <1>3, SentBytes, SentBehind
<1>13. CASE Acknowledged
  <2>1. c = Sign("+") /\ gdb = "ack" /\ gdb' = "reply" /\ UNCHANGED toServer
    BY <1>2, <1>13 DEF Acknowledged, FromServer
  <2>2. c \notin AnswerOf(sent)
    BY <2>1, <1>7 DEF AnswerOf
  <2>3. /\ toGdb' = <<>> \/ (executed = sent /\ ~Busy /\ \E r \in AnswerOf(sent) : toGdb' = <<r>>)
        /\ Busy => toGdb' = <<>>
    BY <1>6, <2>1, <2>2
  <2>4. ToGdbWhileReply'
    BY <1>4, <2>3 DEF ToGdbWhileReply, Busy
  <2> QED
    BY <1>3, <1>9, <1>10, <1>11, <2>1, <2>3, <2>4
<1>14. CASE Refused
  <2>1. /\ c = Sign("-") /\ gdb = "ack" /\ gdb' = "ack" /\ toServer' = toServer \o Packet(sent)
    BY <1>2, <1>14 DEF Refused, FromServer, Send
  <2>2. c \notin AnswerOf(sent) /\ c # Sign("+") /\ c # Sign("junk")
    BY <2>1, <1>7 DEF AnswerOf
  <2>3. toGdb' = <<>>
    BY <1>6, <2>1, <2>2
  <2>4. ~Busy
    <3>1. toGdb \notin {<<>>, <<Sign("+")>>, <<Sign("junk")>>}
      BY <1>2, <1>5, <2>2
    <3> QED
      BY <1>3, <2>1, <3>1 DEF Talking
  <2> QED
    BY <1>9, <1>10, <1>11, <1>12, <2>1, <2>2, <2>3, <2>4 DEF ToGdbWhileAck
<1>15. CASE Gobbled
  <2>1. PICK n : FromServer(Byte("reply", n))
    BY <1>15 DEF Gobbled
  <2>2. /\ c.kind = "reply" /\ gdb = "ack" /\ gdb' = "ack"
        /\ toServer' = toServer \o <<Sign("+")>>
    BY <1>2, <1>7, <1>15, <2>1 DEF Gobbled, FromServer, Send
  <2>3. c \notin Acks
    BY <2>2, <1>7 DEF Acks
  <2>4. toGdb' = <<>>
    BY <1>6, <2>2, <2>3 DEF Acks
  <2> QED
    BY <1>9, <1>10, <1>11, <1>12, <2>2, <2>3, <2>4 DEF ToGdbWhileAck, Acks
<1>16. CASE Answered
  <2>1. gdb = "reply" /\ gdb' = "idle" /\ toServer' = toServer \o <<Sign("+")>>
    BY <1>16 DEF Answered, Send
  <2> QED
    BY <1>6, <1>9, <1>10, <1>11, <1>12, <2>1
<1>17. CASE ReplyRefused
  <2>1. gdb = "reply" /\ gdb' = "reply" /\ toServer' = toServer \o <<Sign("-")>>
    BY <1>17 DEF ReplyRefused, Send
  <2> QED
    BY <1>6, <1>9, <1>10, <1>11, <1>12, <2>1 DEF ToGdbWhileReply
<1>18. CASE Skipped
  <2>1. UNCHANGED <<toServer, gdb>>
    BY <1>18 DEF Skipped
  <2>2. CASE gdb = "ack"
    <3>1. c = Sign("junk")
      BY <1>2, <1>18, <2>2 DEF Skipped, FromServer
    <3>2. c \notin AnswerOf(sent) /\ c # Sign("+")
      BY <3>1, <1>7 DEF AnswerOf
    <3>3. ToGdbWhileAck' /\ (Busy => toGdb' = <<>>)
      BY <1>4, <1>6, <2>2, <3>2 DEF ToGdbWhileAck
    <3> QED
      BY <1>3, <1>9, <1>10, <1>11, <2>1, <2>2, <3>2, <3>3
  <2>3. CASE gdb = "reply"
    <3>1. \E kind \in {"junk", "+", "-"} : c = Sign(kind)
      BY <1>2, <1>18, <2>3 DEF Skipped, FromServer
    <3>2. c \notin AnswerOf(sent)
      BY <3>1, <1>7 DEF AnswerOf
    <3> QED
      BY <1>6, <2>3, <3>2
  <2> QED
    BY <1>3, <2>2, <2>3
<1> QED
  BY <1>13, <1>14, <1>15, <1>16, <1>17, <1>18

\* gdb's time-outs.
LEMMA StepTimeout ==
  ASSUME LinkInv, "drop" \notin hit, AckTimeout \/ ReplyTimeout
  PROVE  Whole'
<1>1. Talking /\ HandlesLast /\ TakenOnce /\ sent \in Nat
      /\ (gdb # "idle" => sent \in 1..NumRequests)
  BY RequestsAssumption DEF LinkInv, TypeOK, Asking
<1>2. UNCHANGED <<toGdb, point, inPacket, executed, times, sent, hit, connected>>
      /\ toServer = <<>> /\ toGdb = <<>> /\ ~Busy
  BY DEF AckTimeout, ReplyTimeout, Silence, Busy
<1>3. CASE AckTimeout
  <2>1. gdb = "ack" /\ gdb' = "ack" /\ toServer' = toServer \o Packet(sent)
    BY <1>3 DEF AckTimeout, Send
  <2>2. toServer' = Packet(sent)
    BY <1>1, <1>2, <2>1, SentBytes
  <2>3. OneStart(toServer', sent) /\ OneCopy(toServer', sent)
    BY <1>1, <2>1, <2>2, SentBytes
  <2>4. Talking'
    BY <1>1, <1>2, <2>1, <2>3 DEF Talking, Reading, ToGdbWhileAck, Busy
  <2> QED
    BY <1>1, <1>2, <2>1, <2>4 DEF Whole, HandlesLast, TakenOnce
<1>4. CASE ReplyTimeout
  <2>1. gdb = "reply" /\ gdb' = "idle" /\ toServer' = toServer \o <<Sign("-"), Sign("+")>>
    BY <1>4 DEF ReplyTimeout, Send
  <2>2. toServer' = <<Sign("-"), Sign("+")>>
    BY <1>1, <1>2, <2>1, SentBytes
  <2>3. NoStart(toServer') /\ ~Reading
    BY <1>1, <2>1, <2>2, SentBytes DEF Talking, Quiet
  <2>4. Talking'
    BY <1>2, <2>1, <2>3 DEF Talking, Reading, Quiet, NoStart, OneStart, Busy
  <2> QED
    BY <1>1, <1>2, <2>1, <2>4 DEF Whole, HandlesLast, TakenOnce
<1> QED
  BY <1>3, <1>4

\* The line damages or loses a byte on its way to the server.
LEMMA StepFaultToServer ==
  ASSUME LinkInv, "drop" \notin hit, FaultToServer
  PROVE  Whole'
<1>1. /\ Talking /\ HandlesLast /\ TakenOnce /\ toServer \in Seq(Bytes)
      /\ toServer # <<>>
  BY DEF LinkInv, TypeOK, FaultToServer
<1>2. UNCHANGED <<toGdb, point, inPacket, executed, times, gdb, sent, hit, connected>>
  BY DEF FaultToServer
<1>3. \/ toServer' = Tail(toServer)
      \/ \E c \in Damaged : toServer' = <<c>> \o Tail(toServer)
  BY DEF FaultToServer
<1>4. /\ NoStart(toServer) => NoStart(toServer')
      /\ OneStart(toServer, sent) => OneStart(toServer', sent)
      /\ OneCopy(toServer, sent) => OneCopy(toServer', sent)
  <2>1. CASE toServer' = Tail(toServer)
    BY <1>1, <2>1, HeadGone
  <2>2. CASE \E c \in Damaged : toServer' = <<c>> \o Tail(toServer)
    BY <1>1, <2>2, HeadDamaged
  <2> QED
    BY <1>3, <2>1, <2>2
<1>5. Talking'
  BY <1>1, <1>2, <1>4 DEF Talking, Reading, Quiet, ToGdbWhileAck, ToGdbWhileReply, Busy
<1> QED
  BY <1>1, <1>2, <1>5 DEF Whole, HandlesLast, TakenOnce

\* The line damages or loses a byte on its way to gdb.
LEMMA StepFaultToGdb ==
  ASSUME LinkInv, "drop" \notin hit, FaultToGdb
  PROVE  Whole'
<1>1. /\ toGdb # <<>> /\ toGdb \in Seq(Bytes)
  BY DEF LinkInv, TypeOK, FaultToGdb
<1>2. /\ Talking /\ HandlesLast /\ TakenOnce /\ Quiet
      /\ gdb \in {"ack", "reply"}
  BY <1>1, GdbReads DEF LinkInv
<1>3. UNCHANGED <<toServer, point, inPacket, executed, times, gdb, sent, connected>>
  BY DEF FaultToGdb
<1>4. PICK d : /\ d = Sign(IF Head(toGdb).kind = "reply" THEN "reply" ELSE "junk")
               /\ toGdb' = Tail(toGdb) \/ toGdb' = <<d>> \o Tail(toGdb)
  BY DEF FaultToGdb
<1>5. \A r : <<d>> \o <<>> = <<d>> /\ <<d>> \o <<r>> = <<d, r>>
  <2> TAKE r
  <2>1. <<d>> \in Seq({d, r}) /\ <<r>> \in Seq({d, r}) /\ <<d, r>> \in Seq({d, r})
        /\ Len(<<d>>) = 1 /\ Len(<<r>>) = 1 /\ Len(<<d, r>>) = 2
        /\ <<d>>[1] = d /\ <<r>>[1] = r /\ <<d, r>>[1] = d /\ <<d, r>>[2] = r
    OBVIOUS
  <2>2. /\ <<d>> \o <<r>> \in Seq({d, r}) /\ Len(<<d>> \o <<r>>) = 2
        /\ (<<d>> \o <<r>>)[1] = d /\ (<<d>> \o <<r>>)[2] = r
    BY <2>1, ConcatProperties
  <2>3. \A i \in 1..2 : i = 1 \/ i = 2
    OBVIOUS
  <2>4. <<d>> \o <<r>> = <<d, r>>
    BY <2>1, <2>2, <2>3, SeqEqual
  <2>5. <<d>> \o <<>> = <<d>>
    BY <2>1, ConcatEmptySeq
  <2> QED
    BY <2>4, <2>5
<1>6. \A kind, n : Byte(kind, n).kind = kind /\ Sign(kind).kind = kind
  BY ByteFacts
<1>7. /\ Head(toGdb) \in AnswerOf(sent) => d \in AnswerOf(sent)
      /\ Head(toGdb) \in Acks => d = Sign("junk") /\ d \in Acks
  BY <1>4, <1>6 DEF AnswerOf, Acks
<1>8. gdb = "ack" =>
        ToGdbWhileAck' /\ (Busy => toGdb' \in {<<>>, <<Sign("junk")>>})
  <2> SUFFICES ASSUME gdb = "ack"
               PROVE  ToGdbWhileAck' /\ (Busy => toGdb' \in {<<>>, <<Sign("junk")>>})
    OBVIOUS
  <2>1. CASE Head(toGdb) \in Acks /\ Tail(toGdb) = <<>>
    <3>1. toGdb' = <<>> \/ toGdb' = <<Sign("junk")>>
      BY <1>4, <1>5, <1>7, <2>1
    <3> QED
      BY <3>1 DEF ToGdbWhileAck, Acks
  <2>2. CASE /\ executed = sent /\ ~Busy
             /\ Head(toGdb) \in AnswerOf(sent) /\ Tail(toGdb) = <<>>
    BY <1>3, <1>4, <1>5, <1>7, <2>2 DEF ToGdbWhileAck
  <2>3. CASE /\ executed = sent /\ ~Busy
             /\ Head(toGdb) \in {Sign("+"), Sign("junk")}
             /\ \E r \in AnswerOf(sent) : Tail(toGdb) = <<r>>
    <3>1. d = Sign("junk")
      BY <1>7, <2>3 DEF Acks
    <3>2. PICK r \in AnswerOf(sent) : toGdb' = <<r>> \/ toGdb' = <<Sign("junk"), r>>
      BY <1>4, <1>5, <2>3, <3>1
    <3> QED
      BY <1>3, <2>3, <3>2 DEF ToGdbWhileAck
  <2> QED
    BY <1>1, <2>1, <2>2, <2>3, GdbReads
<1>9. gdb = "reply" => ToGdbWhileReply' /\ ~Busy
  BY <1>1, <1>3, <1>4, <1>5, <1>7, GdbReads DEF ToGdbWhileReply, Busy
<1>10. Talking'
  BY <1>2, <1>3, <1>8, <1>9 DEF Talking, Reading, Quiet, Busy
<1>11. /\ hit \subseteq hit'
       /\ toGdb[1] = Sign("+") => "+" \in hit'
  BY <1>1, <1>6, TailFacts DEF FaultToGdb
<1>12. TakenOnce'
  BY <1>2, <1>3, <1>11 DEF TakenOnce
<1> QED
  BY <1>2, <1>3, <1>10, <1>12 DEF Whole, HandlesLast, Asking

\* The rest leaves the conversation alone.
LEMMA StepElse ==
  ASSUME LinkInv, "drop" \notin hit, Connect \/ QuitKey \/ Done \/ UNCHANGED vars
  PROVE  Whole'
<1>1. Talking /\ HandlesLast /\ TakenOnce /\ connected \in BOOLEAN
  BY DEF LinkInv, TypeOK
<1>2. UNCHANGED <<toServer, point, inPacket, executed, times, gdb, sent, hit>>
  BY DEF Connect, QuitKey, Done, vars
<1>3. toGdb' = toGdb
  <2>1. CASE Connect
    <3>1. toGdb = <<>>
      BY <1>1, <2>1 DEF Connect, LinkInv, Asking, Talking
    <3>2. PICK k \in 0..Len(toGdb) : toGdb' = SubSeq(toGdb, k + 1, Len(toGdb))
      BY <2>1 DEF Connect
    <3> QED
      BY <3>1, <3>2
  <2> QED
    BY <2>1 DEF QuitKey, Done, vars
<1>4. Talking'
  BY <1>1, <1>2, <1>3 DEF Talking, Reading, Quiet, ToGdbWhileAck, ToGdbWhileReply, Busy
<1> QED
  BY <1>1, <1>2, <1>3, <1>4 DEF Whole, HandlesLast, TakenOnce

-----------------------------------------------------------------------------
(* The order, and who is there, step by step *)

\* What is known to be lost stays known until gdb asks again.
LEMMA HitGrows ==
  ASSUME [Next]_vars, ~Request
  PROVE  hit \subseteq hit'
<1>1. CASE Server
  BY <1>1 DEF Server, WaitStart, Payload, Escaped, FirstSum, SecondSum, WaitForAck,
              WaitConnection, Interrupted, Handle, Transmit
<1>2. CASE Gdb
  BY <1>2 DEF Gdb, Acknowledged, Refused, Gobbled, Answered, ReplyRefused, Skipped,
              AckTimeout, ReplyTimeout
<1>3. CASE FaultToServer \/ FaultToGdb \/ Drop \/ Connect \/ QuitKey \/ Done \/ UNCHANGED vars
  BY <1>3 DEF FaultToServer, FaultToGdb, Drop, Connect, QuitKey, Done, vars
<1> QED
  BY <1>1, <1>2, <1>3 DEF Next

\* Whoever waits has asked and is there.
LEMMA StepAsking == LinkInv /\ [Next]_vars => Asking'
<1> SUFFICES ASSUME LinkInv, [Next]_vars PROVE Asking'
  OBVIOUS
<1>a. Asking /\ sent \in Nat
  BY RequestsAssumption DEF LinkInv, TypeOK
<1>1. CASE Server
  <2>1. UNCHANGED <<gdb, sent, connected>>
    BY <1>1 DEF Server, WaitStart, Payload, Escaped, FirstSum, SecondSum, WaitForAck,
                WaitConnection, Interrupted, Handle, Transmit
  <2> QED
    BY <1>a, <2>1 DEF Asking
<1>2. CASE Gdb
  <2>1. UNCHANGED <<sent, connected>> /\ (gdb' # "idle" => gdb # "idle")
    BY <1>2 DEF Gdb, Acknowledged, Refused, Gobbled, Answered, ReplyRefused, Skipped,
                AckTimeout, ReplyTimeout
  <2> QED
    BY <1>a, <2>1 DEF Asking
<1>3. CASE Request
  BY <1>a, <1>3 DEF Request, Asking
<1>4. CASE FaultToServer \/ FaultToGdb \/ QuitKey \/ Done \/ UNCHANGED vars
  <2>1. UNCHANGED <<gdb, sent, connected>>
    BY <1>4 DEF FaultToServer, FaultToGdb, QuitKey, Done, vars
  <2> QED
    BY <1>a, <2>1 DEF Asking
<1>5. CASE Drop \/ Connect
  BY <1>a, <1>5 DEF Drop, Connect, Asking
<1> QED
  BY <1>1, <1>2, <1>3, <1>4, <1>5 DEF Next

\* The byte that is read comes before those that are left.
LEMMA ReadInOrder ==
  ASSUME toServer \in Seq(Bytes), NEW c, GetByte(c) \/ (c = Sign("junk") /\ Misread)
  PROVE  /\ \A low, high : Within(toServer, low, high) =>
              Within(toServer', low, high) /\ (c.n = 0 \/ (low <= c.n /\ c.n <= high))
         /\ Rising(toServer) =>
              /\ Rising(toServer')
              /\ \A j \in DOMAIN toServer' : toServer'[j].n # 0 => c.n <= toServer'[j].n
         /\ \A u : Below(u, toServer) => Below(u, toServer')
<1>1. CASE toServer # <<>> /\ c = Head(toServer) /\ toServer' = Tail(toServer)
  <2>1. /\ toServer' \in Seq(Bytes) /\ c = toServer[1] /\ 1 \in DOMAIN toServer
        /\ DOMAIN toServer' = 1..(Len(toServer) - 1) /\ DOMAIN toServer = 1..Len(toServer)
        /\ Len(toServer) \in Nat
        /\ \A i \in 1..(Len(toServer) - 1) : toServer'[i] = toServer[i + 1]
    BY <1>1, TailFacts
  <2>2. \A j \in DOMAIN toServer' :
          j + 1 \in DOMAIN toServer /\ 1 < j + 1 /\ toServer'[j] = toServer[j + 1]
    BY <2>1
  <2>3. Rising(toServer) =>
          \A j \in DOMAIN toServer' : toServer'[j].n # 0 => c.n <= toServer'[j].n
    BY <2>1, <2>2 DEF Rising
  <2>4. \A low, high : Within(toServer, low, high) => c.n = 0 \/ (low <= c.n /\ c.n <= high)
    BY <2>1 DEF Within
  <2> QED
    BY <1>1, <2>1, <2>3, <2>4, PartsInOrder
<1>2. CASE toServer = <<>> /\ c = Sign("junk") /\ toServer' = <<>>
  <2>1. DOMAIN <<>> = {} /\ c.n = 0
    BY <1>2, ByteFacts
  <2> QED
    BY <1>2, <2>1
<1> QED
  BY <1>1, <1>2, ByteTaken

\* The part of Ordered that is about what the server reads, and that about gdb.
InOrder == /\ Within(toServer, executed, sent) /\ Rising(toServer)
           /\ Reading \/ point = "handle" =>
                Within(inPacket, executed, sent) /\ Below(inPacket, toServer)
           /\ point = "handle" => Len(inPacket) = 3 /\ inPacket[1].n # 0
OutOrder == Within(toGdb, answered, executed) /\ Rising(toGdb) /\ Signals(toGdb)

\* The types the steps need.
LEMMA OrderTypes ==
  ASSUME LinkInv
  PROVE  /\ toServer \in Seq(Bytes) /\ toGdb \in Seq(Bytes) /\ inPacket \in Seq(Bytes)
         /\ executed \in Nat /\ sent \in Nat /\ answered \in Nat
         /\ answered <= executed /\ executed <= sent
         /\ InOrder /\ OutOrder
BY RequestsAssumption DEF LinkInv, TypeOK, Ordered, InOrder, OutOrder

\* The server reads.
LEMMA ReadingKeepsOrder ==
  ASSUME LinkInv, NEW c \in Bytes,
         \/ WaitStart(c) \/ Payload(c) \/ Escaped(c) \/ FirstSum(c) \/ SecondSum(c)
         \/ WaitForAck(c)
  PROVE  InOrder'
<1>1. /\ toServer \in Seq(Bytes) /\ inPacket \in Seq(Bytes) /\ executed \in Nat /\ sent \in Nat
      /\ InOrder
  BY OrderTypes
<1>2. UNCHANGED <<executed, sent>> /\ (GetByte(c) \/ (c = Sign("junk") /\ Misread))
  BY DEF WaitStart, Payload, Escaped, FirstSum, SecondSum, WaitForAck
<1>3. /\ Within(toServer', executed, sent) /\ Rising(toServer')
      /\ c.n = 0 \/ (executed <= c.n /\ c.n <= sent)
      /\ \A j \in DOMAIN toServer' : toServer'[j].n # 0 => c.n <= toServer'[j].n
      /\ \A u : Below(u, toServer) => Below(u, toServer')
      /\ toServer' \in Seq(Bytes)
  BY <1>1, <1>2, ReadInOrder, ByteTaken DEF InOrder
<1>4. Reading' \/ point' = "handle" => Within(inPacket', executed, sent) /\ Below(inPacket', toServer')
  <2>1. CASE WaitStart(c)
    <3>1. inPacket' = <<>> /\ DOMAIN <<>> = {}
      BY <2>1 DEF WaitStart
    <3> QED
      BY <3>1 DEF Within, Below
  <2>2. CASE WaitForAck(c)
    BY <2>2 DEF WaitForAck, Waiting, Reading
  <2>3. CASE Payload(c) \/ Escaped(c) \/ FirstSum(c) \/ SecondSum(c)
    <3>1. Within(inPacket, executed, sent) /\ Below(inPacket, toServer')
      BY <1>1, <1>3, <2>3 DEF Payload, Escaped, FirstSum, SecondSum, Reading, InOrder
    <3>2. PICK d : (d = c \/ d = Sign("junk")) /\ (inPacket' = inPacket \/ inPacket' = Append(inPacket, d))
      BY <2>3 DEF Payload, Escaped, FirstSum, SecondSum
    <3>3. d \in Bytes /\ (d.n = 0 \/ (executed <= d.n /\ d.n <= sent))
          /\ \A j \in DOMAIN toServer' : toServer'[j].n # 0 => d.n <= toServer'[j].n
      <4>1. CASE d = c
        BY <4>1, <1>3
      <4>2. CASE d = Sign("junk")
        <5>1. d \in Bytes /\ d.n = 0
          BY <4>2, ByteFacts, SignsAreBytes
        <5>2. \A j \in DOMAIN toServer' : toServer'[j] \in Bytes /\ toServer'[j].n \in Nat
          BY <1>3, ByteFacts, RequestsAssumption
        <5> QED
          BY <5>1, <5>2
      <4> QED
        BY <3>2, <4>1, <4>2
    <3>4. Within(Append(inPacket, d), executed, sent) /\ Below(Append(inPacket, d), toServer')
      BY <1>1, <3>1, <3>3, AddedInOrder
    <3> QED
      BY <3>1, <3>2, <3>4
  <2> QED
    BY <2>1, <2>2, <2>3
<1>5. point' = "handle" => Len(inPacket') = 3 /\ inPacket'[1].n # 0
  <2> SUFFICES ASSUME point' = "handle" PROVE Len(inPacket') = 3 /\ inPacket'[1].n # 0
    OBVIOUS
  <2>1. SumOK(inPacket')
    BY DEF WaitStart, Payload, Escaped, FirstSum, SecondSum, WaitForAck, Waiting
  <2>2. PICK n \in 1..NumRequests :
          inPacket' = <<Byte("data", n), Byte("sum1", n), Byte("sum2", n)>>
    BY <2>1 DEF SumOK
  <2>3. Len(inPacket') = 3 /\ inPacket'[1] = Byte("data", n)
    BY <2>2
  <2>4. Byte("data", n).n = n
    BY ByteFacts
  <2> QED
    BY <2>3, <2>4
<1> QED
  BY <1>2, <1>3, <1>4, <1>5 DEF InOrder

\* Bytes of the last request go to the server, and none is read.
LEMMA SendingKeepsOrder ==
  ASSUME LinkInv, NEW p \in Seq(Bytes), toServer' = toServer \o p,
         UNCHANGED <<point, inPacket, executed>>, sent' \in Nat, sent <= sent', Own(p, sent')
  PROVE  InOrder'
<1>1. /\ toServer \in Seq(Bytes) /\ inPacket \in Seq(Bytes) /\ executed \in Nat /\ sent \in Nat
      /\ executed <= sent /\ InOrder
  BY OrderTypes
<1>2. /\ Within(toServer', executed, sent') /\ Rising(toServer')
      /\ \A u \in Seq(Bytes) :
           Below(u, toServer) /\ Within(u, executed, sent) => Below(u, toServer')
  BY <1>1, SentInOrder DEF InOrder
<1>3. Within(inPacket, executed, sent) => Within(inPacket, executed, sent')
  <2>1. \A i \in DOMAIN inPacket : inPacket[i].n \in Nat
    BY <1>1, ByteFacts, RequestsAssumption
  <2> QED
    BY <1>1, <2>1 DEF Within
<1> QED
  BY <1>1, <1>2, <1>3 DEF InOrder, Reading

\* gdb's bytes belong to the last request.
LEMMA SentIsOwn ==
  ASSUME NEW n \in 1..NumRequests
  PROVE  /\ Own(Packet(n), n) /\ Own(<<Sign("+")>>, n) /\ Own(<<Sign("-")>>, n)
         /\ Own(<<Sign("-"), Sign("+")>>, n)
<1>1. Own(Packet(n), n)
  BY SentBytes DEF OneCopy, Own
<1>2. Sign("+").n = 0 /\ Sign("-").n = 0
  BY ByteFacts
<1>3. /\ DOMAIN <<Sign("+")>> = {1} /\ <<Sign("+")>>[1] = Sign("+")
      /\ DOMAIN <<Sign("-")>> = {1} /\ <<Sign("-")>>[1] = Sign("-")
      /\ DOMAIN <<Sign("-"), Sign("+")>> = {1, 2}
      /\ <<Sign("-"), Sign("+")>>[1] = Sign("-") /\ <<Sign("-"), Sign("+")>>[2] = Sign("+")
  OBVIOUS
<1> QED
  BY <1>1, <1>2, <1>3 DEF Own

\* What a step that leaves both directions alone keeps.
LEMMA StillInOrder ==
  ASSUME LinkInv
  PROVE  /\ UNCHANGED <<toServer, executed, sent, point, inPacket>> => InOrder'
         /\ UNCHANGED <<toServer, executed, sent>> /\ ~Reading' /\ point' # "handle"
              => InOrder'
         /\ UNCHANGED <<toGdb, answered, executed>> => OutOrder'
<1>1. InOrder /\ OutOrder
  BY OrderTypes
<1>2. ASSUME UNCHANGED <<toServer, executed, sent, point, inPacket>> PROVE InOrder'
  BY <1>1, <1>2, Zenon DEF InOrder, Reading
<1>3. ASSUME UNCHANGED <<toServer, executed, sent>>, ~Reading', point' # "handle" PROVE InOrder'
  BY <1>1, <1>3 DEF InOrder
<1>4. ASSUME UNCHANGED <<toGdb, answered, executed>> PROVE OutOrder'
  BY <1>1, <1>4 DEF OutOrder
<1> QED
  BY <1>2, <1>3, <1>4

\* What gdb reads, and the line loses, leaves the rest in its order.
LEMMA TakingKeepsOrder ==
  ASSUME LinkInv, toGdb # <<>>, toGdb' = Tail(toGdb), UNCHANGED <<answered, executed>>
  PROVE  OutOrder'
<1>1. toGdb \in Seq(Bytes) /\ OutOrder
  BY OrderTypes
<1>2. toGdb' \in Seq(Bytes)
  BY <1>1
<1> QED
  BY <1>1, <1>2, PartsInOrder DEF OutOrder

\* The server puts a byte into the driver's buffer.
LEMMA PuttingKeepsOrder ==
  ASSUME LinkInv, NEW c \in Bytes, PutByte(c), UNCHANGED <<answered, executed>>,
         c.kind \in {"+", "-", "reply"}, c.n \in {0, executed}
  PROVE  OutOrder'
<1>1. toGdb \in Seq(Bytes) /\ OutOrder /\ answered \in Nat /\ executed \in Nat /\ answered <= executed
  BY OrderTypes
<1>2. toGdb' = toGdb \/ toGdb' = Append(toGdb, c)
  BY DEF PutByte
<1>3. c.n = 0 \/ (answered <= c.n /\ c.n <= executed /\ c.n = executed)
  BY <1>1
<1>4. Within(Append(toGdb, c), answered, executed) /\ Rising(Append(toGdb, c)) /\ Signals(Append(toGdb, c))
  BY <1>1, <1>3, AddedInOrder DEF OutOrder
<1> QED
  BY <1>1, <1>2, <1>4 DEF OutOrder

\* Each step keeps the order.
LEMMA StepOrdered == LinkInv /\ [Next]_vars => Ordered'
<1> SUFFICES ASSUME LinkInv, [Next]_vars PROVE Ordered'
  OBVIOUS
<1>a. /\ toServer \in Seq(Bytes) /\ toGdb \in Seq(Bytes) /\ inPacket \in Seq(Bytes)
      /\ executed \in Nat /\ sent \in Nat /\ answered \in Nat
      /\ answered <= executed /\ executed <= sent
      /\ InOrder /\ OutOrder
  BY OrderTypes
<1>b. ASSUME InOrder', OutOrder', UNCHANGED <<executed, sent, answered>> PROVE Ordered'
  BY <1>a, <1>b DEF Ordered, InOrder, OutOrder
<1>c. gdb # "idle" => sent \in 1..NumRequests
  BY RequestsAssumption DEF LinkInv, TypeOK, Asking
<1>1. ASSUME NEW c \in Bytes, WaitStart(c) \/ Payload(c) \/ Escaped(c) \/ FirstSum(c) \/ WaitForAck(c)
      PROVE  Ordered'
  <2>1. UNCHANGED <<toGdb, executed, sent, answered>>
    BY <1>1 DEF WaitStart, Payload, Escaped, FirstSum, WaitForAck
  <2> QED
    BY <1>1, <1>b, <2>1, ReadingKeepsOrder, StillInOrder
<1>2. ASSUME NEW c \in Bytes, SecondSum(c) PROVE Ordered'
  <2>1. UNCHANGED <<executed, sent, answered>>
    BY <1>2 DEF SecondSum
  <2>2. PICK d : d \in {Sign("+"), Sign("-")} /\ PutByte(d)
    BY <1>2 DEF SecondSum
  <2>3. d \in Bytes /\ d.kind \in {"+", "-"} /\ d.n = 0
    BY <2>2, SignsAreBytes, ByteFacts
  <2>4. OutOrder'
    BY <2>1, <2>2, <2>3, PuttingKeepsOrder
  <2> QED
    BY <1>2, <1>b, <2>1, <2>4, ReadingKeepsOrder
<1>3. CASE WaitConnection \/ Interrupted
  <2>1. UNCHANGED <<toServer, toGdb, executed, sent, answered>> /\ ~Reading' /\ point' # "handle"
    BY <1>3 DEF WaitConnection, Interrupted, Killed, Dropped, Reading
  <2> QED
    BY <1>b, <2>1, StillInOrder
<1>4. CASE Handle
  <2>1. /\ Len(inPacket) = 3 /\ inPacket[1].n # 0 /\ Within(inPacket, executed, sent)
        /\ Below(inPacket, toServer)
    BY <1>4, <1>a DEF InOrder, Handle
  <2>2. 1 \in DOMAIN inPacket /\ inPacket # <<>> /\ Head(inPacket) = inPacket[1]
        /\ inPacket[1] \in Bytes
    <3>1. inPacket # <<>> /\ DOMAIN inPacket = 1..3
      BY <1>a, <2>1
    <3> QED
      BY <1>a, <3>1, TailFacts
  <2>3. executed' = inPacket[1].n /\ executed' \in Nat /\ executed <= executed' /\ executed' <= sent
    <3>1. inPacket[1].n \in Nat
      BY <2>2, ByteFacts, RequestsAssumption
    <3>2. executed <= inPacket[1].n /\ inPacket[1].n <= sent
      BY <2>1, <2>2 DEF Within
    <3> QED
      BY <1>4, <2>2, <3>1, <3>2 DEF Handle
  <2>4. UNCHANGED <<toServer, toGdb, sent, answered>> /\ ~Reading' /\ point' # "handle"
    BY <1>4 DEF Handle, Waiting, Reading
  <2>5. Within(toServer, executed', sent)
    <3> SUFFICES ASSUME NEW j \in DOMAIN toServer, toServer[j].n # 0
                 PROVE  executed' <= toServer[j].n /\ toServer[j].n <= sent
      BY DEF Within
    <3>1. inPacket[1].n <= toServer[j].n
      BY <2>1, <2>2 DEF Below
    <3>2. toServer[j].n <= sent
      BY <1>a DEF InOrder, Within
    <3> QED
      BY <2>3, <3>1, <3>2
  <2>6. Within(toGdb, answered, executed')
    <3>1. \A i \in DOMAIN toGdb : toGdb[i].n \in Nat
      BY <1>a, ByteFacts, RequestsAssumption
    <3> QED
      BY <1>a, <2>3, <3>1 DEF OutOrder, Within
  <2> QED
    BY <1>a, <2>3, <2>4, <2>5, <2>6 DEF Ordered, InOrder, OutOrder
<1>5. CASE Transmit
  <2>1. UNCHANGED <<toServer, executed, sent, answered>> /\ PutByte(Byte("reply", executed))
        /\ ~Reading' /\ point' # "handle"
    BY <1>5 DEF Transmit, Waiting, Reading
  <2>2. Byte("reply", executed) \in Bytes /\ Byte("reply", executed).n = executed
        /\ Byte("reply", executed).kind = "reply"
    BY SignsAreBytes, ByteFacts DEF LinkInv, TypeOK
  <2> QED
    BY <1>b, <2>1, <2>2, StillInOrder, PuttingKeepsOrder
<1>6. CASE Request
  <2>1. /\ sent' = sent + 1 /\ toServer' = toServer \o Packet(sent')
        /\ UNCHANGED <<point, inPacket, executed, answered, toGdb>>
    BY <1>6 DEF Request, Send
  <2>2. sent' \in 1..NumRequests
    BY <1>6, <1>a, <2>1, RequestsAssumption DEF Request, LinkInv, TypeOK
  <2>3. InOrder'
    <3>1. sent' \in Nat /\ sent <= sent' /\ Own(Packet(sent'), sent')
          /\ Packet(sent') \in Seq(Bytes)
      BY <1>a, <2>1, <2>2, SentBytes, SentIsOwn
    <3> QED
      BY <2>1, <3>1, SendingKeepsOrder
  <2>4. OutOrder'
    BY <2>1, StillInOrder
  <2> QED
    BY <1>a, <2>1, <2>3, <2>4 DEF Ordered, InOrder, OutOrder
<1>7. CASE Acknowledged \/ Skipped
  <2>1. /\ toGdb # <<>> /\ toGdb' = Tail(toGdb)
        /\ UNCHANGED <<toServer, point, inPacket, executed, sent, answered>>
    BY <1>7 DEF Acknowledged, Skipped, FromServer
  <2> QED
    BY <1>b, <2>1, StillInOrder, TakingKeepsOrder
<1>8. CASE Refused \/ Gobbled \/ ReplyRefused
  <2>1. /\ toGdb # <<>> /\ toGdb' = Tail(toGdb)
        /\ UNCHANGED <<point, inPacket, executed, sent, answered>> /\ gdb # "idle"
    BY <1>8 DEF Refused, Gobbled, ReplyRefused, FromServer
  <2>2. PICK p \in {Packet(sent), <<Sign("+")>>, <<Sign("-")>>} : toServer' = toServer \o p
    BY <1>8 DEF Refused, Gobbled, ReplyRefused, Send
  <2>3. p \in Seq(Bytes) /\ Own(p, sent)
    BY <1>c, <2>1, <2>2, SentBytes, SentIsOwn
  <2>4. InOrder'
    <3>1. sent' \in Nat /\ sent <= sent' /\ Own(p, sent')
      BY <1>a, <2>1, <2>3
    <3> QED
      BY <2>1, <2>2, <2>3, <3>1, SendingKeepsOrder
  <2>5. OutOrder'
    BY <2>1, TakingKeepsOrder
  <2> QED
    BY <1>b, <2>1, <2>4, <2>5
<1>9. CASE Answered
  <2>1. PICK n \in 1..NumRequests : FromServer(Byte("reply", n)) /\ answered' = n
    BY <1>9 DEF Answered
  <2>2. /\ UNCHANGED <<point, inPacket, executed, sent>> /\ gdb # "idle"
        /\ toServer' = toServer \o <<Sign("+")>>
    BY <1>9 DEF Answered, Send
  <2>3. InOrder'
    <3>1. /\ sent' \in Nat /\ sent <= sent' /\ Own(<<Sign("+")>>, sent')
          /\ <<Sign("+")>> \in Seq(Bytes)
      BY <1>a, <1>c, <2>2, SentBytes, SentIsOwn
    <3> QED
      BY <2>2, <3>1, SendingKeepsOrder
  <2>4. /\ toGdb # <<>> /\ toGdb' = Tail(toGdb) /\ toGdb[1] = Byte("reply", n)
        /\ 1 \in DOMAIN toGdb /\ DOMAIN toGdb = 1..Len(toGdb) /\ Len(toGdb) \in Nat
        /\ toGdb' \in Seq(Bytes) /\ DOMAIN toGdb' = 1..(Len(toGdb) - 1)
        /\ \A i \in 1..(Len(toGdb) - 1) : toGdb'[i] = toGdb[i + 1]
    BY <1>a, <2>1, TailFacts DEF FromServer
  <2>5. Byte("reply", n).n = n /\ n # 0 /\ n \in Nat
    BY ByteFacts
  <2>6. answered <= n /\ n <= executed
    BY <1>a, <2>4, <2>5 DEF OutOrder, Within
  <2>7. Within(toGdb', n, executed)
    <3> SUFFICES ASSUME NEW j \in DOMAIN toGdb', toGdb'[j].n # 0
                 PROVE  n <= toGdb'[j].n /\ toGdb'[j].n <= executed
      BY DEF Within
    <3>1. j + 1 \in DOMAIN toGdb /\ 1 < j + 1 /\ toGdb'[j] = toGdb[j + 1]
      BY <2>4
    <3>2. toGdb[1].n <= toGdb[j + 1].n /\ toGdb[j + 1].n <= executed
      BY <1>a, <2>4, <3>1 DEF OutOrder, Rising, Within
    <3> QED
      BY <2>4, <2>5, <3>1, <3>2
  <2>8. Rising(toGdb') /\ Signals(toGdb')
    BY <1>a, <2>4, PartsInOrder DEF OutOrder
  <2> QED
    BY <1>a, <2>1, <2>2, <2>3, <2>6, <2>7, <2>8 DEF Ordered, InOrder
<1>10. CASE AckTimeout \/ ReplyTimeout
  <2>1. UNCHANGED <<toGdb, point, inPacket, executed, sent, answered>> /\ gdb # "idle"
    BY <1>10 DEF AckTimeout, ReplyTimeout
  <2>2. PICK p \in {Packet(sent), <<Sign("-"), Sign("+")>>} : toServer' = toServer \o p
    BY <1>10 DEF AckTimeout, ReplyTimeout, Send
  <2>3. p \in Seq(Bytes) /\ Own(p, sent)
    BY <1>c, <2>1, <2>2, SentBytes, SentIsOwn
  <2>4. InOrder'
    <3>1. sent' \in Nat /\ sent <= sent' /\ Own(p, sent')
      BY <1>a, <2>1, <2>3
    <3> QED
      BY <2>1, <2>2, <2>3, <3>1, SendingKeepsOrder
  <2> QED
    BY <1>b, <2>1, <2>4, StillInOrder
<1>11. CASE FaultToServer \/ Drop
  <2>1. UNCHANGED <<toGdb, point, inPacket, executed, sent, answered>> /\ toServer' \in Seq(Bytes)
    BY <1>11, StepOtherTypes DEF FaultToServer, Drop, OtherTypes
  <2>2. \/ toServer # <<>> /\ toServer' = Tail(toServer)
        \/ \E k \in 0..Len(toServer) : toServer' = SubSeq(toServer, 1, k)
        \/ toServer # <<>> /\ \E c \in Damaged : toServer' = <<c>> \o Tail(toServer)
    BY <1>11 DEF FaultToServer, Drop
  <2>3. /\ \A low, high : Within(toServer, low, high) => Within(toServer', low, high)
        /\ Rising(toServer) => Rising(toServer')
        /\ \A u : Below(u, toServer) => Below(u, toServer')
    <3>1. CASE toServer # <<>> /\ \E c \in Damaged : toServer' = <<c>> \o Tail(toServer)
      <4>1. PICK c \in Damaged : toServer' = <<c>> \o Tail(toServer)
        BY <3>1
      <4>2. c \in Bytes /\ c.n = 0
        BY SignsAreBytes, ByteFacts DEF Damaged
      <4> QED
        BY <1>a, <3>1, <4>1, <4>2, DamagedInOrder
    <3> QED
      BY <1>a, <2>1, <2>2, <3>1, PartsInOrder
  <2>4. InOrder'
    BY <1>a, <2>1, <2>3 DEF InOrder, Reading
  <2> QED
    BY <1>b, <2>1, <2>4, StillInOrder
<1>12. CASE FaultToGdb \/ Connect
  <2>1. UNCHANGED <<toServer, point, inPacket, executed, sent, answered>> /\ toGdb' \in Seq(Bytes)
    BY <1>12, StepOtherTypes DEF FaultToGdb, Connect, OtherTypes
  <2>2. \/ toGdb # <<>> /\ toGdb' = Tail(toGdb)
        \/ \E k \in 0..Len(toGdb) : toGdb' = SubSeq(toGdb, k + 1, Len(toGdb))
        \/ toGdb # <<>> /\ \E kind \in {"reply", "junk"} : toGdb' = <<Sign(kind)>> \o Tail(toGdb)
    BY <1>12 DEF FaultToGdb, Connect
  <2>3. /\ \A low, high : Within(toGdb, low, high) => Within(toGdb', low, high)
        /\ Rising(toGdb) => Rising(toGdb')
        /\ Signals(toGdb) => Signals(toGdb')
    <3>1. CASE toGdb # <<>> /\ \E kind \in {"reply", "junk"} : toGdb' = <<Sign(kind)>> \o Tail(toGdb)
      <4>1. PICK kind \in {"reply", "junk"} : toGdb' = <<Sign(kind)>> \o Tail(toGdb)
        BY <3>1
      <4>2. Sign(kind) \in Bytes /\ Sign(kind).n = 0 /\ Sign(kind).kind \in {"reply", "junk"}
        BY SignsAreBytes, ByteFacts
      <4> QED
        BY <1>a, <3>1, <4>1, <4>2, DamagedInOrder
    <3> QED
      BY <1>a, <2>1, <2>2, <3>1, PartsInOrder
  <2>4. OutOrder'
    BY <1>a, <2>1, <2>3 DEF OutOrder
  <2> QED
    BY <1>b, <2>1, <2>4, StillInOrder
<1>13. CASE QuitKey \/ Done \/ UNCHANGED vars
  <2>1. UNCHANGED <<toServer, toGdb, point, inPacket, executed, sent, answered>>
    BY <1>13 DEF QuitKey, Done, vars
  <2> QED
    BY <1>b, <2>1, StillInOrder
<1> QED
  BY <1>1, <1>2, <1>3, <1>4, <1>5, <1>6, <1>7, <1>8, <1>9, <1>10, <1>11, <1>12, <1>13
     DEF Next, Server, Gdb

-----------------------------------------------------------------------------
(* Theorems *)

\* Each step preserves what is known of the conversation.
LEMMA StepConversation == LinkInv /\ [Next]_vars /\ "drop" \notin hit' => Whole'
<1> SUFFICES ASSUME LinkInv, [Next]_vars, "drop" \notin hit' PROVE Whole'
  OBVIOUS
<1>1. CASE Request
  BY <1>1, StepRequest DEF Request
<1>2. CASE ~Request
  <2>1. "drop" \notin hit /\ ~Drop
    BY <1>2, HitGrows DEF Drop
  <2>2. ASSUME Gdb PROVE Whole'
    BY <2>1, <2>2, StepGdbReads, StepTimeout DEF Gdb
  <2>3. ASSUME Server PROVE Whole'
    BY <2>1, <2>3, StepReceive, StepSecondSum, StepWait, StepHandle, StepTransmit DEF Server
  <2> QED
    BY <1>2, <2>1, <2>2, <2>3, StepFaultToServer, StepFaultToGdb, StepElse DEF Next
<1> QED
  BY <1>1, <1>2

\* The invariant holds in every state.
LEMMA LinkInvariance == Spec => []LinkInv
<1>1. Init => LinkInv
  <2> SUFFICES ASSUME Init PROVE LinkInv
    OBVIOUS
  <2>1. TypeOK
    BY InitTypeOK
  <2>2. DOMAIN <<>> = {}
    OBVIOUS
  <2>3. Talking /\ HandlesLast /\ TakenOnce /\ Asking
    BY <2>2 DEF Init, Talking, Reading, Quiet, Busy, NoStart, OneStart, HandlesLast, TakenOnce,
                Asking
  <2>4. Ordered
    BY <2>2 DEF Init, Ordered, Within, Rising, Signals, Reading
  <2> QED
    BY <2>1, <2>3, <2>4 DEF LinkInv
<1>2. LinkInv /\ [Next]_vars => LinkInv'
  <2> SUFFICES ASSUME LinkInv, [Next]_vars PROVE LinkInv'
    OBVIOUS
  <2>1. OtherTypes'
    BY StepOtherTypes
  <2>2. {connected, key, swallowed}' \subseteq BOOLEAN
    BY StepFlags DEF LinkInv, TypeOK
  <2>3. TypeOK'
    BY <2>1, <2>2, Zenon DEF TypeOK, OtherTypes
  <2>4. Asking' /\ Ordered'
    BY StepAsking, StepOrdered
  <2>5. "drop" \notin hit' => Whole'
    BY StepConversation
  <2> QED
    BY <2>3, <2>4, <2>5 DEF LinkInv, Whole
<1> QED
  BY <1>1, <1>2, PTL DEF Spec

\* A request whose acknowledgement reached gdb is not executed again, whatever
\* else the line damages or loses, while nothing is left of a conversation that
\* was cut (packet.c:170-176).
THEOREM ExecutesOnce == Spec => []ExecutedOnce
<1>1. LinkInv => ExecutedOnce
  BY DEF LinkInv, TakenOnce, ExecutedOnce
<1> QED
  BY <1>1, LinkInvariance, PTL

\* What travels, what waits and what is counted always has its type
\* (packet.c:59-254).
THEOREM TypeCorrect == Spec => []TypeOK
<1>1. LinkInv => TypeOK
  BY DEF LinkInv
<1> QED
  BY <1>1, LinkInvariance, PTL

\* Steps that neither ask, execute, answer nor give up.
LEMMA StepAside ==
  ASSUME UNCHANGED <<sent, gdb, executed, answered>>,
         ("drop" \in hit') <=> ("drop" \in hit)
  PROVE  UNCHANGED Protocol!vars
<1>1. ("drop" \in hit)' = ("drop" \in hit)
  OBVIOUS
<1> QED
  BY <1>1 DEF Protocol!vars

\* The packet layer begins as the remote call does.
LEMMA InitImplements == Init => Protocol!Init
BY DEF Init, Protocol!Init

\* What is executed has been asked, and not before what was executed already.
LEMMA ExecutesInOrder ==
  ASSUME LinkInv, Handle
  PROVE  /\ executed' \in executed..sent
         /\ "drop" \notin hit => executed' = sent /\ gdb # "idle"
<1>1. /\ point = "handle" /\ inPacket \in Seq(Bytes) /\ Ordered
      /\ executed \in Nat /\ sent \in Nat
  BY RequestsAssumption DEF LinkInv, TypeOK, Handle
<1>2. Len(inPacket) = 3 /\ inPacket[1].n # 0 /\ Within(inPacket, executed, sent)
  BY <1>1 DEF Ordered
<1>3. 1 \in DOMAIN inPacket /\ inPacket # <<>> /\ Head(inPacket) = inPacket[1]
      /\ inPacket[1] \in Bytes
  BY <1>1, <1>2
<1>4. executed' = inPacket[1].n /\ executed' \in Nat
  BY <1>3, ByteFacts, RequestsAssumption DEF Handle
<1>5. executed' \in executed..sent
  BY <1>1, <1>2, <1>3, <1>4 DEF Within
<1>6. "drop" \notin hit => executed' = sent /\ gdb # "idle"
  BY <1>1, ExecutesLast DEF LinkInv, Talking, Busy
<1> QED
  BY <1>5, <1>6

\* Each step of the packet layer is one of the remote call, or a stutter of it.
LEMMA StepImplements == LinkInv /\ [Next]_vars => [Protocol!Next]_Protocol!vars
<1> SUFFICES ASSUME LinkInv, [Next]_vars PROVE [Protocol!Next]_Protocol!vars
  OBVIOUS
<1> DEFINE Cut == "drop" \in hit
<1>1. CASE Request
  <2>1. /\ gdb = "idle" /\ sent' = sent + 1 /\ gdb' = "ack"
        /\ UNCHANGED <<executed, answered>>
    BY <1>1 DEF Request
  <2>2. (gdb # "idle")' = TRUE
    BY <2>1
  <2>3. Cut' \in {Cut, FALSE}
    <3>1. CASE hit' = {}
      <4>1. Cut' = FALSE
        BY <3>1
      <4> QED
        BY <4>1
    <3>2. CASE hit' = hit \cap {"drop"}
      <4>1. Cut' = Cut
        BY <3>2
      <4> QED
        BY <4>1
    <3> QED
      BY <1>1, <3>1, <3>2 DEF Request
  <2>4. Protocol!Call
    BY <2>1, <2>2, <2>3 DEF Protocol!Call
  <2> QED
    BY <2>4 DEF Protocol!Next
<1>2. CASE Handle
  <2>1. /\ executed' \in executed..sent /\ (Cut \/ (gdb # "idle" /\ executed' = sent))
        /\ UNCHANGED <<sent, gdb, hit, answered>>
    BY <1>2, ExecutesInOrder DEF Handle
  <2>2. Protocol!Execute
    BY <2>1, Zenon DEF Protocol!Execute
  <2> QED
    BY <2>2 DEF Protocol!Next
<1>3. CASE Answered
  <2>1. PICK n \in 1..NumRequests : FromServer(Byte("reply", n)) /\ answered' = n
    BY <1>3 DEF Answered
  <2>2. /\ toGdb # <<>> /\ toGdb \in Seq(Bytes) /\ Head(toGdb) = Byte("reply", n)
        /\ Within(toGdb, answered, executed) /\ answered \in Nat /\ executed \in Nat
    BY <2>1, RequestsAssumption DEF FromServer, LinkInv, Ordered, TypeOK
  <2>3. 1 \in DOMAIN toGdb /\ Head(toGdb) = toGdb[1]
    BY <2>2
  <2>4. Byte("reply", n).n = n /\ n # 0
    BY ByteFacts
  <2>5. n \in answered..executed
    BY <2>2, <2>3, <2>4 DEF Within
  <2>6. Cut \/ n = sent
    <3> SUFFICES ASSUME ~Cut PROVE n = sent
      OBVIOUS
    <3>1. Byte("reply", n) \in AnswerOf(sent)
      BY <1>3, <2>1, GdbReads DEF Answered, FromServer
    <3>2. Byte("reply", n).n = n /\ Byte("reply", sent).n = sent /\ Sign("reply").n = 0
      BY ByteFacts
    <3> QED
      BY <2>4, <3>1, <3>2 DEF AnswerOf
  <2>7. gdb = "reply" /\ gdb' = "idle" /\ UNCHANGED <<sent, executed, hit>>
    BY <1>3 DEF Answered
  <2>8. (gdb # "idle")' = FALSE /\ gdb # "idle"
    BY <2>7
  <2>9. Protocol!Answer
    BY <2>1, <2>5, <2>6, <2>7, <2>8, Zenon DEF Protocol!Answer
  <2> QED
    BY <2>9 DEF Protocol!Next
<1>4. CASE ReplyTimeout
  <2>1. /\ gdb = "reply" /\ gdb' = "idle"
        /\ UNCHANGED <<sent, executed, answered, hit>>
    BY <1>4 DEF ReplyTimeout
  <2>2. (gdb # "idle")' = FALSE /\ gdb # "idle"
    BY <2>1
  <2>3. Protocol!GiveUp
    BY <2>1, <2>2, Zenon DEF Protocol!GiveUp
  <2> QED
    BY <2>3 DEF Protocol!Next
<1>5. CASE Drop
  <2>1. gdb' = "idle" /\ hit' = hit \cup {"drop"} /\ UNCHANGED <<sent, executed, answered>>
    BY <1>5 DEF Drop
  <2>2. (gdb # "idle")' = FALSE /\ ("drop" \in hit)' = TRUE
    BY <2>1
  <2>3. Protocol!Leave
    BY <2>1, <2>2, Zenon DEF Protocol!Leave
  <2> QED
    BY <2>3 DEF Protocol!Next
<1>6. CASE FaultToGdb
  <2>1. Head(toGdb).kind # "drop"
    BY <1>6, ToGdbKinds DEF FaultToGdb
  <2>2. UNCHANGED <<sent, gdb, executed, answered>> /\ ("drop" \in hit' <=> "drop" \in hit)
    BY <1>6, <2>1 DEF FaultToGdb
  <2> QED
    BY <2>2, StepAside
<1>7. ASSUME NEW c, \/ WaitStart(c) \/ Payload(c) \/ Escaped(c)
                    \/ FirstSum(c) \/ SecondSum(c) \/ WaitForAck(c)
      PROVE  UNCHANGED Protocol!vars
  BY <1>7, StepAside DEF WaitStart, Payload, Escaped, FirstSum, SecondSum, WaitForAck
<1>8. CASE WaitConnection \/ Interrupted \/ Transmit
  BY <1>8, StepAside DEF WaitConnection, Interrupted, Transmit
<1>9. CASE Acknowledged
  <2>1. gdb = "ack" /\ gdb' = "reply" /\ UNCHANGED <<sent, executed, answered, hit>>
    BY <1>9 DEF Acknowledged
  <2>2. (gdb # "idle")' = (gdb # "idle")
    BY <2>1
  <2> QED
    BY <2>1, <2>2, Zenon DEF Protocol!vars
<1>10. CASE Refused \/ Gobbled \/ ReplyRefused \/ Skipped \/ AckTimeout
  BY <1>10, StepAside DEF Refused, Gobbled, ReplyRefused, Skipped, AckTimeout
<1>11. CASE FaultToServer \/ Connect \/ QuitKey \/ Done \/ UNCHANGED vars
  BY <1>11, StepAside DEF FaultToServer, Connect, QuitKey, Done, vars
<1> QED
  BY <1>1, <1>2, <1>3, <1>4, <1>5, <1>6, <1>7, <1>8, <1>9, <1>10, <1>11 DEF Next, Server, Gdb

\* While nothing is left of a conversation that was cut, nothing but the
\* outstanding request is executed, and gdb never takes an answer to an earlier
\* request for the one it waits for, whatever the line damages or loses; behind
\* a cut, requests are executed and answers taken in the order in which they
\* were sent (packet.c:59-254, comm.c:89-124).
THEOREM LinkImplementsRemoteCall == Spec => ImplementsRemoteCall
BY InitImplements, StepImplements, LinkInvariance, PTL
   DEF Spec, ImplementsRemoteCall, Protocol!Spec
=============================================================================
