----------------------------- MODULE Scc_proofs ------------------------------
(***************************************************************************)
(* The SCC driver, for rings of any length and any bytes.  First what a    *)
(* ring's position and count mean; then the receiving half: its loss is    *)
(* bounded for any number of bytes under way, and its ring is the queue    *)
(* ByteQueue promises; then the sending half: no wakeup is lost, and what  *)
(* is still to be sent is such a queue, too.                               *)
(***************************************************************************)
EXTENDS SccReceive, SccTransmit, SequenceTheorems, TLAPS

\* An index goes round the ring.
Wrap(n, len) == n % len

\* Rings of a length.
Rings(len, B) == [0..(len - 1) -> B]

\* The n bytes of a ring from a position on.
RingSeq(buffer, pos, n, len) == [i \in 1..n |-> buffer[Wrap(pos + i - 1, len)]]

\* A masked index is in the ring.
LEMMA IndexInRing ==
  ASSUME NEW len \in Nat \ {0}, NEW n \in Nat
  PROVE  Wrap(n, len) \in 0..(len - 1)
BY DEF Wrap

\* From inside the ring an index wraps once.
LEMMA IndexWraps ==
  ASSUME NEW len \in Nat \ {0}, NEW p \in 0..(len - 1), NEW k \in 0..len
  PROVE  Wrap(p + k, len) = IF p + k < len THEN p + k ELSE p + k - len
BY DEF Wrap

\* What the ring holds is a sequence of bytes.
LEMMA RingIsSeq ==
  ASSUME NEW len \in Nat \ {0}, NEW B,
         NEW buffer \in Rings(len, B), NEW pos \in 0..(len - 1), NEW n \in 0..len
  PROVE  /\ RingSeq(buffer, pos, n, len) \in Seq(B)
         /\ Len(RingSeq(buffer, pos, n, len)) = n
         /\ \A i \in 1..n : RingSeq(buffer, pos, n, len)[i] = buffer[Wrap(pos + i - 1, len)]
<1>1. n \in Nat /\ pos \in Nat
  OBVIOUS
<1>2. \A i \in 1..n : buffer[Wrap(pos + i - 1, len)] \in B
  <2> TAKE i \in 1..n
  <2>1. pos + i - 1 \in Nat
    BY <1>1
  <2> QED
    BY <2>1, IndexInRing DEF Rings
<1>3. RingSeq(buffer, pos, n, len) \in [1..n -> B]
  BY <1>2 DEF RingSeq
<1>4. RingSeq(buffer, pos, n, len) \in Seq(B)
  BY <1>1, <1>3, SeqDef
<1>5. Len(RingSeq(buffer, pos, n, len)) = n
  <2>1. DOMAIN RingSeq(buffer, pos, n, len) = 1..n
    BY <1>3
  <2>2. DOMAIN RingSeq(buffer, pos, n, len) = 1..Len(RingSeq(buffer, pos, n, len))
    BY <1>4, LenProperties
  <2>3. Len(RingSeq(buffer, pos, n, len)) \in Nat
    BY <1>4, LenProperties
  <2> QED
    BY <1>1, <2>1, <2>2, <2>3
<1> QED
  BY <1>4, <1>5 DEF RingSeq

\* A byte that is stored behind the others is appended.
LEMMA RingAppend ==
  ASSUME NEW len \in Nat \ {0}, NEW B,
         NEW buffer \in Rings(len, B), NEW pos \in 0..(len - 1), NEW n \in 0..(len - 1),
         NEW b \in B, NEW new \in Rings(len, B),
         new[Wrap(pos + n, len)] = b,
         \A j \in 0..(len - 1) : j # Wrap(pos + n, len) => new[j] = buffer[j]
  PROVE  RingSeq(new, pos, n + 1, len) = Append(RingSeq(buffer, pos, n, len), b)
<1> DEFINE old == RingSeq(buffer, pos, n, len)
<1>0. n \in Nat /\ pos \in Nat /\ n + 1 \in 0..len /\ n \in 0..len
  OBVIOUS
<1>2. /\ RingSeq(new, pos, n + 1, len) \in Seq(B)
      /\ Len(RingSeq(new, pos, n + 1, len)) = n + 1
      /\ \A i \in 1..(n + 1) : RingSeq(new, pos, n + 1, len)[i] = new[Wrap(pos + i - 1, len)]
  BY <1>0, RingIsSeq
<1>3. /\ old \in Seq(B) /\ Len(old) = n
      /\ \A i \in 1..n : old[i] = buffer[Wrap(pos + i - 1, len)]
  <2> HIDE DEF old
  <2>1. /\ RingSeq(buffer, pos, n, len) \in Seq(B) /\ Len(RingSeq(buffer, pos, n, len)) = n
        /\ \A i \in 1..n : RingSeq(buffer, pos, n, len)[i] = buffer[Wrap(pos + i - 1, len)]
    BY <1>0, RingIsSeq
  <2> QED
    BY <2>1 DEF old
<1>4. /\ Append(old, b) \in Seq(B) /\ Len(Append(old, b)) = n + 1
      /\ \A i \in 1..n : Append(old, b)[i] = old[i]
      /\ Append(old, b)[n + 1] = b
  <2> HIDE DEF old
  <2> QED
    BY <1>0, <1>3, AppendProperties
<1>5. ASSUME NEW i \in 1..(n + 1)
      PROVE  RingSeq(new, pos, n + 1, len)[i] = Append(old, b)[i]
  <2>1. i - 1 \in 0..len /\ pos + i - 1 = pos + (i - 1) /\ (i = n + 1 \/ i \in 1..n)
    BY <1>0
  <2>2. Wrap(pos + i - 1, len) \in 0..(len - 1) /\ Wrap(pos + n, len) \in 0..(len - 1)
    BY <1>0, <2>1, IndexInRing
  <2>3. CASE i = n + 1
    <3>1. pos + i - 1 = pos + n
      BY <1>0, <2>3
    <3>2. new[Wrap(pos + i - 1, len)] = b
      BY <2>2, <3>1 DEF Rings
    <3> QED
      BY <1>2, <1>4, <2>3, <3>2
  <2>4. CASE i \in 1..n
    <3>1. /\ Wrap(pos + (i - 1), len) = IF pos + (i - 1) < len THEN pos + (i - 1) ELSE pos + (i - 1) - len
          /\ Wrap(pos + n, len) = IF pos + n < len THEN pos + n ELSE pos + n - len
      BY <1>0, <2>1, IndexWraps
    <3>2. Wrap(pos + i - 1, len) # Wrap(pos + n, len)
      BY <1>0, <2>1, <2>4, <3>1
    <3>3. new[Wrap(pos + i - 1, len)] = buffer[Wrap(pos + i - 1, len)]
      BY <2>2, <3>2 DEF Rings
    <3> QED
      BY <1>2, <1>3, <1>4, <2>4, <3>3
  <2> QED
    BY <2>1, <2>3, <2>4
<1> HIDE DEF old
<1>6. RingSeq(new, pos, n + 1, len) = Append(old, b)
  BY <1>2, <1>4, <1>5, SeqEqual
<1> QED
  BY <1>6 DEF old

\* A step of the position, and one byte less, is the tail.
LEMMA RingTail ==
  ASSUME NEW len \in Nat \ {0}, NEW B,
         NEW buffer \in Rings(len, B), NEW pos \in 0..(len - 1), NEW n \in 1..len
  PROVE  RingSeq(buffer, Wrap(pos + 1, len), n - 1, len) = Tail(RingSeq(buffer, pos, n, len))
<1> DEFINE next == Wrap(pos + 1, len)
           old  == RingSeq(buffer, pos, n, len)
           rest == RingSeq(buffer, next, n - 1, len)
<1>0. /\ n \in Nat /\ pos \in Nat
      /\ n - 1 \in 0..len /\ n \in 0..len
      /\ 1 \in 0..len
  OBVIOUS
<1>1. next = IF pos + 1 < len THEN pos + 1 ELSE pos + 1 - len
  BY <1>0, IndexWraps
<1>2. next \in 0..(len - 1)
  BY <1>0, IndexInRing
<1>3. /\ old \in Seq(B) /\ Len(old) = n
      /\ \A i \in 1..n : old[i] = buffer[Wrap(pos + i - 1, len)]
  <2>1. n \in 0..len
    BY <1>0
  <2> HIDE DEF next, rest, old
  <2>2. /\ RingSeq(buffer, pos, n, len) \in Seq(B) /\ Len(RingSeq(buffer, pos, n, len)) = n
        /\ \A i \in 1..n : RingSeq(buffer, pos, n, len)[i] = buffer[Wrap(pos + i - 1, len)]
    BY <2>1, RingIsSeq
  <2> QED
    BY <2>2 DEF old
<1>4. /\ rest \in Seq(B) /\ Len(rest) = n - 1
      /\ \A i \in 1..(n - 1) : rest[i] = buffer[Wrap(next + i - 1, len)]
  <2> HIDE DEF next
  <2> QED
    BY <1>0, <1>2, RingIsSeq
<1>5. /\ Tail(old) \in Seq(B) /\ Len(Tail(old)) = n - 1
      /\ \A i \in 1..(n - 1) : Tail(old)[i] = old[i + 1]
  <2> HIDE DEF old
  <2>1. old # <<>>
    BY <1>3, EmptySeq
  <2> QED
    BY <1>3, <2>1, HeadTailProperties
<1>6. ASSUME NEW i \in 1..(n - 1)
      PROVE  rest[i] = Tail(old)[i]
  <2>1. /\ i \in 0..len /\ i - 1 \in 0..len /\ i + 1 \in 1..n
        /\ pos + (i + 1) - 1 = pos + i /\ next + i - 1 = next + (i - 1)
    BY <1>0, <1>2
  <2>2. /\ Wrap(pos + i, len) = IF pos + i < len THEN pos + i ELSE pos + i - len
        /\ Wrap(next + (i - 1), len) = IF next + (i - 1) < len THEN next + (i - 1) ELSE next + (i - 1) - len
    <3> HIDE DEF next
    <3> QED
      BY <1>2, <2>1, IndexWraps
  <2>3. Wrap(next + (i - 1), len) = Wrap(pos + i, len)
    <3> HIDE DEF next
    <3> QED
      BY <1>0, <1>1, <1>2, <2>1, <2>2
  <2> HIDE DEF next, old, rest
  <2>4. rest[i] = buffer[Wrap(pos + i, len)]
    BY <1>4, <2>1, <2>3
  <2>5. Tail(old)[i] = buffer[Wrap(pos + i, len)]
    BY <1>3, <1>5, <2>1
  <2> QED
    BY <2>4, <2>5
<1> HIDE DEF next, old, rest
<1>7. rest = Tail(old)
  BY <1>4, <1>5, <1>6, SeqEqual
<1> QED
  BY <1>7 DEF next, old, rest

-----------------------------------------------------------------------------
(* A byte before a sequence *)

\* Behind it the sequence is left.
LEMMA TailOfCons ==
  ASSUME NEW B, NEW b \in B, NEW s \in Seq(B)
  PROVE  <<b>> \o s # <<>> /\ Tail(<<b>> \o s) = s
<1> DEFINE all == <<b>> \o s
<1>1. <<b>> \in Seq(B) /\ Len(<<b>>) = 1 /\ <<b>>[1] = b
  OBVIOUS
<1>2. /\ all \in Seq(B) /\ Len(all) = 1 + Len(s)
      /\ \A i \in 1..(1 + Len(s)) : all[i] = IF i <= 1 THEN <<b>>[i] ELSE s[i - 1]
  BY <1>1, ConcatProperties
<1> HIDE DEF all
<1>3. Len(s) \in Nat
  BY LenProperties
<1>4. all # <<>>
  BY <1>2, <1>3, EmptySeq
<1>5. /\ Tail(all) \in Seq(B) /\ Len(Tail(all)) = Len(s)
      /\ \A i \in 1..Len(s) : Tail(all)[i] = all[i + 1]
  BY <1>2, <1>3, <1>4, HeadTailProperties
<1>6. ASSUME NEW i \in 1..Len(s)
      PROVE  Tail(all)[i] = s[i]
  <2>1. i + 1 \in 1..(1 + Len(s)) /\ ~(i + 1 <= 1) /\ (i + 1) - 1 = i
    BY <1>3
  <2> QED
    BY <1>2, <1>5, <2>1
<1>7. Tail(all) = s
  BY <1>5, <1>6, SeqEqual
<1> QED
  BY <1>4, <1>7 DEF all

\* The first byte and the tail are the sequence.
LEMMA ConsHeadTail ==
  ASSUME NEW B, NEW s \in Seq(B), s # <<>>
  PROVE  <<s[1]>> \o Tail(s) = s
<1> DEFINE t == Tail(s)
           all == <<s[1]>> \o t
<1>1. /\ t \in Seq(B) /\ Len(t) = Len(s) - 1
      /\ \A i \in 1..Len(t) : t[i] = s[i + 1]
  BY HeadTailProperties
<1>2. Len(s) \in Nat \ {0}
  BY EmptySeq
<1>3. s[1] \in B
  BY <1>2, ElementOfSeq
<1>4. <<s[1]>> \in Seq(B) /\ Len(<<s[1]>>) = 1 /\ <<s[1]>>[1] = s[1]
  BY <1>3
<1> HIDE DEF t
<1>5. /\ all \in Seq(B) /\ Len(all) = 1 + Len(t)
      /\ \A i \in 1..(1 + Len(t)) : all[i] = IF i <= 1 THEN <<s[1]>>[i] ELSE t[i - 1]
  BY <1>1, <1>4, ConcatProperties
<1>6. Len(all) = Len(s)
  BY <1>1, <1>2, <1>5
<1>7. ASSUME NEW i \in 1..Len(s)
      PROVE  all[i] = s[i]
  <2>1. i \in 1..(1 + Len(t)) /\ (i = 1 \/ (~(i <= 1) /\ i - 1 \in 1..Len(t) /\ (i - 1) + 1 = i))
    BY <1>1, <1>2
  <2> HIDE DEF all
  <2>2. CASE i = 1
    BY <1>4, <1>5, <2>1, <2>2
  <2>3. CASE ~(i <= 1) /\ i - 1 \in 1..Len(t) /\ (i - 1) + 1 = i
    <3>1. all[i] = t[i - 1]
      BY <1>5, <2>1, <2>3
    <3>2. t[i - 1] = s[(i - 1) + 1]
      BY <1>1, <2>3
    <3> QED
      BY <2>3, <3>1, <3>2
  <2> QED
    BY <2>1, <2>2, <2>3
<1> HIDE DEF all
<1>8. all = s
  BY <1>5, <1>6, <1>7, SeqEqual
<1> QED
  BY <1>8 DEF all, t

\* A byte is appended to the second part or to the whole.
LEMMA ConcatAppend ==
  ASSUME NEW B, NEW s \in Seq(B), NEW t \in Seq(B), NEW b \in B
  PROVE  s \o Append(t, b) = Append(s \o t, b)
<1>1. <<b>> \in Seq(B)
  OBVIOUS
<1>2. s \o t \in Seq(B)
  BY ConcatProperties
<1>3. Append(t, b) = t \o <<b>>
  BY AppendIsConcat
<1>4. Append(s \o t, b) = (s \o t) \o <<b>>
  BY <1>2, AppendIsConcat
<1>5. (s \o t) \o <<b>> = s \o (t \o <<b>>)
  BY <1>1, ConcatAssociative
<1> QED
  BY <1>3, <1>4, <1>5

-----------------------------------------------------------------------------
(* The receiving half *)

\* A masked index is in the ring, wherever it points.
LEMMA MaskedInRing == ASSUME NEW n \in Nat PROVE Masked(n) \in Index
BY LengthAssumption DEF Masked, Index

\* RTS tells whether the ring has room.  Once it is full, each byte that is lost
\* or still under way was under way when RTS dropped, and so was the one that
\* filled the ring.
RtsInv == /\ rts <=> sccInputCount < SccBufferLength
          /\ rts => lost = 0
          /\ ~rts => lost + Len(line) < InFlight

ReceiveInv == ReceiveTypeOK /\ RtsInv

\* The ring has room for a byte, and a byte may be under way.
LEMMA ConstantTypes == SccBufferLength \in Nat \ {0} /\ InFlight \in Nat \ {0}
BY LengthAssumption, FlightAssumption

\* The ring is empty at first.
LEMMA InitReceive == ReceiveInit => ReceiveInv
<1> SUFFICES ASSUME ReceiveInit PROVE ReceiveInv
  OBVIOUS
<1>1. sccInputPos \in Index /\ sccInputCount \in 0..SccBufferLength
  BY ConstantTypes DEF ReceiveInit, Index
<1>2. sccInputBuffer \in [Index -> Bytes]
  BY BytesAssumption DEF ReceiveInit
<1>3. rts \in BOOLEAN /\ CtrlC_enable \in BOOLEAN
  BY Zenon DEF ReceiveInit
<1>4. line \in Seq(Bytes) /\ Len(line) = 0
  BY EmptySeq DEF ReceiveInit
<1>5. ReceiveTypeOK
  BY <1>1, <1>2, <1>3, <1>4, ConstantTypes DEF ReceiveInit, ReceiveTypeOK
<1>6. RtsInv
  BY ConstantTypes DEF ReceiveInit, RtsInv
<1> QED
  BY <1>5, <1>6 DEF ReceiveInv

-----------------------------------------------------------------------------
(* The line *)

\* A byte that arrives leaves the others in the line.
LEMMA LineShrinks ==
  ASSUME ReceiveTypeOK, NEW b, Arrives(b)
  PROVE  /\ b \in Bytes
         /\ line' \in Seq(Bytes) /\ Len(line) \in Nat \ {0} /\ Len(line') = Len(line) - 1
<1>1. line \in Seq(Bytes) /\ line # <<>>
  BY DEF ReceiveTypeOK, Arrives
<1> QED
  BY <1>1, HeadTailProperties, EmptySeq DEF Arrives

\* A byte that is sent comes behind them.
LEMMA LineGrows ==
  ASSUME ReceiveTypeOK, NEW b \in Bytes, Send(b)
  PROVE  line' \in Seq(Bytes) /\ Len(line') = Len(line) + 1 /\ Len(line) \in Nat
<1>1. line \in Seq(Bytes)
  BY DEF ReceiveTypeOK
<1> QED
  BY <1>1, AppendProperties, LenProperties DEF Send

\* Every step keeps the types, RTS and the bound of the loss.
LEMMA StepReceive == ReceiveInv /\ [ReceiveNext]_receiveVars => ReceiveInv'
<1> SUFFICES ASSUME ReceiveInv, [ReceiveNext]_receiveVars PROVE ReceiveInv'
  OBVIOUS
<1>0. /\ ReceiveTypeOK /\ RtsInv
      /\ sccInputPos \in Nat /\ sccInputCount \in Nat /\ lost \in Nat
      /\ SccBufferLength \in Nat \ {0} /\ InFlight \in Nat \ {0}
      /\ Len(line) \in Nat
  BY ConstantTypes, LenProperties DEF ReceiveInv, ReceiveTypeOK, Index
<1>1. CASE RxBreak
  <2>1. CtrlC_enable' \in BOOLEAN
    BY <1>1, Zenon DEF RxBreak
  <2>2. line' \in Seq(Bytes) /\ Len(line') = Len(line) - 1 /\ Len(line) # 0
    BY <1>0, <1>1, LineShrinks DEF RxBreak
  <2>3. ReceiveTypeOK'
    BY <1>0, <1>1, <2>1, <2>2 DEF RxBreak, ReceiveTypeOK
  <2>4. RtsInv'
    BY <1>0, <1>1, <2>2 DEF RxBreak, RtsInv
  <2> QED
    BY <2>3, <2>4 DEF ReceiveInv
<1>2. CASE RxDiscard
  <2>1. PICK b \in Data : Arrives(b)
    BY <1>2 DEF RxDiscard
  <2>2. line' \in Seq(Bytes) /\ Len(line') = Len(line) - 1 /\ Len(line) # 0
    BY <1>0, <2>1, LineShrinks
  <2>3. ReceiveTypeOK'
    BY <1>0, <1>2, <2>2 DEF RxDiscard, ReceiveTypeOK
  <2>4. RtsInv'
    BY <1>0, <1>2, <2>2 DEF RxDiscard, RtsInv
  <2> QED
    BY <2>3, <2>4 DEF ReceiveInv
<1>3. ASSUME NEW b \in Bytes, RxStore(b)
      PROVE  ReceiveInv'
  <2>1. line' \in Seq(Bytes) /\ Len(line') = Len(line) - 1 /\ Len(line) # 0
    BY <1>0, <1>3, LineShrinks DEF RxStore
  <2>2. sccInputBuffer' \in [Index -> Bytes]
    BY <1>0, <1>3 DEF RxStore, ReceiveTypeOK
  <2>3. sccInputCount' = sccInputCount + 1 /\ sccInputCount < SccBufferLength
    BY <1>0, <1>3 DEF RxStore, ReceiveTypeOK
  <2>4. rts' \in BOOLEAN
    BY <1>0, <1>3, Zenon DEF RxStore, ReceiveTypeOK
  <2>5. UNCHANGED <<sccInputPos, CtrlC_enable, reader, lost>>
    BY <1>3 DEF RxStore
  <2>6. ReceiveTypeOK'
    BY <1>0, <2>1, <2>2, <2>3, <2>4, <2>5 DEF ReceiveTypeOK
  <2>7. rts /\ lost = 0
    BY <1>0, <2>3 DEF RtsInv
  <2>8. CASE sccInputCount' = SccBufferLength
    <3>1. ~rts'
      BY <1>3, <2>8, Zenon DEF RxStore
    <3> QED
      BY <1>0, <1>3, <2>1, <2>6, <2>7, <2>8, <3>1 DEF RxStore, RtsInv, ReceiveTypeOK, ReceiveInv
  <2>9. CASE sccInputCount' # SccBufferLength
    <3>1. rts'
      BY <1>3, <2>7, <2>9, Zenon DEF RxStore
    <3> QED
      BY <1>0, <1>3, <2>3, <2>6, <2>7, <2>9, <3>1 DEF RxStore, RtsInv, ReceiveInv
  <2> QED
    BY <2>8, <2>9
<1>4. ASSUME NEW b \in Bytes, RxOverflow(b)
      PROVE  ReceiveInv'
  <2>1. line' \in Seq(Bytes) /\ Len(line') = Len(line) - 1 /\ Len(line) # 0
    BY <1>0, <1>4, LineShrinks DEF RxOverflow
  <2>2. ~rts /\ lost + Len(line) < InFlight
    BY <1>0, <1>4 DEF RxOverflow, RtsInv
  <2>3. lost' = lost + 1
    BY <1>0, <1>4, <2>1, <2>2 DEF RxOverflow
  <2>4. ReceiveTypeOK'
    BY <1>0, <1>4, <2>1, <2>2, <2>3 DEF RxOverflow, ReceiveTypeOK
  <2>5. RtsInv'
    BY <1>0, <1>4, <2>1, <2>2, <2>3 DEF RxOverflow, RtsInv
  <2> QED
    BY <2>4, <2>5 DEF ReceiveInv
<1>5. CASE SccBconstat
  <2>1. ReceiveTypeOK'
    BY <1>0, <1>5 DEF SccBconstat, ReceiveTypeOK
  <2> QED
    BY <1>0, <1>5, <2>1 DEF SccBconstat, RtsInv, ReceiveInv
<1>6. CASE SccBconin
  <2>1. sccInputPos' \in Index
    BY <1>0, <1>6, MaskedInRing DEF SccBconin
  <2>2. sccInputCount' = sccInputCount - 1 /\ sccInputCount' \in 0..(SccBufferLength - 1)
    BY <1>0, <1>6 DEF SccBconin, ReceiveTypeOK
  <2>3. rts' \in BOOLEAN
    BY <1>0, <1>6, Zenon DEF SccBconin, ReceiveTypeOK
  <2>4. lost' \in 0..InFlight
    BY <1>0, <1>6 DEF SccBconin, ReceiveTypeOK
  <2>5. UNCHANGED <<sccInputBuffer, CtrlC_enable, line>> /\ reader' = "idle"
    BY <1>6 DEF SccBconin
  <2>6. ReceiveTypeOK'
    BY <1>0, <2>1, <2>2, <2>3, <2>4, <2>5 DEF ReceiveTypeOK
  <2>7. rts' /\ lost' = 0
    <3>1. CASE sccInputCount = SccBufferLength
      BY <1>6, <3>1, Zenon DEF SccBconin
    <3>2. CASE sccInputCount # SccBufferLength
      <4>1. rts /\ lost = 0
        BY <1>0, <3>2 DEF RtsInv, ReceiveTypeOK
      <4> QED
        BY <1>6, <3>2, <4>1, Zenon DEF SccBconin
    <3> QED
      BY <3>1, <3>2
  <2> QED
    BY <1>0, <2>2, <2>6, <2>7 DEF RtsInv, ReceiveInv
<1>7. ASSUME NEW enable \in BOOLEAN, EnableCtrlC(enable)
      PROVE  ReceiveInv'
  <2>1. CtrlC_enable' \in BOOLEAN
    BY <1>7, Zenon DEF EnableCtrlC
  <2>2. ReceiveTypeOK'
    BY <1>0, <1>7, <2>1 DEF EnableCtrlC, ReceiveTypeOK
  <2> QED
    BY <1>0, <1>7, <2>2 DEF EnableCtrlC, RtsInv, ReceiveInv
<1>8. ASSUME NEW b \in Bytes, Send(b)
      PROVE  ReceiveInv'
  <2>1. line' \in Seq(Bytes) /\ Len(line') = Len(line) + 1
    BY <1>0, <1>8, LineGrows
  <2>2. ReceiveTypeOK'
    BY <1>0, <1>8, <2>1 DEF Send, ReceiveTypeOK
  <2> QED
    BY <1>0, <1>8, <2>1, <2>2 DEF Send, RtsInv, ReceiveInv
<1>9. CASE UNCHANGED receiveVars
  BY <1>0, <1>9 DEF receiveVars, ReceiveTypeOK, RtsInv, ReceiveInv
<1> QED
  BY <1>1, <1>2, <1>3, <1>4, <1>5, <1>6, <1>7, <1>8, <1>9 DEF ReceiveNext, Rx, Read

\* Of the bytes a sender has under way when RTS drops at least one is kept, however
\* many there are (SccSerialReceive, SccBconin).
THEOREM LossIsBounded == ReceiveSpec => []LossBounded
<1>1. ReceiveInv => LossBounded
  <2> SUFFICES ASSUME ReceiveInv PROVE lost < InFlight
    BY DEF LossBounded
  <2>1. Len(line) \in Nat /\ lost \in Nat
    BY ConstantTypes, LenProperties DEF ReceiveInv, ReceiveTypeOK
  <2> QED
    BY <2>1, ConstantTypes DEF ReceiveInv, RtsInv
<1> QED
  BY InitReceive, StepReceive, <1>1, PTL DEF ReceiveSpec

-----------------------------------------------------------------------------
(* The queue *)

\* What is received is what the ring holds.
LEMMA ReceivedIsRing ==
  /\ Received = RingSeq(sccInputBuffer, sccInputPos, sccInputCount, SccBufferLength)
  /\ Received' = RingSeq(sccInputBuffer', sccInputPos', sccInputCount', SccBufferLength)
BY DEF Received, RingSeq, Masked, Wrap

\* The driver starts with an empty queue.
LEMMA InputStartsEmpty == ReceiveInit => InputQueue!Init
<1> SUFFICES ASSUME ReceiveInit PROVE Received = <<>>
  BY DEF InputQueue!Init
<1>1. Received = [i \in 1..0 |-> sccInputBuffer[Masked(sccInputPos + i - 1)]]
  BY DEF ReceiveInit, Received
<1>2. 1..0 = {}
  OBVIOUS
<1> QED
  BY <1>1, <1>2

\* A step of the driver puts a byte, takes one, or leaves the queue alone.
LEMMA StepInput == ReceiveTypeOK /\ [ReceiveNext]_receiveVars => [InputQueue!Next]_Received
<1> SUFFICES ASSUME ReceiveTypeOK, [ReceiveNext]_receiveVars PROVE InputQueue!Next \/ Received' = Received
  OBVIOUS
<1>0. /\ sccInputBuffer \in Rings(SccBufferLength, Bytes)
      /\ sccInputPos \in 0..(SccBufferLength - 1)
      /\ sccInputCount \in 0..SccBufferLength
      /\ SccBufferLength \in Nat \ {0}
  BY ConstantTypes DEF ReceiveTypeOK, Index, Rings
<1>1. ASSUME UNCHANGED <<sccInputBuffer, sccInputPos, sccInputCount>>
      PROVE  Received' = Received
  BY <1>1, ReceivedIsRing
<1>2. Len(Received) = sccInputCount /\ Received \in Seq(Bytes)
  BY <1>0, RingIsSeq, ReceivedIsRing
<1>3. ASSUME NEW b \in Bytes, RxStore(b)
      PROVE  InputQueue!Next
  <2>1. /\ sccInputCount \in 0..(SccBufferLength - 1)
        /\ sccInputBuffer' = [sccInputBuffer EXCEPT
                                ![Wrap(sccInputPos + sccInputCount, SccBufferLength)] = b]
        /\ sccInputPos' = sccInputPos /\ sccInputCount' = sccInputCount + 1
    BY <1>0, <1>3 DEF RxStore, Masked, Wrap
  <2>2. Received' = Append(Received, b)
    <3> DEFINE end == Wrap(sccInputPos + sccInputCount, SccBufferLength)
    <3>1. end \in 0..(SccBufferLength - 1)
      BY <1>0, IndexInRing
    <3>2. /\ sccInputBuffer' \in Rings(SccBufferLength, Bytes)
          /\ sccInputBuffer'[end] = b
          /\ \A j \in 0..(SccBufferLength - 1) :
               j # end => sccInputBuffer'[j] = sccInputBuffer[j]
      BY <1>0, <2>1, <3>1 DEF Rings
    <3>3. RingSeq(sccInputBuffer', sccInputPos, sccInputCount + 1, SccBufferLength)
            = Append(RingSeq(sccInputBuffer, sccInputPos, sccInputCount, SccBufferLength), b)
      <4>1. sccInputCount \in 0..(SccBufferLength - 1)
        BY <2>1
      <4> QED
        BY <1>0, <3>2, <4>1, RingAppend
    <3> QED
      BY <2>1, <3>3, ReceivedIsRing
  <2>3. Len(Received) < SccBufferLength
    BY <1>0, <1>2, <2>1
  <2> QED
    BY <2>2, <2>3 DEF InputQueue!Next, InputQueue!Put
<1>4. CASE SccBconin
  <2>1. /\ sccInputCount \in 1..SccBufferLength
        /\ sccInputPos' = Wrap(sccInputPos + 1, SccBufferLength)
        /\ sccInputBuffer' = sccInputBuffer /\ sccInputCount' = sccInputCount - 1
    BY <1>0, <1>4 DEF SccBconin, Masked, Wrap
  <2>2. Received' = Tail(Received)
    BY <1>0, <2>1, RingTail, ReceivedIsRing
  <2>3. Received # <<>>
    BY <1>0, <1>2, <2>1, EmptySeq
  <2> QED
    BY <2>2, <2>3 DEF InputQueue!Next, InputQueue!Take
<1> QED
  BY <1>1, <1>3, <1>4
     DEF ReceiveNext, Rx, Read, RxBreak, RxDiscard, RxOverflow, SccBconstat, EnableCtrlC, Send, receiveVars

\* The ring is a queue of SccBufferLength bytes: what is stored is read once, in
\* the order in which it came, wherever the position wraps (comm_mfp_scc.s).
THEOREM RingImplementsQueue == ReceiveSpec => ImplementsInputQueue
<1>1. ReceiveInv /\ [ReceiveNext]_receiveVars => [InputQueue!Next]_Received
  BY StepInput DEF ReceiveInv
<1> QED
  BY InitReceive, StepReceive, InputStartsEmpty, <1>1, PTL DEF ReceiveSpec, ImplementsInputQueue, InputQueue!Spec

-----------------------------------------------------------------------------
(* The sending half *)

\* What the wakeup rests on: SccBconout holds the interrupt off, and the status
\* it has read stays true to the chip, or an interrupt has become pending since.
StatusIsFresh ==
  writer = "locked" => /\ handler = "idle"
                       /\ status => holding = <<>>
                       /\ ~status /\ holding = <<>> => pending

WakeupInv == TransmitTypeOK /\ NoLostWakeup /\ StatusIsFresh

\* The driver starts quiet and empty.
LEMMA InitWakeup == TransmitInit => WakeupInv
<1> SUFFICES ASSUME TransmitInit PROVE WakeupInv
  OBVIOUS
<1>1. TransmitTypeOK
  <2>1. sccOutputPos \in Index /\ sccOutputCount \in 0..SccBufferLength
    BY LengthAssumption DEF TransmitInit, Index
  <2>2. sccOutputBuffer \in [Index -> Bytes]
    BY DEF TransmitInit
  <2>3. pending \in BOOLEAN /\ status \in BOOLEAN
    BY Zenon DEF TransmitInit
  <2> QED
    BY <2>1, <2>2, <2>3 DEF TransmitInit, TransmitTypeOK
<1>2. NoLostWakeup /\ StatusIsFresh
  BY DEF TransmitInit, NoLostWakeup, StatusIsFresh
<1> QED
  BY <1>1, <1>2 DEF WakeupInv

\* Every variable keeps its type; the position stays in the ring, and the count
\* within its length.
LEMMA StepTransmitTypes == TransmitTypeOK /\ [TransmitNext]_transmitVars => TransmitTypeOK'
<1> SUFFICES ASSUME TransmitTypeOK, [TransmitNext]_transmitVars PROVE TransmitTypeOK'
  OBVIOUS
<1>0. /\ sccOutputPos \in Nat /\ sccOutputCount \in Nat
      /\ SccBufferLength \in Nat \ {0}
  BY LengthAssumption DEF TransmitTypeOK, Index
<1>1. CASE SccBcostat
  BY <1>1 DEF SccBcostat, ringVars, TransmitTypeOK
<1>2. CASE ReadStatus
  <2>1. status' \in BOOLEAN
    BY <1>2, Zenon DEF ReadStatus
  <2> QED
    BY <1>2, <2>1 DEF ReadStatus, ringVars, TransmitTypeOK
<1>3. ASSUME NEW b \in Bytes, SendImmediately(b)
      PROVE  TransmitTypeOK'
  <2>1. pending' \in BOOLEAN
    BY <1>3, Zenon DEF SendImmediately
  <2> QED
    BY <1>3, <2>1 DEF SendImmediately, ringVars, TransmitTypeOK
<1>4. ASSUME NEW b \in Bytes, PutInBuffer(b)
      PROVE  TransmitTypeOK'
  <2>1. sccOutputBuffer' \in [Index -> Bytes]
    BY <1>4 DEF PutInBuffer, TransmitTypeOK
  <2>2. sccOutputCount' \in 0..SccBufferLength
    BY <1>0, <1>4 DEF PutInBuffer, TransmitTypeOK
  <2> QED
    BY <1>4, <2>1, <2>2 DEF PutInBuffer, TransmitTypeOK
<1>5. CASE TxInterrupt
  <2>1. pending' \in BOOLEAN
    BY <1>5, Zenon DEF TxInterrupt
  <2> QED
    BY <1>5, <2>1 DEF TxInterrupt, ringVars, TransmitTypeOK
<1>6. CASE TxNext
  <2>1. CASE holding = <<>> /\ sccOutputCount # 0
    <3>1. pending' \in BOOLEAN
      BY <1>6, <2>1, Zenon DEF TxNext
    <3>2. sccOutputPos' \in Index
      BY <1>0, <1>6, <2>1, MaskedInRing DEF TxNext
    <3>3. sccOutputCount' \in 0..SccBufferLength
      BY <1>0, <1>6, <2>1 DEF TxNext, TransmitTypeOK
    <3>4. holding' \in {<<>>} \cup {<<b>> : b \in Bytes}
      BY <1>6, <2>1 DEF TxNext, TransmitTypeOK
    <3> QED
      BY <1>6, <3>1, <3>2, <3>3, <3>4 DEF TxNext, TransmitTypeOK
  <2>2. CASE ~(holding = <<>> /\ sccOutputCount # 0)
    BY <1>6, <2>2 DEF TxNext, TransmitTypeOK
  <2> QED
    BY <2>1, <2>2
<1>7. CASE ByteSent
  <2>1. pending' \in BOOLEAN
    BY <1>7, Zenon DEF ByteSent
  <2> QED
    BY <1>7, <2>1 DEF ByteSent, ringVars, TransmitTypeOK
<1>8. CASE UNCHANGED transmitVars
  BY <1>8 DEF transmitVars, TransmitTypeOK
<1> QED
  BY <1>1, <1>2, <1>3, <1>4, <1>5, <1>6, <1>7, <1>8 DEF TransmitNext, Bconout

\* The status read before the decision is still good when the decision is made.
LEMMA StepStatus == WakeupInv /\ [TransmitNext]_transmitVars => StatusIsFresh'
<1> SUFFICES ASSUME WakeupInv, [TransmitNext]_transmitVars PROVE StatusIsFresh'
  OBVIOUS
<1> USE DEF WakeupInv, StatusIsFresh
<1>1. CASE SccBcostat
  BY <1>1 DEF SccBcostat
<1>2. CASE ReadStatus
  BY <1>2 DEF ReadStatus, WriterRuns
<1>3. ASSUME NEW b \in Bytes, SendImmediately(b) \/ PutInBuffer(b)
      PROVE  StatusIsFresh'
  BY <1>3 DEF SendImmediately, PutInBuffer
<1>4. CASE TxInterrupt
  BY <1>4 DEF TxInterrupt
<1>5. CASE TxNext
  BY <1>5 DEF TxNext
<1>6. CASE ByteSent
  BY <1>6 DEF ByteSent
<1>7. CASE UNCHANGED transmitVars
  BY <1>7 DEF transmitVars
<1> QED
  BY <1>1, <1>2, <1>3, <1>4, <1>5, <1>6, <1>7 DEF TransmitNext, Bconout

\* No step leaves bytes in the ring of a quiet driver.
LEMMA StepWakeup == WakeupInv /\ [TransmitNext]_transmitVars => NoLostWakeup'
<1> SUFFICES ASSUME WakeupInv, [TransmitNext]_transmitVars PROVE NoLostWakeup'
  OBVIOUS
<1> USE DEF WakeupInv, NoLostWakeup
<1>1. CASE SccBcostat
  BY <1>1 DEF SccBcostat, ringVars
<1>2. CASE ReadStatus
  BY <1>2 DEF ReadStatus, ringVars
<1>3. ASSUME NEW b \in Bytes, SendImmediately(b)
      PROVE  NoLostWakeup'
  BY <1>3 DEF SendImmediately, ringVars
<1>4. ASSUME NEW b \in Bytes, PutInBuffer(b)
      PROVE  NoLostWakeup'
  <2>1. CASE sccOutputCount = 0
    BY <1>4, <2>1 DEF PutInBuffer, StatusIsFresh, TransmitTypeOK
  <2>2. CASE sccOutputCount # 0
    BY <1>4, <2>2 DEF PutInBuffer
  <2> QED
    BY <2>1, <2>2
<1>5. CASE TxInterrupt
  BY <1>5 DEF TxInterrupt
<1>6. CASE TxNext
  <2>1. CASE holding = <<>> /\ sccOutputCount # 0
    BY <1>6, <2>1 DEF TxNext
  <2>2. CASE ~(holding = <<>> /\ sccOutputCount # 0)
    BY <1>6, <2>2 DEF TxNext
  <2> QED
    BY <2>1, <2>2
<1>7. CASE ByteSent
  BY <1>7 DEF ByteSent
<1>8. CASE UNCHANGED transmitVars
  BY <1>8 DEF transmitVars
<1> QED
  BY <1>1, <1>2, <1>3, <1>4, <1>5, <1>6, <1>7, <1>8 DEF TransmitNext, Bconout

\* While bytes are queued and the chip is free, an interrupt that will send the
\* next one is pending or being handled (SccBconout, SccSerialTX).
THEOREM WakeupIsNotLost == TransmitSpec => []NoLostWakeup
<1>1. WakeupInv /\ [TransmitNext]_transmitVars => WakeupInv'
  BY StepTransmitTypes, StepStatus, StepWakeup DEF WakeupInv
<1>2. WakeupInv => NoLostWakeup
  BY DEF WakeupInv
<1> QED
  BY InitWakeup, <1>1, <1>2, PTL DEF TransmitSpec

-----------------------------------------------------------------------------
(* The queue *)

\* What the ring holds, oldest byte first.
Waiting == RingSeq(sccOutputBuffer, sccOutputPos, sccOutputCount, SccBufferLength)

\* What is not sent yet is the byte in the chip and what waits in the ring.
LEMMA UnsentIsRing == Unsent = holding \o Waiting /\ Unsent' = holding' \o Waiting'
BY DEF Unsent, Waiting, RingSeq, Masked, Wrap

\* A ring without bytes is the empty sequence.
LEMMA EmptyRing == ASSUME NEW buffer, NEW pos PROVE RingSeq(buffer, pos, 0, SccBufferLength) = <<>>
<1>1. RingSeq(buffer, pos, 0, SccBufferLength)
        = [i \in 1..0 |-> buffer[Wrap(pos + i - 1, SccBufferLength)]]
  BY DEF RingSeq
<1>2. 1..0 = {}
  OBVIOUS
<1> QED
  BY <1>1, <1>2

\* The driver starts with an empty queue.
LEMMA OutputStartsEmpty == TransmitInit => OutputQueue!Init
<1> SUFFICES ASSUME TransmitInit PROVE Unsent = <<>>
  BY DEF OutputQueue!Init
<1>1. holding = <<>> /\ Waiting = <<>>
  BY EmptyRing DEF TransmitInit, Waiting
<1> QED
  BY <1>1, UnsentIsRing, ConcatEmptySeq, EmptySeq

\* The types of the parts of the queue.
LEMMA QueueTypes ==
  ASSUME TransmitTypeOK
  PROVE  /\ holding \in Seq(Bytes) /\ Len(holding) \in {0, 1}
         /\ Waiting \in Seq(Bytes) /\ Len(Waiting) = sccOutputCount
         /\ Unsent \in Seq(Bytes) /\ Len(Unsent) = Len(holding) + sccOutputCount
<1>1. holding \in Seq(Bytes) /\ Len(holding) \in {0, 1}
  <2>1. CASE holding = <<>>
    BY <2>1, EmptySeq
  <2>2. CASE holding # <<>>
    <3>1. PICK b \in Bytes : holding = <<b>>
      BY <2>2 DEF TransmitTypeOK
    <3> QED
      BY <3>1
  <2> QED
    BY <2>1, <2>2
<1>2. Waiting \in Seq(Bytes) /\ Len(Waiting) = sccOutputCount
  <2>1. /\ sccOutputBuffer \in Rings(SccBufferLength, Bytes)
        /\ sccOutputPos \in 0..(SccBufferLength - 1)
        /\ sccOutputCount \in 0..SccBufferLength
        /\ SccBufferLength \in Nat \ {0}
    BY LengthAssumption DEF TransmitTypeOK, Index, Rings
  <2> QED
    BY <2>1, RingIsSeq DEF Waiting
<1> QED
  BY <1>1, <1>2, UnsentIsRing, ConcatProperties

\* A step of the driver puts a byte, takes one, or moves one from the ring to
\* the chip, which leaves the queue as it is.
LEMMA StepOutput == WakeupInv /\ [TransmitNext]_transmitVars => [OutputQueue!Next]_Unsent
<1> SUFFICES ASSUME WakeupInv, [TransmitNext]_transmitVars PROVE OutputQueue!Next \/ Unsent' = Unsent
  OBVIOUS
<1>0. /\ sccOutputBuffer \in Rings(SccBufferLength, Bytes)
      /\ sccOutputPos \in 0..(SccBufferLength - 1)
      /\ sccOutputCount \in 0..SccBufferLength /\ sccOutputCount \in Nat
      /\ SccBufferLength \in Nat \ {0}
      /\ TransmitTypeOK
  BY LengthAssumption DEF WakeupInv, TransmitTypeOK, Index, Rings
<1>1. /\ holding \in Seq(Bytes) /\ Len(holding) \in {0, 1}
      /\ Waiting \in Seq(Bytes) /\ Len(Waiting) = sccOutputCount
      /\ Unsent \in Seq(Bytes) /\ Len(Unsent) = Len(holding) + sccOutputCount
  BY <1>0, QueueTypes
<1>2. ASSUME UNCHANGED <<sccOutputBuffer, sccOutputPos, sccOutputCount, holding>>
      PROVE  Unsent' = Unsent
  BY <1>2, UnsentIsRing DEF Waiting
<1>3. ASSUME NEW b \in Bytes, SendImmediately(b)
      PROVE  OutputQueue!Next
  <2>1. sccOutputCount = 0 /\ holding = <<>>
    BY <1>3 DEF SendImmediately, WakeupInv, StatusIsFresh
  <2>2. Waiting = <<>> /\ Waiting' = <<>>
    BY <1>3, <2>1, EmptyRing DEF SendImmediately, ringVars, Waiting
  <2>3. Unsent = <<>> /\ Unsent' = <<b>>
    BY <1>3, <2>1, <2>2, UnsentIsRing, ConcatEmptySeq, EmptySeq DEF SendImmediately
  <2>4. Append(Unsent, b) = <<b>>
    BY <2>3
  <2>5. Len(Unsent) < SccBufferLength + 1
    BY <1>0, <2>3, EmptySeq
  <2> QED
    BY <2>3, <2>4, <2>5 DEF OutputQueue!Next, OutputQueue!Put
<1>4. ASSUME NEW b \in Bytes, PutInBuffer(b)
      PROVE  OutputQueue!Next
  <2>1. /\ sccOutputCount \in 0..(SccBufferLength - 1)
        /\ sccOutputPos' = sccOutputPos /\ sccOutputCount' = sccOutputCount + 1
        /\ holding' = holding
    BY <1>0, <1>4 DEF PutInBuffer
  <2>2. Waiting' = Append(Waiting, b)
    <3> DEFINE end == Wrap(sccOutputPos + sccOutputCount, SccBufferLength)
    <3>1. end \in 0..(SccBufferLength - 1)
      BY <1>0, IndexInRing
    <3>2. sccOutputBuffer' = [sccOutputBuffer EXCEPT ![end] = b]
      BY <1>4 DEF PutInBuffer, Masked, Wrap
    <3>3. /\ sccOutputBuffer' \in Rings(SccBufferLength, Bytes)
          /\ sccOutputBuffer'[end] = b
          /\ \A j \in 0..(SccBufferLength - 1) :
               j # end => sccOutputBuffer'[j] = sccOutputBuffer[j]
      BY <1>0, <3>1, <3>2 DEF Rings
    <3>4. RingSeq(sccOutputBuffer', sccOutputPos, sccOutputCount + 1, SccBufferLength)
            = Append(RingSeq(sccOutputBuffer, sccOutputPos, sccOutputCount,
                             SccBufferLength), b)
      <4>1. sccOutputCount \in 0..(SccBufferLength - 1)
        BY <2>1
      <4> QED
        BY <1>0, <3>3, <4>1, RingAppend
    <3> QED
      BY <2>1, <3>4 DEF Waiting
  <2>3. Unsent' = Append(Unsent, b)
    <3>1. holding \o Append(Waiting, b) = Append(holding \o Waiting, b)
      BY <1>1, ConcatAppend
    <3> QED
      BY <2>1, <2>2, <3>1, UnsentIsRing
  <2>4. Len(Unsent) < SccBufferLength + 1
    <3> DEFINE h == Len(holding)
               u == Len(Unsent)
    <3>1. h \in {0, 1} /\ u = h + sccOutputCount
      BY <1>1
    <3>2. sccOutputCount \in 0..(SccBufferLength - 1) /\ SccBufferLength \in Nat \ {0}
      BY <1>0, <2>1
    <3> HIDE DEF h, u
    <3>3. u < SccBufferLength + 1
      BY <3>1, <3>2
    <3> QED
      BY <3>3 DEF u
  <2> QED
    BY <2>3, <2>4 DEF OutputQueue!Next, OutputQueue!Put
<1>5. CASE TxNext
  <2>1. CASE holding = <<>> /\ sccOutputCount # 0
    <3>1. /\ sccOutputCount \in 1..SccBufferLength
          /\ sccOutputPos' = Wrap(sccOutputPos + 1, SccBufferLength)
          /\ sccOutputBuffer' = sccOutputBuffer /\ sccOutputCount' = sccOutputCount - 1
          /\ holding' = <<sccOutputBuffer[sccOutputPos]>>
      BY <1>0, <1>5, <2>1 DEF TxNext, Masked, Wrap
    <3>2. Waiting' = Tail(Waiting)
      <4>1. RingSeq(sccOutputBuffer, Wrap(sccOutputPos + 1, SccBufferLength),
                    sccOutputCount - 1, SccBufferLength)
              = Tail(RingSeq(sccOutputBuffer, sccOutputPos, sccOutputCount, SccBufferLength))
        BY <1>0, <3>1, RingTail
      <4> QED
        BY <3>1, <4>1 DEF Waiting
    <3>3. Waiting # <<>>
      BY <1>0, <1>1, <3>1, EmptySeq
    <3>4. Waiting[1] = sccOutputBuffer[sccOutputPos]
      <4>1. 0 \in 0..SccBufferLength /\ sccOutputPos + 0 = sccOutputPos
            /\ sccOutputPos + 1 - 1 = sccOutputPos /\ sccOutputPos < SccBufferLength
        BY <1>0
      <4>2. Wrap(sccOutputPos + 0, SccBufferLength) = sccOutputPos
        BY <1>0, <4>1, IndexWraps
      <4>3. Waiting[1] = sccOutputBuffer[Wrap(sccOutputPos + 1 - 1, SccBufferLength)]
        BY <1>0, <3>1 DEF Waiting, RingSeq
      <4> QED
        BY <4>1, <4>2, <4>3
    <3>5. <<Waiting[1]>> \o Tail(Waiting) = Waiting
      BY <1>1, <3>3, ConsHeadTail
    <3>6. Unsent = Waiting
      BY <1>1, <2>1, UnsentIsRing, ConcatEmptySeq
    <3> QED
      BY <3>1, <3>2, <3>4, <3>5, <3>6, UnsentIsRing
  <2>2. CASE ~(holding = <<>> /\ sccOutputCount # 0)
    BY <1>2, <1>5, <2>2 DEF TxNext
  <2> QED
    BY <2>1, <2>2
<1>6. CASE ByteSent
  <2>1. PICK b \in Bytes : holding = <<b>>
    BY <1>0, <1>6 DEF ByteSent, TransmitTypeOK
  <2>2. holding' = <<>> /\ Waiting' = Waiting
    BY <1>6 DEF ByteSent, ringVars, Waiting
  <2>3. Unsent' = Waiting
    BY <1>1, <2>2, UnsentIsRing, ConcatEmptySeq
  <2>4. Unsent # <<>> /\ Tail(Unsent) = Waiting
    BY <1>1, <2>1, UnsentIsRing, TailOfCons
  <2> QED
    BY <2>3, <2>4 DEF OutputQueue!Next, OutputQueue!Take
<1> QED
  BY <1>2, <1>3, <1>4, <1>5, <1>6
     DEF TransmitNext, Bconout, SccBcostat, ReadStatus, TxInterrupt, transmitVars, ringVars

\* The chip and the ring together are a queue of one byte more than the ring has:
\* a byte sent at once never overtakes one that waits, and none is lost or sent
\* twice (SccBconout, SccSerialTX).
THEOREM DriverImplementsQueue == TransmitSpec => ImplementsOutputQueue
<1>1. WakeupInv /\ [TransmitNext]_transmitVars => WakeupInv'
  BY StepTransmitTypes, StepStatus, StepWakeup DEF WakeupInv
<1> QED
  BY InitWakeup, <1>1, OutputStartsEmpty, StepOutput, PTL DEF TransmitSpec, ImplementsOutputQueue, OutputQueue!Spec
==============================================================================
