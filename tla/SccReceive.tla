----------------------------- MODULE SccReceive -----------------------------
(***************************************************************************)
(* The receiving half of the SCC serial driver (gdbserver/comm_mfp_scc.s,  *)
(* gdbserver/comm.c): the interrupt handler SccSerialRX with its ring      *)
(* buffer, the RTS handshake and the Ctrl-C filter, and the polling reader *)
(* Scc_ReceiveByte.                                                        *)
(*                                                                         *)
(* Both sides run on one processor.  SccBconin works with interrupts       *)
(* disabled, the handler interrupts everything else, so that a byte may    *)
(* arrive between SccBconstat and SccBconin.                               *)
(***************************************************************************)
EXTENDS SccRing

CONSTANT InFlight \* bytes the sender may have under way when RTS drops

CtrlC == 3
Data == Bytes \ {CtrlC}

ASSUME BytesAssumption  == CtrlC \in Bytes
ASSUME FlightAssumption == InFlight \in Nat \ {0}

VARIABLES sccInputBuffer, \* the ring
          sccInputPos,    \* index of its oldest byte
          sccInputCount,  \* how many bytes it holds
          rts,            \* request to send, what the sender looks at
          CtrlC_enable,   \* bytes belong to the running inferior's debugger
          reader,         \* "idle", or "ready" once SccBconstat saw a byte
          line,           \* bytes under way to the SCC
          lost            \* history: bytes that met a full ring since RTS dropped,
                          \* counted up to InFlight

receiveVars == <<sccInputBuffer, sccInputPos, sccInputCount, rts, CtrlC_enable,
                 reader, line, lost>>

ReceiveTypeOK ==
  /\ sccInputBuffer \in [Index -> Bytes]
  /\ sccInputPos \in Index
  /\ sccInputCount \in 0..SccBufferLength
  /\ rts \in BOOLEAN /\ CtrlC_enable \in BOOLEAN
  /\ lost \in 0..InFlight
  /\ reader \in {"idle", "ready"}
  /\ line \in Seq(Bytes) /\ Len(line) <= InFlight

\* InitSccAux; the buffer is in .bss, its content does not matter.
ReceiveInit ==
  /\ sccInputBuffer \in [Index -> {CtrlC}]
  /\ sccInputPos = 0 /\ sccInputCount = 0
  /\ rts = TRUE /\ CtrlC_enable = FALSE
  /\ reader = "idle"
  /\ line = <<>>
  /\ lost = 0

-----------------------------------------------------------------------------
(* SccSerialRX *)

Arrives(b) == line # <<>> /\ Head(line) = b /\ line' = Tail(line)

\* The break of the inferior: from here CtrlCException runs the server.
RxBreak ==
  /\ Arrives(CtrlC) /\ CtrlC_enable
  /\ CtrlC_enable' = FALSE
  /\ UNCHANGED <<sccInputBuffer, sccInputPos, sccInputCount, rts, reader, lost>>

\* Anything else is discarded while Ctrl-C is enabled.
RxDiscard ==
  /\ \E b \in Data : Arrives(b)
  /\ CtrlC_enable
  /\ UNCHANGED <<sccInputBuffer, sccInputPos, sccInputCount, rts, CtrlC_enable,
                 reader, lost>>

\* Mutants of RxStore: RTS is never dropped; the position is not added.
RxStoreKeepsRts(b) ==
  /\ Arrives(b) /\ ~CtrlC_enable /\ sccInputCount # SccBufferLength
  /\ sccInputBuffer' =
       [sccInputBuffer EXCEPT ![Masked(sccInputPos + sccInputCount)] = b]
  /\ sccInputCount' = sccInputCount + 1
  /\ UNCHANGED <<sccInputPos, rts, CtrlC_enable, reader, lost>>

RxStoreIgnoresPos(b) ==
  /\ Arrives(b) /\ ~CtrlC_enable /\ sccInputCount # SccBufferLength
  /\ sccInputBuffer' = [sccInputBuffer EXCEPT ![Masked(sccInputCount)] = b]
  /\ sccInputCount' = sccInputCount + 1
  /\ rts' = IF sccInputCount' = SccBufferLength THEN FALSE ELSE rts
  /\ UNCHANGED <<sccInputPos, CtrlC_enable, reader, lost>>

\* SccSerialReceive: store the byte, and drop RTS when that fills the ring.
RxStore(b) ==
  /\ Arrives(b) /\ ~CtrlC_enable /\ sccInputCount # SccBufferLength
  /\ sccInputBuffer' =
       [sccInputBuffer EXCEPT ![Masked(sccInputPos + sccInputCount)] = b]
  /\ sccInputCount' = sccInputCount + 1
  /\ rts' = IF sccInputCount' = SccBufferLength THEN FALSE ELSE rts
  /\ UNCHANGED <<sccInputPos, CtrlC_enable, reader, lost>>

\* "Fifo overflow, data lost"
RxOverflow(b) ==
  /\ Arrives(b) /\ ~CtrlC_enable /\ sccInputCount = SccBufferLength
  /\ lost' = IF lost < InFlight THEN lost + 1 ELSE lost
  /\ UNCHANGED <<sccInputBuffer, sccInputPos, sccInputCount, rts, CtrlC_enable, reader>>

-----------------------------------------------------------------------------
(* Scc_ReceiveByte and EnableCtrlC *)

\* SccBconstat sees a byte; without one the result is COMM_ERR_NOT_READY.
SccBconstat ==
  /\ reader = "idle" /\ ~CtrlC_enable /\ sccInputCount # 0
  /\ reader' = "ready"
  /\ UNCHANGED <<sccInputBuffer, sccInputPos, sccInputCount, rts, CtrlC_enable,
                 line, lost>>

\* Mutant of SccBconin: the count is compared after it was decremented, so that
\* RTS stays down.
SccBconinComparesLate ==
  /\ reader = "ready" /\ sccInputCount # 0
  /\ sccInputPos' = Masked(sccInputPos + 1)
  /\ sccInputCount' = sccInputCount - 1
  /\ rts' = IF sccInputCount' = SccBufferLength THEN TRUE ELSE rts
  /\ reader' = "idle"
  /\ UNCHANGED <<sccInputBuffer, CtrlC_enable, line, lost>>

\* SccBconin takes the oldest byte, and raises RTS when the ring was full.
SccBconin ==
  /\ reader = "ready" /\ sccInputCount # 0
  /\ sccInputPos' = Masked(sccInputPos + 1)
  /\ sccInputCount' = sccInputCount - 1
  /\ rts' = IF sccInputCount = SccBufferLength THEN TRUE ELSE rts
  /\ lost' = IF sccInputCount = SccBufferLength THEN 0 ELSE lost
  /\ reader' = "idle"
  /\ UNCHANGED <<sccInputBuffer, CtrlC_enable, line>>

\* SetCtrlCFlag: the command loop resumes the inferior, and is entered again.
EnableCtrlC(enable) ==
  /\ reader = "idle"
  /\ CtrlC_enable # enable /\ CtrlC_enable' = enable
  /\ UNCHANGED <<sccInputBuffer, sccInputPos, sccInputCount, rts, reader, line, lost>>

\* The other end, held back by RTS only.
Send(b) ==
  /\ rts /\ Len(line) < InFlight
  /\ line' = Append(line, b)
  /\ UNCHANGED <<sccInputBuffer, sccInputPos, sccInputCount, rts, CtrlC_enable,
                 reader, lost>>

Rx == RxBreak \/ RxDiscard \/ \E b \in Bytes : RxStore(b) \/ RxOverflow(b)

Read == SccBconstat \/ SccBconin

ReceiveNext ==
  \/ Rx \/ Read
  \/ \E enable \in BOOLEAN : EnableCtrlC(enable)
  \/ \E b \in Bytes : Send(b)

ReceiveSpec == ReceiveInit /\ [][ReceiveNext]_receiveVars

\* The interrupt is served and the server polls: GetByte keeps calling
\* ReceiveByte while the command loop waits for packets.
ReceiveFairSpec ==
  /\ ReceiveSpec
  /\ WF_receiveVars(Rx) /\ WF_receiveVars(SccBconstat) /\ WF_receiveVars(SccBconin)

-----------------------------------------------------------------------------
(* Properties *)

\* The bytes in the ring, oldest first.
Received == [i \in 1..sccInputCount |-> sccInputBuffer[Masked(sccInputPos + i - 1)]]

\* The ring is a queue: the reader gets the bytes that were stored in the order
\* in which they came, across every wrap of the ring.
InputQueue == INSTANCE ByteQueue
                WITH Capacity <- SccBufferLength, queue <- Received
ImplementsInputQueue == InputQueue!Spec

\* RTS drops in time: of the bytes a sender has under way when it drops, the one
\* that filled the ring is kept, so that a sender with a single byte under way
\* loses nothing (comm_mfp_scc.s:229, "data lost (should not happen if RTS is
\* handled properly)").
LossBounded == lost < InFlight

\* The sender is not held back for ever while the server reads.
SenderReleased == ~rts ~> (rts \/ CtrlC_enable)
=============================================================================
