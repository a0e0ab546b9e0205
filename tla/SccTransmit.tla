----------------------------- MODULE SccTransmit -----------------------------
(***************************************************************************)
(* The sending half of the SCC serial driver (gdbserver/comm_mfp_scc.s,    *)
(* gdbserver/comm.c): Scc_TransmitByte with SccBcostat and SccBconout, the *)
(* interrupt handler SccSerialTX and the ring buffer between them.         *)
(*                                                                         *)
(* The chip raises its transmit interrupt when its transmit buffer becomes *)
(* empty; writing a byte to it withdraws a pending one.  SccBconout works  *)
(* with interrupts disabled.                                               *)
(***************************************************************************)
EXTENDS SccRing

VARIABLES sccOutputBuffer, sccOutputPos, sccOutputCount,
          holding,  \* the SCC's transmit buffer: <<>> (status bit 2) or <<b>>
          pending,  \* the SCC's transmit interrupt is pending
          handler,  \* "idle", or "cleared" after SccClearIrq of SccSerialTX
          writer,   \* "idle", "room" after SccBcostat
          status    \* Scc_StatusRegister, bit 2, as SccBconout has read it

transmitVars == <<sccOutputBuffer, sccOutputPos, sccOutputCount, holding, pending,
                  handler, writer, status>>

ringVars == <<sccOutputBuffer, sccOutputPos, sccOutputCount>>

TransmitTypeOK ==
  /\ sccOutputBuffer \in [Index -> Bytes]
  /\ sccOutputPos \in Index
  /\ sccOutputCount \in 0..SccBufferLength
  /\ holding \in {<<>>} \cup {<<b>> : b \in Bytes}
  /\ pending \in BOOLEAN
  /\ handler \in {"idle", "cleared"}
  /\ writer \in {"idle", "room", "locked"}
  /\ status \in BOOLEAN

TransmitInit ==
  /\ \E b \in Bytes : sccOutputBuffer = [i \in Index |-> b]
  /\ sccOutputPos = 0 /\ sccOutputCount = 0
  /\ holding = <<>> /\ pending = FALSE
  /\ handler = "idle" /\ writer = "idle" /\ status = FALSE

-----------------------------------------------------------------------------
(* Scc_TransmitByte *)

\* The handler interrupts the writer anywhere but under ori.w #0x700, sr.
WriterRuns == handler = "idle"

\* SccBcostat is not zero: there is room in the ring.
SccBcostat ==
  /\ WriterRuns /\ writer = "idle" /\ sccOutputCount < SccBufferLength
  /\ writer' = "room"
  /\ UNCHANGED <<ringVars, holding, pending, handler, status>>

\* SccBconout disables interrupts and reads the status register ...
ReadStatus ==
  /\ WriterRuns /\ writer = "room"
  /\ writer' = "locked" /\ status' = (holding = <<>>)
  /\ UNCHANGED <<ringVars, holding, pending, handler>>

\* Mutant of SendImmediately: queued bytes are not looked for.
SendAhead(b) ==
  /\ writer = "locked" /\ status
  /\ holding' = <<b>> /\ pending' = FALSE
  /\ writer' = "idle"
  /\ UNCHANGED <<ringVars, handler, status>>

\* ... and sends at once when nothing is queued and the chip was free then,
SendImmediately(b) ==
  /\ writer = "locked" /\ sccOutputCount = 0 /\ status
  /\ holding' = <<b>> /\ pending' = FALSE
  /\ writer' = "idle"
  /\ UNCHANGED <<ringVars, handler, status>>

\* Mutant of PutInBuffer: also while the chip is idle.
PutInBufferAlways(b) ==
  /\ writer = "locked"
  /\ sccOutputCount # SccBufferLength
  /\ sccOutputBuffer' =
       [sccOutputBuffer EXCEPT ![Masked(sccOutputPos + sccOutputCount)] = b]
  /\ sccOutputCount' = sccOutputCount + 1
  /\ writer' = "idle"
  /\ UNCHANGED <<sccOutputPos, holding, pending, handler, status>>

\* or puts the byte in the ring.
PutInBuffer(b) ==
  /\ writer = "locked" /\ ~(sccOutputCount = 0 /\ status)
  /\ sccOutputCount # SccBufferLength   \* otherwise "return with failure code"
  /\ sccOutputBuffer' =
       [sccOutputBuffer EXCEPT ![Masked(sccOutputPos + sccOutputCount)] = b]
  /\ sccOutputCount' = sccOutputCount + 1
  /\ writer' = "idle"
  /\ UNCHANGED <<sccOutputPos, holding, pending, handler, status>>

-----------------------------------------------------------------------------
(* SccSerialTX and the chip *)

\* The interrupt is taken and reset first.
TxInterrupt ==
  /\ pending /\ handler = "idle" /\ writer # "locked"
  /\ pending' = FALSE /\ handler' = "cleared"
  /\ UNCHANGED <<ringVars, holding, writer, status>>

\* Mutant of TxNext: the last byte of the ring waits for company.
TxNextKeepsOne ==
  /\ handler = "cleared"
  /\ IF holding = <<>> /\ sccOutputCount > 1
     THEN /\ holding' = <<sccOutputBuffer[sccOutputPos]>>
          /\ pending' = FALSE
          /\ sccOutputPos' = Masked(sccOutputPos + 1)
          /\ sccOutputCount' = sccOutputCount - 1
     ELSE UNCHANGED <<holding, pending, sccOutputPos, sccOutputCount>>
  /\ handler' = "idle"
  /\ UNCHANGED <<sccOutputBuffer, writer, status>>

\* The oldest byte of the ring goes to the chip, if the chip is free.
TxNext ==
  /\ handler = "cleared"
  /\ IF holding = <<>> /\ sccOutputCount # 0
     THEN /\ holding' = <<sccOutputBuffer[sccOutputPos]>>
          /\ pending' = FALSE
          /\ sccOutputPos' = Masked(sccOutputPos + 1)
          /\ sccOutputCount' = sccOutputCount - 1
     ELSE UNCHANGED <<holding, pending, sccOutputPos, sccOutputCount>>
  /\ handler' = "idle"
  /\ UNCHANGED <<sccOutputBuffer, writer, status>>

\* The chip has moved its byte to the line.
ByteSent ==
  /\ holding # <<>>
  /\ holding' = <<>> /\ pending' = TRUE
  /\ UNCHANGED <<ringVars, handler, writer, status>>

Bconout == ReadStatus \/ \E b \in Bytes : SendImmediately(b) \/ PutInBuffer(b)

TransmitNext == SccBcostat \/ Bconout \/ TxInterrupt \/ TxNext \/ ByteSent

TransmitSpec == TransmitInit /\ [][TransmitNext]_transmitVars

\* The chip sends, interrupts are served, and SccBconout runs to its end.
TransmitFairSpec ==
  /\ TransmitSpec
  /\ WF_transmitVars(ByteSent) /\ WF_transmitVars(TxInterrupt)
  /\ WF_transmitVars(TxNext) /\ WF_transmitVars(Bconout)

-----------------------------------------------------------------------------
(* Properties *)

\* What is still to be sent: the chip's byte, then the ring.
Unsent == holding \o [i \in 1..sccOutputCount |->
                        sccOutputBuffer[Masked(sccOutputPos + i - 1)]]

\* A byte sent at once never overtakes queued ones, and none is lost or sent
\* twice, wherever the interrupt falls.
OutputQueue == INSTANCE ByteQueue
                 WITH Capacity <- SccBufferLength + 1, queue <- Unsent
ImplementsOutputQueue == OutputQueue!Spec

\* No lost wakeup: when the chip is free and bytes are queued, an interrupt is
\* pending or being handled that will send the next one.
NoLostWakeup ==
  sccOutputCount # 0 /\ holding = <<>> => pending \/ handler = "cleared"

\* Slot i of the ring has a byte that waits to be sent.
Queued(i) == \E k \in 0..sccOutputCount - 1 : i = Masked(sccOutputPos + k)

\* Everything that was accepted leaves the machine, however few bytes there are
\* and whether or not more are written: each slot of the ring gives up its byte
\* to the chip (a slot that is filled again has been free in between), and the
\* chip its byte to the line.
Drains ==
  /\ \A i \in Index : Queued(i) ~> ~Queued(i)
  /\ holding # <<>> ~> holding = <<>>
=============================================================================
