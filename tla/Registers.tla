------------------------------ MODULE Registers ------------------------------
(***************************************************************************)
(* The registers of the stopped program as gdb reads and writes them: the  *)
(* packets g, G, p and P of gdbserver/packet.c, the registers a stop reply *)
(* brings along, and the copies gdb keeps.                                 *)
(*                                                                         *)
(* ExceptionRegisters is taken as what the code makes of it, an array of   *)
(* 45 long words: 18 of the processor, three for each of the eight of the  *)
(* FPU, three that control it.  gdb numbers registers in the order of the  *)
(* target description: 18, 8 and 3.  A long word holds <<t, w>> if it was  *)
(* the w-th of what was changed at time t, which tells all values apart.   *)
(* The trace bit that 'c' and 's' change is in module Breakpoints.         *)
(***************************************************************************)
EXTENDS FpuCookie, Naturals, Sequences, FiniteSets

CONSTANTS CpuTypes,   \* values of the _CPU cookie
          MaxChanges, \* how often the registers are changed
          MaxCopies   \* how many registers gdb asks for one by one

ASSUME CpuAssumption == CpuTypes \subseteq Nat
ASSUME ChangesAssumption == MaxChanges \in Nat /\ MaxCopies \in Nat

VARIABLES
  cpu,        \* the _CPU cookie
  registers,  \* ExceptionRegisters, as long words
  copy,       \* gdb's copies, by register number; Unknown if it has none
  executing,  \* the program executes
  time        \* number of changes so far

regVars == <<fpu, cpu, registers, copy, executing, time>>

LongWords == 0..44
Unknown   == <<>>

\* gdb's registers, and how many long words each has in the description.
Described == 0..(IF fpu THEN 28 ELSE 17)
Width(n)  == IF n \in 18..25 THEN 3 ELSE 1

\* ServerMain
numOfCpuRegisters == IF fpu /\ cpu >= 20 THEN 29 ELSE 18

Value == (0..MaxChanges) \X LongWords

RegTypeOK == /\ fpu \in BOOLEAN /\ cpu \in CpuTypes
             /\ registers \in [LongWords -> Value]
             /\ DOMAIN copy = Described
             /\ \A n \in Described : copy[n] = Unknown \/ copy[n] \in [1..Width(n) -> Value]
             /\ executing \in BOOLEAN /\ time \in 0..MaxChanges

\* The FPU that is described is one the server saves and restores.
RegInit == /\ fpu \in BOOLEAN /\ cpu \in CpuTypes
           /\ fpu => cpu >= 20
           /\ registers = [w \in LongWords |-> <<0, w>>]
           /\ copy = [n \in Described |-> Unknown]
           /\ executing = TRUE /\ time = 0

-----------------------------------------------------------------------------
(* p and P *)

\* Mutant of Longs: the control registers follow the first long words of fp7.
LongsPacked(idx) ==
  IF idx < 18 THEN <<idx>>
  ELSE IF idx >= 18 + 8 THEN <<idx + 14>>
  ELSE LET first == 18 + (idx - 18) * 3 IN <<first, first + 1, first + 2>>

\* The long words of a register.
Longs(idx) ==
  IF idx < 18 THEN <<idx>>
  ELSE IF idx >= 18 + 8 THEN <<idx + 16>>
  ELSE LET first == 18 + (idx - 18) * 3 IN <<first, first + 1, first + 2>>

Contents(n) == [k \in DOMAIN Longs(n) |-> registers[Longs(n)[k]]]

\* Those a stop reply brings along are not counted.
Copies == {n \in Described \ (14..17) : copy[n] # Unknown}

\* gdb asks for a register it has no copy of.  One the server does not have is
\* answered by an empty packet.
ReadRegister(n) ==
  /\ ~executing
  /\ copy[n] = Unknown /\ Cardinality(Copies) < MaxCopies
  /\ copy' = [copy EXCEPT ![n] = IF n < numOfCpuRegisters THEN Contents(n) ELSE Unknown]
  /\ UNCHANGED <<fpu, cpu, registers, executing, time>>

\* Where gdb finds a register in what 'g' returns, from the widths alone.
PackedAt(n) == n + (IF n <= 18 THEN 0 ELSE IF n <= 26 THEN 2 * (n - 18) ELSE 2 * 8)

\* What gdb writes to register n.
Written(n, t) == [k \in 1..Width(n) |-> <<t, PackedAt(n) + k - 1>>]

\* P is answered OK, also if it is ignored.
WriteRegister(n) ==
  /\ ~executing /\ time < MaxChanges
  /\ time' = time + 1
  /\ registers' = [w \in LongWords |->
                    IF n < numOfCpuRegisters /\ \E k \in DOMAIN Longs(n) : w = Longs(n)[k]
                    THEN Written(n, time')[CHOOSE k \in DOMAIN Longs(n) : w = Longs(n)[k]]
                    ELSE registers[w]]
  /\ copy' = [copy EXCEPT ![n] = Written(n, time')]
  /\ UNCHANGED <<fpu, cpu, executing>>

-----------------------------------------------------------------------------
(* g and G *)

\* How many long words both transfer.
Transferred == IF fpu THEN 18 + (8 * 3) + 3 ELSE 18

ReadRegisters ==
  /\ ~executing
  /\ copy' = [n \in Described |-> [k \in 1..Width(n) |-> registers[PackedAt(n) + k - 1]]]
  /\ UNCHANGED <<fpu, cpu, registers, executing, time>>

\* A packet that is not as long as ExceptionRegisters is refused, and nothing
\* is written: so is every G on a machine without FPU.
WriteRegisters ==
  /\ ~executing /\ time < MaxChanges
  /\ Transferred = 45
  /\ time' = time + 1
  /\ registers' = [w \in LongWords |-> <<time', w>>]
  /\ copy' = [n \in Described |-> Written(n, time')]
  /\ UNCHANGED <<fpu, cpu, executing>>

-----------------------------------------------------------------------------
(* Running and stopping *)

Continue ==
  /\ ~executing /\ executing' = TRUE
  /\ copy' = [n \in Described |-> Unknown]
  /\ UNCHANGED <<fpu, cpu, registers, time>>

\* Mutant of Reported: the stop reply begins one register early.
ReportedEarly(regs) == [i \in 14..17 |-> <<regs[i - 1]>>]

\* WriteStop: frame and stack pointer, sr and pc.
Reported(regs) == [i \in 14..17 |-> <<regs[i]>>]

\* The program has changed its registers and stops.  Those of the FPU are saved
\* if the processor can have one; a breakpoint's stop reply brings registers.
Stop(brkpt) ==
  /\ executing /\ time < MaxChanges
  /\ executing' = FALSE /\ time' = time + 1
  /\ registers' = [w \in LongWords |-> IF w < 18 \/ (fpu /\ cpu >= 20) THEN <<time', w>>
                                       ELSE registers[w]]
  /\ copy' = [n \in Described |-> IF brkpt /\ n \in 14..17 THEN Reported(registers')[n]
                                  ELSE Unknown]
  /\ UNCHANGED <<fpu, cpu>>

RegNext == \/ \E n \in Described : ReadRegister(n) \/ WriteRegister(n)
           \/ ReadRegisters \/ WriteRegisters \/ Continue
           \/ \E brkpt \in BOOLEAN : Stop(brkpt)

RegSpec == RegInit /\ [][RegNext]_regVars

-----------------------------------------------------------------------------
(* Properties *)

\* gdb's number n is the register that the description lists as its n-th, in
\* every packet: what gdb writes by one packet is what it reads by another and
\* what the program goes on with, no other register changes, and a stop reply
\* reports what the program stopped with (packet.c:447-586).
File == INSTANCE RegisterFile WITH
          value <- [n \in Described |-> [k \in 1..Width(n) |-> registers[PackedAt(n) + k - 1]]],
          copy <- copy
ImplementsRegisterFile == File!Spec
=============================================================================
