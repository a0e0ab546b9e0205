--------------------------- MODULE Context_proofs ---------------------------
(***************************************************************************)
(* The two contexts, for any bits of the MFP registers, any lines enabled  *)
(* at the start and any number of programs and changes: at whichever step  *)
(* of SetServerContext an exception or Ctrl-C comes.                       *)
(***************************************************************************)
EXTENDS Context, TLAPS

\* Which cells are which: the server's hooks are vectors, or not in a context.
LEMMA CellKinds ==
  /\ DriverLines \subseteq Lines /\ Lines \subseteq Vectors
  /\ Vectors \subseteq Saved /\ Registers \subseteq Saved /\ Saved \subseteq Shared
  /\ Vectors \cap Registers = {} /\ Registers \cap Hooked = {}
  /\ Shared \subseteq Cells /\ Hooked \subseteq Cells
  /\ Exception \in Hooked /\ Exception \notin Shared /\ SccVector \notin Shared
  /\ DriverLines \subseteq Hooked
  /\ Hooked \subseteq DriverLines \cup {Exception, SccVector}
<1>1. Video \notin Vectors /\ Video \notin Registers
  BY DEF Video, Vectors, Registers, Lines, Enable, Mask
<1>2. Exception \notin Shared /\ SccVector \notin Shared
  BY DEF Video, Vectors, Registers, Lines, Enable, Mask, Shared, Logbase, Exception, SccVector
<1>3. Vectors \cap Registers = {}
  BY DEF Vectors, Registers, Lines, Enable, Mask, Banks
<1>4. DriverLines \subseteq Lines
  BY BitsAssumption DEF DriverLines, Lines, Banks
<1>5. Lines \subseteq Vectors /\ Vectors \subseteq Shared /\ Registers \subseteq Shared
  BY DEF Vectors, Shared
<1>6. Vectors \subseteq Saved /\ Registers \subseteq Saved /\ Saved \subseteq Shared
  BY <1>1, <1>5 DEF Saved
<1>7. Hooked \subseteq DriverLines \cup {Exception, SccVector} /\ DriverLines \subseteq Hooked
      /\ Exception \in Hooked
  BY DEF Hooked, DriverVectors, DriverLines
<1>8. Shared \subseteq Cells /\ Hooked \subseteq Cells
  BY <1>4, <1>5, <1>7 DEF Cells
<1>9. Registers \cap Hooked = {}
  BY <1>2, <1>3, <1>4, <1>5, <1>7
<1> QED
  BY <1>2, <1>3, <1>4, <1>5, <1>6, <1>7, <1>8, <1>9

USE DEF modeVars, bootVars, countVars, historyVars

\* What the helpers make fits the cells again.
LEMMA FitsOperators ==
  ASSUME TypeOK, NEW context, Fits(context, Shared), NEW mask
  PROVE  /\ Fits(Store(context), Shared)
         /\ Fits(Masked(context, mask), Shared)
         /\ \A cells \in SUBSET Shared : Fits(Restore(cells, context), Cells)
<1> USE DEF Fits
<1>1. Fits(Store(context), Shared)
  BY CellKinds DEF Store, TypeOK
<1>2. Fits(Masked(context, mask), Shared)
  <2> SUFFICES ASSUME NEW c \in Shared PROVE Masked(context, mask)[c] \in Values(c)
    BY DEF Masked
  <2>1. CASE c \in Registers
    <3>1. context[c] \in SUBSET Bits
      BY <2>1 DEF Values
    <3>2. Masked(context, mask)[c] = {b \in context[c] : <<c[2], b>> \in mask}
      BY <2>1 DEF Masked
    <3> QED
      BY <2>1, <3>1, <3>2 DEF Values
  <2>2. CASE c \notin Registers
    BY <2>2 DEF Masked
  <2> QED
    BY <2>1, <2>2
<1>3. \A cells \in SUBSET Shared : Fits(Restore(cells, context), Cells)
  BY CellKinds DEF Restore, TypeOK
<1> QED
  BY <1>1, <1>2, <1>3

\* What the inferior and gdb write fits the cell they write to.
LEMMA WrittenValueFits ==
  ASSUME NEW c, NEW v \in InferiorValues(c)
  PROVE  /\ c \in Registers => v \in SUBSET Bits
         /\ c \notin Registers => v \in Owners
<1>0. c \in Registers => c \notin DriverVectors
  BY CellKinds DEF Hooked
<1>1. c \in Registers => v \in RegisterValues
  BY <1>0 DEF InferiorValues
<1>2. c \notin Registers => v \in {"server", "inferior"} \/ v \in {"tos", "inferior"}
  BY DEF InferiorValues
<1> QED
  BY <1>1, <1>2, LinesAssumption DEF Owners

\* The cell of the context that stands for an address has its type.
LEMMA ShadowKinds ==
  ASSUME NEW a \in Shared, ~IsLive(a)
  PROVE  /\ Shadow(a) \in Saved
         /\ Shadow(a) \in Registers <=> a \in Registers
         /\ a \in Vectors => Shadow(a) = a
         /\ a \notin Vectors => Shadow(a) \notin Vectors
<1>1. CASE a \in Vectors
  <2>0. a # <<"imr", "A">>
    BY <1>1, CellKinds DEF Registers, Mask, Banks
  <2>1. Shadow(a) = a
    BY <1>1, <2>0, Zenon DEF Shadow
  <2> QED
    BY <1>1, <2>1, CellKinds
<1>2. CASE a \notin Vectors /\ a = <<"logbase", 1>>
  <2>1. a \in Shared /\ a # Video /\ a \notin Registers
    BY <1>2 DEF Shared, Logbase, Video, Registers, Enable, Mask
  <2>2. Shadow(a) = a
    BY <1>2, Zenon DEF Shadow
  <2> QED
    BY <1>2, <2>1, <2>2 DEF Saved
<1>3. CASE a \notin Vectors /\ a # <<"logbase", 1>>
  <2>1. CASE stShifter /\ a \in {Video} \cup Enable
    <3>0. a # <<"imr", "A">>
      BY <2>1 DEF Video, Enable
    <3>1. Shadow(a) = a
      BY <1>3, <2>1, <3>0, Zenon DEF Shadow
    <3> QED
      BY <1>3, <2>1, <3>1 DEF Saved
  <2>2. CASE ~(stShifter /\ a \in {Video} \cup Enable) /\ stShifter /\ a = <<"imr", "A">>
    <3>1. Shadow(a) = <<"imr", "B">>
      BY <1>3, <2>2, Zenon DEF Shadow
    <3>2. a \in Registers /\ Shadow(a) \in Registers
      BY <2>2, <3>1 DEF Registers, Mask, Banks
    <3> QED
      BY <1>3, <3>2, CellKinds
  <2>3. CASE ~(stShifter /\ a \in {Video} \cup Enable) /\ ~(stShifter /\ a = <<"imr", "A">>)
    <3>1. Shadow(a) = <<"live", a>>
      BY <1>3, <2>3, Zenon DEF Shadow
    <3> QED
      BY <3>1 DEF IsLive
  <2> QED
    BY <2>1, <2>2, <2>3
<1> QED
  BY <1>1, <1>2, <1>3

\* gdb reads and writes a vector in the context of the inferior.
LEMMA VectorsAreShadowed ==
  ASSUME NEW a \in Vectors
  PROVE  Shadow(a) = a /\ ~IsLive(a)
<1>1. a # <<"imr", "A">>
  BY CellKinds DEF Registers, Mask, Banks
<1>2. Shadow(a) = a
  BY <1>1, Zenon DEF Shadow
<1>3. a # <<"live", a>>
  BY DEF Vectors, Lines, Banks
<1> QED
  BY <1>2, <1>3 DEF IsLive

\* The machine that TOS hands over is of the right type, and stays so.
LEMMA InitTypeOK == Init => TypeOK
<1> SUFFICES ASSUME Init PROVE TypeOK
  OBVIOUS
<1> USE DEF Fits, Values, Owners
<1>1. Fits(machine, Cells)
  BY DEF Init, Original
<1>2. Fits(serverCtx, Shared) /\ Fits(inferiorCtx, Shared) /\ Fits(expected, Shared)
  BY DEF Init
<1>3. Fits(oVectors, Hooked)
  BY CellKinds DEF Init
<1>4. initFailed \in BOOLEAN
  BY Zenon DEF Init
<1>5. loads \in 0..MaxLoads /\ changes \in 0..MaxChanges
  BY BoundsAssumption DEF Init
<1>6. phase \in {"off"} /\ below \in Interruptible
  BY DEF Init, Interruptible
<1>7. mfpMask \subseteq Lines /\ taken \subseteq Lines /\ stShifter \in Shifters /\ mfpDriver \in Drivers
  BY DEF Init
<1> QED
  BY <1>1, <1>2, <1>3, <1>4, <1>5, <1>6, <1>7 DEF TypeOK

\* Each step preserves the types.
LEMMA StepTypeOK == TypeOK /\ [Next]_vars => TypeOK'
<1> SUFFICES ASSUME TypeOK, [Next]_vars PROVE TypeOK'
  OBVIOUS
<1> USE BoundsAssumption DEF TypeOK, Interruptible
<1>a. /\ Saved \in SUBSET Shared /\ Vectors \in SUBSET Shared
      /\ Saved \ Vectors \in SUBSET Shared /\ Shared \subseteq Cells
      /\ Exception \in Cells \ Registers
  BY CellKinds
<1>b. \A a \in Cells : Exception # a => Values(Exception) = Owners
  BY <1>a DEF Values
<1>1. CASE CreateServerContext
  <2>1. Fits(machine', Cells)
    BY <1>1, CellKinds DEF CreateServerContext, Fits, Values, Owners
  <2>2. Fits(serverCtx', Shared)
    BY <1>1, <2>1, CellKinds DEF CreateServerContext, Fits
  <2>3. Fits(oVectors', Hooked')
    BY <1>1, CellKinds DEF CreateServerContext, Fits, Hooked, DriverVectors, DriverLines
  <2> QED
    BY <1>1, <2>1, <2>2, <2>3 DEF CreateServerContext
<1>2. CASE CreateServerContextFails
  <2>1. Fits(machine', Cells)
    BY <1>2, <1>a DEF CreateServerContextFails, Fits, Values, Owners
  <2>2. Fits(oVectors', Hooked')
    BY <1>2, CellKinds DEF CreateServerContextFails, Fits, Hooked, DriverVectors, DriverLines
  <2>3. initFailed' \in BOOLEAN
    BY <1>2, Zenon DEF CreateServerContextFails
  <2> QED
    BY <1>2, <2>1, <2>2, <2>3 DEF CreateServerContextFails
<1>c. UNCHANGED <<modeVars, oVectors>> => (Fits(oVectors', Hooked') <=> Fits(oVectors, Hooked))
  BY DEF Fits, Hooked, DriverVectors, DriverLines
<1>3. CASE DestroyServerContext
  <2>1. Fits(machine', Cells)
    BY <1>3, CellKinds DEF DestroyServerContext, Fits
  <2> QED
    BY <1>3, <1>c, <2>1 DEF DestroyServerContext
<1>4. CASE SwitchToServerContext
  <2>1. Fits(inferiorCtx', Shared) /\ Fits(expected', Shared)
    <3>1. Fits(Store(inferiorCtx), Shared)
      BY FitsOperators
    <3> QED
      BY <1>4, <1>a, <3>1 DEF SwitchToServerContext, Fits
  <2>2. Fits(machine', Cells)
    <3>1. PICK mask : machine' = Restore(Saved, Masked(serverCtx, mask))
      BY <1>4 DEF SwitchToServerContext, ServerContext
    <3>2. Fits(Masked(serverCtx, mask), Shared)
      BY FitsOperators
    <3> QED
      BY <1>a, <3>1, <3>2, FitsOperators
  <2>3. taken' \subseteq Lines
    BY <1>4 DEF SwitchToServerContext, Changed
  <2> QED
    BY <1>4, <1>c, <2>1, <2>2, <2>3 DEF SwitchToServerContext
<1>5. CASE SwitchToInferiorContext
  <2>1. Fits(machine', Cells)
    BY <1>5, <1>a, FitsOperators DEF SwitchToInferiorContext
  <2> QED
    BY <1>5, <1>c, <2>1 DEF SwitchToInferiorContext
<1>6. CASE ServerException
  <2>1. Fits(inferiorCtx', Shared)
    <3>1. Fits(Store(inferiorCtx), Shared)
      BY FitsOperators
    <3> QED
      BY <1>6, <3>1 DEF ServerException
  <2>2. Fits(machine', Cells)
    <3>1. PICK mask : machine' = Restore(Saved, Masked(serverCtx, mask))
      BY <1>6 DEF ServerException, ServerContext
    <3>2. Fits(Masked(serverCtx, mask), Shared)
      BY FitsOperators
    <3> QED
      BY <1>a, <3>1, <3>2, FitsOperators
  <2> QED
    BY <1>6, <1>c, <2>1, <2>2 DEF ServerException
<1>7. CASE LoadInferior
  BY <1>7, <1>c DEF LoadInferior
<1>8. CASE RunInferior
  BY <1>8, <1>c DEF RunInferior
<1>9. CASE TerminateInferior
  BY <1>9, <1>c DEF TerminateInferior
<1>10. CASE InferiorExits
  BY <1>10, <1>c DEF InferiorExits, Changed
<1>11. ASSUME NEW c \in Cells, NEW v \in InferiorValues(c), InferiorSets(c, v)
       PROVE  TypeOK'
  <2>1. v \in Values(c)
    BY WrittenValueFits DEF Values
  <2>2. Fits(machine', Cells)
    BY <1>11, <2>1 DEF InferiorSets, Fits
  <2> QED
    BY <1>11, <1>c, <2>2 DEF InferiorSets
<1>12. CASE ReadMemory
  <2>1. Fits(machine', Cells)
    BY <1>12, <1>a DEF ReadMemory, Fits, Values, Owners
  <2> QED
    BY <1>12, <1>c, <2>1 DEF ReadMemory
<1>13. ASSUME NEW a \in GdbAddresses, NEW v \in InferiorValues(a), WriteMemory(a, v)
       PROVE  TypeOK'
  <2>1. a \in Shared
    BY DEF GdbAddresses, Shared, Logbase, Registers
  <2>2. v \in Values(a)
    BY WrittenValueFits DEF Values
  <2>3. Fits(machine', Cells)
    BY <1>13, <1>a, <2>2 DEF WriteMemory, Fits, Values, Owners
  <2>4. Fits(inferiorCtx', Shared)
    <3>1. CASE IsLive(a)
      BY <1>13, <3>1 DEF WriteMemory
    <3>2. CASE ~IsLive(a)
      <4>1. v \in Values(Shadow(a))
        BY <2>1, <2>2, <3>2, ShadowKinds DEF Values
      <4> QED
        BY <1>13, <3>2, <4>1 DEF WriteMemory, Fits
    <3> QED
      BY <3>1, <3>2
  <2>5. Fits(expected', Shared)
    BY <1>13, <2>2 DEF WriteMemory, Fits
  <2> QED
    BY <1>13, <1>c, <2>3, <2>4, <2>5 DEF WriteMemory
<1>14. CASE StoreContext
  <2>1. Fits(Store(inferiorCtx), Shared)
    BY FitsOperators
  <2> QED
    BY <1>14, <1>c, <2>1 DEF StoreContext
<1>15. CASE ComputeMask
  BY <1>15, <1>c DEF ComputeMask, GetMfpChangedMask
<1>16. CASE RestoreServerVectors
  <2>1. Fits(machine', Cells)
    BY <1>16, <1>a, FitsOperators DEF RestoreServerVectors
  <2> QED
    BY <1>16, <1>c, <2>1 DEF RestoreServerVectors
<1>17. CASE RestoreServerRegisters
  <2>1. Fits(Masked(serverCtx, mfpMask), Shared)
    BY FitsOperators
  <2>2. Fits(machine', Cells)
    BY <1>17, <1>a, <2>1, FitsOperators DEF RestoreServerRegisters
  <2> QED
    BY <1>17, <1>c, <2>2 DEF RestoreServerRegisters
<1>18. CASE UNCHANGED vars
  BY <1>18, <1>c DEF vars
<1> QED
  BY <1>1, <1>2, <1>3, <1>4, <1>5, <1>6, <1>7, <1>8, <1>9, <1>10, <1>11, <1>12, <1>13,
     <1>14, <1>15, <1>16, <1>17, <1>18
  DEF Next, Inferior, Gdb, SetServerContext, Stopped
\* The point a command loop called from an exception will come back to, or the
\* point itself.
Point == IF phase = "stopped" THEN below ELSE phase

\* What the server stored when it started is what it found then, but for the
\* vectors of its own serial line.
BootKept ==
  /\ phase = "off" => machine = Original
  /\ initFailed => phase = "down"
  /\ phase # "off" /\ ~initFailed =>
       /\ \A c \in Hooked : oVectors[c] = Original[c]
       /\ \A c \in Saved : serverCtx[c] = IF c \in DriverLines THEN "server" ELSE Original[c]

\* The server's vectors are in the machine while it executes, and from the
\* third step of SetServerContext on whatever interrupts it.
ServerVectorsKept ==
  /\ InServer \/ phase = "restored" => \A v \in Vectors : machine[v] = serverCtx[v]
  /\ phase = "stopped" /\ below = "restored" => \A v \in Vectors : inferiorCtx[v] = serverCtx[v]

\* The MFP registers while the server executes: its own without some lines, none
\* of them a line of its serial port that the inferior had left alone.
ServerRegisters ==
  InServer => /\ \A r \in Registers : machine[r] \subseteq serverCtx[r]
              /\ \A l \in DriverLines \ taken : On(l)

\* The lines that the inferior has taken are exactly those seen to be taken, from
\* its end until the mask is used.
TakenSeen ==
  /\ phase = "off" => taken = {}
  /\ phase \in {"ended", "stored", "masked"} =>
       \A l \in Lines : l \in taken <=> machine[l] # serverCtx[l]
  /\ phase = "stored" \/ (phase = "stopped" /\ below \in {"ended", "stored", "masked"}) =>
       \A l \in Lines : l \in taken <=> inferiorCtx[l] # serverCtx[l]
  /\ phase # "down" /\ Point \in {"masked", "restored"} => mfpMask = Lines \ taken

\* What a stopped program left, or gdb wrote for it since, is what goes on with
\* it, provided that gdb's writes do not go astray.
ExpectedKept ==
  phase = "stopped" =>
    /\ \A c \in Saved : inferiorCtx[c] = expected[c]
    /\ \A c \in Shared \ Saved : machine[c] = expected[c]

\* What holds whatever addresses gdb uses, and what needs it to be careful.
Core       == BootKept /\ ServerVectorsKept /\ TakenSeen
CoreInv    == TypeOK /\ Core
CarefulInv == ServerRegisters /\ InferiorSilenced /\ ExpectedKept

-----------------------------------------------------------------------------
(* The helpers, cell by cell *)

\* The machine behind a restore.
LEMMA RestoreCells ==
  ASSUME NEW cells, NEW context
  PROVE  /\ \A c \in Cells : c \in cells => Restore(cells, context)[c] = context[c]
         /\ \A c \in Cells : c \notin cells => Restore(cells, context)[c] = machine[c]
BY DEF Restore

\* A context behind a store.
LEMMA StoreCells ==
  ASSUME NEW context
  PROVE  /\ \A c \in Saved : Store(context)[c] = machine[c]
         /\ \A c \in Shared \ Saved : Store(context)[c] = context[c]
BY CellKinds DEF Store

\* Only the registers are masked.
LEMMA MaskedCells ==
  ASSUME NEW context, NEW mask
  PROVE  /\ \A c \in Shared \ Registers : Masked(context, mask)[c] = context[c]
         /\ \A c \in Registers :
              Masked(context, mask)[c] = {b \in context[c] : <<c[2], b>> \in mask}
BY CellKinds DEF Masked

LineOf(l, context) == l[2] \in context[<<"ier", l[1]>>] /\ l[2] \in context[<<"imr", l[1]>>]

\* A line is on under the server's masked registers exactly if it is in the mask
\* and on under the unmasked ones.
LEMMA MaskedLines ==
  ASSUME NEW mask, NEW cells, Registers \subseteq cells,
         machine' = Restore(cells, Masked(serverCtx, mask))
  PROVE  /\ \A r \in Registers : machine'[r] \subseteq serverCtx[r]
         /\ \A l \in Lines : On(l)' <=> l \in mask /\ LineOf(l, serverCtx)
<1>1. \A r \in Registers : machine'[r] = {b \in serverCtx[r] : <<r[2], b>> \in mask}
  BY CellKinds, RestoreCells, MaskedCells
<1>2. ASSUME NEW l \in Lines
      PROVE  On(l)' <=> l \in mask /\ LineOf(l, serverCtx)
  <2>1. l = <<l[1], l[2]>> /\ l[1] \in Banks
    BY DEF Lines
  <2>2. /\ <<"ier", l[1]>> \in Registers /\ <<"imr", l[1]>> \in Registers
        /\ <<"ier", l[1]>>[2] = l[1] /\ <<"imr", l[1]>>[2] = l[1]
    BY <2>1 DEF Registers, Enable, Mask
  <2>3. /\ machine'[<<"ier", l[1]>>] = {b \in serverCtx[<<"ier", l[1]>>] : <<l[1], b>> \in mask}
        /\ machine'[<<"imr", l[1]>>] = {b \in serverCtx[<<"imr", l[1]>>] : <<l[1], b>> \in mask}
    BY <1>1, <2>2
  <2> QED
    BY <2>1, <2>3 DEF On, LineOf
<1> QED
  BY <1>1, <1>2

\* The lines of the serial port are on in the registers that the server finds.
LEMMA SerialLinesEnabled ==
  ASSUME NEW context, \A r \in Registers : context[r] = Original[r]
  PROVE  \A l \in DriverLines : LineOf(l, context)
<1> SUFFICES ASSUME NEW l \in DriverLines PROVE LineOf(l, context)
  OBVIOUS
<1>1. l = <<l[1], l[2]>> /\ l[1] \in Banks /\ l[2] \in Bits /\ l \in EnabledLines
  BY BitsAssumption, LinesAssumption DEF DriverLines, Banks
<1>2. ASSUME NEW r \in Registers, r[2] = l[1]
      PROVE  l[2] \in context[r]
  <2>1. Original[r] = {b \in Bits : <<r[2], b>> \in EnabledLines}
    BY CellKinds DEF Original
  <2> QED
    BY <1>1, <1>2, <2>1
<1>3. /\ <<"ier", l[1]>> \in Registers /\ <<"imr", l[1]>> \in Registers
      /\ <<"ier", l[1]>>[2] = l[1] /\ <<"imr", l[1]>>[2] = l[1]
  BY <1>1 DEF Registers, Enable, Mask
<1> QED
  BY <1>2, <1>3 DEF LineOf

-----------------------------------------------------------------------------
(* The steps of the context switches, for any addresses *)

\* Before the server starts nothing has been taken, saved or hooked.
LEMMA InitCoreInv == Init => CoreInv /\ CarefulInv
<1> SUFFICES ASSUME Init PROVE CoreInv /\ CarefulInv
  OBVIOUS
<1>1. BootKept /\ ServerVectorsKept /\ TakenSeen
  BY DEF Init, BootKept, ServerVectorsKept, TakenSeen, InServer, Point
<1>2. CarefulInv
  BY DEF Init, CarefulInv, ServerRegisters, InferiorSilenced, ExpectedKept, InServer
<1> QED
  BY <1>1, <1>2, InitTypeOK DEF CoreInv, Core

\* Every step of the switches keeps the core, whatever gdb writes.
LEMMA StepCore == CoreInv /\ [Next]_vars => Core'
<1> SUFFICES ASSUME CoreInv, [Next]_vars PROVE Core'
  OBVIOUS
<1>a. Core /\ TypeOK
  BY DEF Core, CoreInv
<1>b. /\ DOMAIN machine = Cells /\ DOMAIN inferiorCtx = Shared
      /\ phase \in {"off", "idle", "loaded", "stopped", "down"} \cup Interruptible
      /\ below \in Interruptible
  BY <1>a DEF TypeOK, Fits
<1>c. /\ UNCHANGED modeVars => UNCHANGED <<Saved, DriverLines, Hooked>>
      /\ Vectors \subseteq Cells /\ Lines \subseteq Vectors /\ DriverLines \subseteq Vectors /\ DriverLines \subseteq Cells
      /\ Exception \notin Vectors /\ DriverLines \subseteq Saved
  BY CellKinds DEF Saved, DriverLines, Hooked, DriverVectors
<1> USE <1>a, <1>b DEF Core, BootKept, ServerVectorsKept, TakenSeen, InServer,
        Point, Interruptible
<1>1. CASE CreateServerContext
  <2>1. /\ UNCHANGED <<modeVars, inferiorCtx, mfpMask, initFailed, taken, below>>
        /\ phase = "off" /\ phase' = "idle"
    BY <1>1 DEF CreateServerContext
  <2>2. /\ oVectors' = [c \in Hooked |-> machine[c]]
        /\ machine' = [c \in Cells |-> IF c \in Hooked THEN "server" ELSE machine[c]]
        /\ serverCtx' = [c \in Shared |-> IF c \in Saved THEN machine'[c] ELSE serverCtx[c]]
    BY <1>1 DEF CreateServerContext
  <2>3. \A c \in Hooked : oVectors'[c] = Original[c]
    BY <2>1, <2>2
  <2>4. \A c \in Saved : serverCtx'[c] = machine'[c]
    BY <2>2, CellKinds
  <2>5. \A c \in Saved : c \in Hooked <=> c \in DriverLines
    BY CellKinds
  <2>6. \A c \in Saved : machine'[c] = IF c \in DriverLines THEN "server" ELSE Original[c]
    BY <2>1, <2>2, <2>5, CellKinds
  <2> QED
    BY <2>1, <2>3, <2>4, <2>5, <2>6, <1>c, CellKinds
<1>2. CASE CreateServerContextFails
  BY <1>2, <1>c DEF CreateServerContextFails
<1>3. CASE DestroyServerContext
  BY <1>3, <1>c DEF DestroyServerContext
<1>4. CASE SwitchToServerContext
  <2>1. /\ phase \in Interruptible /\ phase' = "stopped" /\ below' = phase
        /\ inferiorCtx' = Store(inferiorCtx)
        /\ UNCHANGED <<modeVars, mfpMask, bootVars>>
        /\ taken' = IF phase = "running" THEN Changed ELSE taken
        /\ \E mask : machine' = Restore(Saved, Masked(serverCtx, mask))
    BY <1>4 DEF SwitchToServerContext, ServerContext
  <2>2. \A v \in Vectors : inferiorCtx'[v] = machine[v] /\ machine'[v] = serverCtx[v]
    BY <2>1, CellKinds, RestoreCells, StoreCells, MaskedCells
  <2> QED
    BY <2>1, <2>2, <1>c
<1>5. CASE SwitchToInferiorContext
  <2>1. \A v \in Vectors : machine'[v] = inferiorCtx[v]
    BY <1>5, CellKinds, RestoreCells DEF SwitchToInferiorContext
  <2> QED
    BY <1>5, <1>c, <2>1 DEF SwitchToInferiorContext
<1>6. CASE ServerException
  BY <1>6, <1>c, CellKinds, RestoreCells, StoreCells, MaskedCells
  DEF ServerException, ServerContext
<1>7. CASE LoadInferior
  BY <1>7, <1>c DEF LoadInferior
<1>8. CASE RunInferior
  BY <1>8, <1>c DEF RunInferior
<1>9. CASE TerminateInferior
  BY <1>9, <1>c DEF TerminateInferior
<1>10. CASE InferiorExits
  BY <1>10, <1>c DEF InferiorExits, Changed
<1>11. ASSUME NEW c \in Cells, NEW v, InferiorSets(c, v)
       PROVE  Core'
  BY <1>11, <1>c DEF InferiorSets
<1>12. CASE ReadMemory
  BY <1>12, <1>c DEF ReadMemory
<1>13. ASSUME NEW a \in GdbAddresses, NEW v, WriteMemory(a, v)
       PROVE  Core'
  <2>1. /\ phase = "stopped" /\ below = "running" /\ phase' = phase /\ below' = below
        /\ UNCHANGED <<modeVars, mfpMask, bootVars>>
        /\ taken' = taken
    BY <1>13 DEF WriteMemory
  <2>2. a \in Shared
    BY DEF GdbAddresses, Shared, Logbase, Registers
  <2>3. \A c \in Vectors : machine'[c] = machine[c]
    <3>1. IsLive(a) => a \notin Vectors
      BY <2>2, VectorsAreShadowed
    <3> QED
      BY <1>13, <1>c, <3>1 DEF WriteMemory
  <2> QED
    BY <2>1, <2>3, <1>c
<1>14. CASE StoreContext
  <2>1. \A v \in Vectors : inferiorCtx'[v] = machine[v]
    BY <1>14, CellKinds, StoreCells DEF StoreContext
  <2> QED
    BY <1>14, <1>c, <2>1 DEF StoreContext
<1>15. CASE ComputeMask
  BY <1>15, <1>c, CellKinds DEF ComputeMask, GetMfpChangedMask
<1>16. CASE RestoreServerVectors
  BY <1>16, <1>c, CellKinds, RestoreCells DEF RestoreServerVectors
<1>17. CASE RestoreServerRegisters
  BY <1>17, <1>c, CellKinds, RestoreCells, MaskedCells DEF RestoreServerRegisters
<1>18. CASE UNCHANGED vars
  BY <1>18, <1>c DEF vars
<1> QED
  BY <1>1, <1>2, <1>3, <1>4, <1>5, <1>6, <1>7, <1>8, <1>9, <1>10, <1>11, <1>12, <1>13,
     <1>14, <1>15, <1>16, <1>17, <1>18
  DEF Next, Inferior, Gdb, SetServerContext, Stopped

-----------------------------------------------------------------------------
(* A gdb that keeps to addresses that are mapped correctly *)

\* Those addresses stand for themselves, and are looked up in the machine only
\* where the context of the inferior does not have them.
LEMMA CarefulAddresses ==
  ASSUME Careful, TypeOK, NEW a \in GdbAddresses
  PROVE  /\ a \in Shared /\ a \notin Mask
         /\ IsLive(a) <=> a \notin Saved
         /\ IsLive(a) => a = Video
         /\ ~IsLive(a) => Shadow(a) = a
<1>1. stShifter \in BOOLEAN
  BY ChoicesAssumption DEF TypeOK
<1>2. a \in Vectors \cup {<<"logbase", 1>>, Video} \cup (IF stShifter THEN Enable ELSE {})
  BY DEF GdbAddresses
<1>3. /\ a \in Shared /\ a \notin Mask
  BY <1>2 DEF Shared, Logbase, Registers, Vectors, Lines, Banks, Mask, Enable, Video
<1>4. a # <<"live", a>>
  BY <1>3 DEF Shared, Logbase, Registers, Vectors, Lines, Banks, Mask, Enable, Video
<1>5. a # <<"imr", "A">>
  BY <1>3 DEF Mask, Banks
<1>6. Shadow(a) = a \/ (a = Video /\ ~stShifter)
  <2>1. CASE a \in Vectors \cup {<<"logbase", 1>>}
    <3>1. Shadow(a) = a
      BY <2>1, <1>5, Zenon DEF Shadow
    <3> QED
      BY <3>1
  <2>2. CASE stShifter /\ a \in {Video} \cup Enable
    <3>1. Shadow(a) = a
      BY <2>2, <1>5, Zenon DEF Shadow
    <3> QED
      BY <3>1
  <2> QED
    BY <1>1, <1>2, <2>1, <2>2
<1>7. CASE a = Video /\ ~stShifter
  <2>1. a \notin Vectors /\ a # <<"logbase", 1>>
    BY <1>7 DEF Vectors, Lines, Banks, Video
  <2>2. Shadow(a) = <<"live", a>>
    BY <2>1, <1>7, Zenon DEF Shadow
  <2> QED
    BY <1>3, <1>7, <2>2 DEF IsLive, Saved
<1>8. CASE Shadow(a) = a /\ ~(a = Video /\ ~stShifter)
  BY <1>3, <1>4, <1>8 DEF IsLive, Saved
<1> QED
  BY <1>6, <1>7, <1>8

\* Every step keeps the rest, if gdb is careful.
LEMMA StepCareful == Careful /\ CoreInv /\ CarefulInv /\ [Next]_vars => CarefulInv'
<1> SUFFICES ASSUME Careful, CoreInv, CarefulInv, [Next]_vars PROVE CarefulInv'
  OBVIOUS
<1>a. Core /\ TypeOK /\ CarefulInv
  BY DEF Core, CoreInv
<1>b. /\ DOMAIN machine = Cells /\ DOMAIN inferiorCtx = Shared /\ DOMAIN expected = Shared
      /\ phase \in {"off", "idle", "loaded", "stopped", "down"} \cup Interruptible
      /\ below \in Interruptible
  BY <1>a DEF TypeOK, Fits
<1>c. UNCHANGED modeVars => UNCHANGED <<Saved, DriverLines>>
  BY DEF Saved, DriverLines
\* A step that leaves the MFP registers alone leaves the lines on or off.
<1>d. ASSUME \A r \in Registers : machine'[r] = machine[r]
      PROVE  \A l \in Lines : On(l)' <=> On(l)
  <2> SUFFICES ASSUME NEW l \in Lines PROVE On(l)' <=> On(l)
    OBVIOUS
  <2>1. <<"ier", l[1]>> \in Registers /\ <<"imr", l[1]>> \in Registers
    BY DEF Lines, Registers, Enable, Mask
  <2> QED
    BY <1>d, <2>1 DEF On
<1>e. taken \subseteq Lines /\ DriverLines \subseteq Lines
  BY CellKinds DEF CoreInv, TypeOK
\* The server's registers without the lines that are not in the mask.
<1>f. ASSUME NEW mask, NEW cells, Registers \subseteq cells, DriverLines \ taken' \subseteq mask,
             machine' = Restore(cells, Masked(serverCtx, mask)),
             UNCHANGED <<modeVars, bootVars>>, phase # "off", ~initFailed
      PROVE  /\ \A r \in Registers : machine'[r] \subseteq serverCtx'[r]
             /\ \A l \in DriverLines' \ taken' : On(l)'
             /\ \A l \in Lines : On(l)' => l \in mask
  <2>1. \A r \in Registers : serverCtx[r] = Original[r]
    BY <1>f, <1>a, CellKinds DEF Core, BootKept
  <2> QED
    BY <1>f, <1>c, <1>e, <2>1, MaskedLines, SerialLinesEnabled
<1> USE <1>b DEF CarefulInv, ServerRegisters, InferiorSilenced, ExpectedKept, InServer,
        Interruptible
<1>1. CASE CreateServerContext
  <2>1. /\ phase = "off" /\ phase' = "idle" /\ taken' = {} /\ machine = Original
        /\ UNCHANGED modeVars
    BY <1>1, <1>a DEF CreateServerContext, Core, BootKept, TakenSeen
  <2>2. \A r \in Registers : machine'[r] = serverCtx'[r] /\ machine'[r] = Original[r]
    BY <1>1, <2>1, CellKinds DEF CreateServerContext
  <2>3. \A l \in DriverLines : On(l)'
    BY <2>2, SerialLinesEnabled DEF LineOf, On
  <2> QED
    BY <1>c, <2>1, <2>2, <2>3
<1>2. CASE CreateServerContextFails
  BY <1>2 DEF CreateServerContextFails
<1>3. CASE DestroyServerContext
  BY <1>3 DEF DestroyServerContext
<1>4. CASE SwitchToServerContext
  <2>1. /\ phase \in Interruptible /\ phase' = "stopped" /\ below' = phase
        /\ inferiorCtx' = Store(inferiorCtx)
        /\ UNCHANGED <<modeVars, bootVars>>
        /\ taken' = IF phase = "running" THEN Changed ELSE taken
        /\ expected' = [c \in Shared |-> machine[c]]
        /\ machine' = Restore(Saved, Masked(serverCtx, GetMfpChangedMask(serverCtx, inferiorCtx')))
    BY <1>4 DEF SwitchToServerContext, ServerContext
  <2>2. /\ \A c \in Saved : inferiorCtx'[c] = expected'[c]
        /\ \A c \in Shared \ Saved : machine'[c] = expected'[c]
    BY <2>1, CellKinds, StoreCells, RestoreCells
  <2>3. \A l \in Lines : inferiorCtx'[l] = machine[l]
    BY <2>1, CellKinds, StoreCells
  <2>4. DriverLines \ taken' \subseteq GetMfpChangedMask(serverCtx, inferiorCtx')
    <3>1. CASE phase = "running"
      BY <2>1, <2>3, <3>1, <1>e DEF GetMfpChangedMask, Changed
    <3>2. CASE phase = "restored"
      BY <2>1, <2>3, <3>2, <1>a, <1>e, CellKinds DEF GetMfpChangedMask, Core, ServerVectorsKept
    <3>3. CASE phase \in {"ended", "stored", "masked"}
      BY <2>1, <2>3, <3>3, <1>a, <1>e DEF GetMfpChangedMask, Core, TakenSeen
    <3> QED
      BY <2>1, <3>1, <3>2, <3>3
  <2>5. phase = "running" => taken' \cap GetMfpChangedMask(serverCtx, inferiorCtx') = {}
    BY <2>1, CellKinds, StoreCells DEF GetMfpChangedMask, Changed
  <2>6. taken' \subseteq Lines
    BY <2>1, <1>e DEF Changed
  <2>7. /\ \A r \in Registers : machine'[r] \subseteq serverCtx'[r]
        /\ \A l \in DriverLines' \ taken' : On(l)'
        /\ \A l \in Lines : On(l)' => l \in GetMfpChangedMask(serverCtx, inferiorCtx')
    BY <1>f, <2>1, <2>4, <1>a, CellKinds DEF Core, BootKept
  <2> QED
    BY <1>c, <2>1, <2>2, <2>5, <2>6, <2>7
<1>5. CASE SwitchToInferiorContext
  BY <1>5 DEF SwitchToInferiorContext
<1>6. CASE ServerException
  <2>1. /\ phase = "stopped" /\ phase' = "idle"
        /\ inferiorCtx' = Store(inferiorCtx) /\ taken' = {}
        /\ UNCHANGED <<modeVars, bootVars>>
        /\ machine' = Restore(Saved, Masked(serverCtx, GetMfpChangedMask(serverCtx, inferiorCtx')))
    BY <1>6 DEF ServerException, ServerContext
  <2>3. \A l \in Lines : inferiorCtx'[l] = serverCtx[l]
    BY <2>1, <1>a, CellKinds, StoreCells DEF Core, ServerVectorsKept
  <2>4. DriverLines \ taken' \subseteq GetMfpChangedMask(serverCtx, inferiorCtx')
    BY <2>3, <1>e DEF GetMfpChangedMask
  <2>5. /\ \A r \in Registers : machine'[r] \subseteq serverCtx'[r]
        /\ \A l \in DriverLines' \ taken' : On(l)'
    BY <1>f, <2>1, <2>4, <1>a, CellKinds DEF Core, BootKept
  <2> QED
    BY <2>1, <2>5
<1>7. CASE LoadInferior
  BY <1>7, <1>c, <1>d DEF LoadInferior, On
<1>8. CASE RunInferior
  BY <1>8 DEF RunInferior
<1>9. CASE TerminateInferior
  BY <1>9, <1>c DEF TerminateInferior, On
<1>10. CASE InferiorExits
  BY <1>10 DEF InferiorExits
<1>11. ASSUME NEW c \in Cells, NEW v, InferiorSets(c, v)
       PROVE  CarefulInv'
  BY <1>11 DEF InferiorSets
<1>12. CASE ReadMemory
  <2>1. \A c \in Shared : machine'[c] = machine[c]
    BY <1>12, CellKinds DEF ReadMemory
  <2>2. UNCHANGED <<modeVars, phase, below, inferiorCtx, bootVars, historyVars>>
    BY <1>12 DEF ReadMemory
  <2> QED
    BY <1>c, <1>d, <1>e, <2>1, <2>2, CellKinds
<1>13. ASSUME NEW a \in GdbAddresses, NEW v, WriteMemory(a, v)
       PROVE  CarefulInv'
  <2>1. /\ phase = "stopped" /\ below = "running" /\ phase' = phase /\ below' = below
        /\ UNCHANGED <<modeVars, bootVars>>
        /\ taken' = taken
        /\ expected' = [expected EXCEPT ![a] = v]
    BY <1>13 DEF WriteMemory
  <2>2. /\ a \in Shared
        /\ IsLive(a) <=> a \notin Saved
        /\ IsLive(a) => a = Video
        /\ ~IsLive(a) => Shadow(a) = a
    BY <1>a, CarefulAddresses
  <2>3. CASE a \notin Saved
    <3>1. machine' = [machine EXCEPT ![Exception] = "server", ![a] = v] /\ inferiorCtx' = inferiorCtx
      BY <1>13, <2>2, <2>3 DEF WriteMemory
    <3>2. a \in Cells /\ a \notin Registers
      BY <2>2, <2>3, CellKinds
    <3>3. \A c \in Shared : machine'[c] = IF c = a THEN v ELSE machine[c]
      BY <3>1, <3>2, CellKinds
    <3> QED
      BY <1>c, <1>d, <1>e, <2>1, <2>2, <2>3, <3>1, <3>2, <3>3, CellKinds
  <2>4. CASE a \in Saved
    <3>1. machine' = [machine EXCEPT ![Exception] = "server"]
          /\ inferiorCtx' = [inferiorCtx EXCEPT ![a] = v]
      BY <1>13, <2>2, <2>4 DEF WriteMemory
    <3>2. \A c \in Shared : machine'[c] = machine[c]
      BY <3>1, CellKinds
    <3> QED
      BY <1>c, <1>d, <1>e, <2>1, <2>2, <2>4, <3>1, <3>2, CellKinds
  <2> QED
    BY <2>3, <2>4
<1>14. CASE StoreContext
  BY <1>14 DEF StoreContext
<1>15. CASE ComputeMask
  BY <1>15 DEF ComputeMask
<1>16. CASE RestoreServerVectors
  BY <1>16 DEF RestoreServerVectors
<1>17. CASE RestoreServerRegisters
  <2>1. /\ phase = "restored" /\ phase' = "idle"
        /\ UNCHANGED <<modeVars, bootVars, taken>>
        /\ machine' = Restore(Saved \ Vectors, Masked(serverCtx, mfpMask))
    BY <1>17 DEF RestoreServerRegisters
  <2>2. DriverLines \ taken' \subseteq mfpMask /\ taken \cap mfpMask = {} /\ ~initFailed
    BY <2>1, <1>a, <1>e DEF Core, TakenSeen, Point, BootKept
  <2>3. Registers \subseteq Saved \ Vectors
    BY CellKinds
  <2>4. /\ \A r \in Registers : machine'[r] \subseteq serverCtx'[r]
        /\ \A l \in DriverLines' \ taken' : On(l)'
        /\ \A l \in Lines : On(l)' => l \in mfpMask
    BY <1>f, <2>1, <2>2, <2>3
  <2> QED
    BY <1>e, <2>1, <2>2, <2>4
<1>18. CASE UNCHANGED vars
  BY <1>18, <1>c DEF vars, On
<1> QED
  BY <1>1, <1>2, <1>3, <1>4, <1>5, <1>6, <1>7, <1>8, <1>9, <1>10, <1>11, <1>12, <1>13,
     <1>14, <1>15, <1>16, <1>17, <1>18
  DEF Next, Inferior, Gdb, SetServerContext, Stopped

-----------------------------------------------------------------------------
(* The properties *)

\* Both halves of the invariant hold in every state.
LEMMA CoreInvariance == Spec => []CoreInv
<1>1. Init => CoreInv
  BY InitCoreInv
<1>2. CoreInv /\ [Next]_vars => CoreInv'
  BY StepTypeOK, StepCore DEF CoreInv, Core
<1> QED
  BY <1>1, <1>2, PTL DEF Spec

\* Every cell of the machine and of the contexts keeps a value of its kind.
THEOREM TypeCorrect == Spec => []TypeOK
<1>1. CoreInv => TypeOK
  BY DEF CoreInv
<1> QED
  BY <1>1, CoreInvariance, PTL

\* If gdb keeps to the addresses that are mapped right, both invariants hold in every state.
LEMMA CarefulInvariance ==
  ASSUME Careful
  PROVE  Spec => [](CoreInv /\ CarefulInv)
<1>1. Init => CoreInv /\ CarefulInv
  BY InitCoreInv
<1>2. CoreInv /\ CarefulInv /\ [Next]_vars => CoreInv' /\ CarefulInv'
  BY StepTypeOK, StepCore, StepCareful DEF CoreInv, Core
<1> QED
  BY <1>1, <1>2, PTL DEF Spec

\* The only step that leaves the server for good gives back what it found.
LEMMA StepDown ==
  CoreInv /\ CleanExit /\ [Next]_vars => CleanExit'
<1> SUFFICES ASSUME CoreInv, CleanExit, [Next]_vars, phase' = "down", ~initFailed',
                    NEW c \in Saved' \cup Hooked'
             PROVE  machine'[c] = Original[c]
  BY DEF CleanExit
<1>a. UNCHANGED modeVars
  BY DEF Next, Inferior, Gdb, SetServerContext, Stopped, vars, CreateServerContext,
         CreateServerContextFails, DestroyServerContext, SwitchToServerContext,
         SwitchToInferiorContext, ServerException, LoadInferior, RunInferior,
         TerminateInferior, InferiorExits, InferiorSets, ReadMemory, WriteMemory,
         StoreContext, ComputeMask, RestoreServerVectors, RestoreServerRegisters
<1>b. c \in Saved \cup Hooked /\ c \in Cells
  BY <1>a, CellKinds DEF Saved, Hooked, DriverVectors, DriverLines
<1>1. CASE DestroyServerContext
  <2>1. /\ phase = "idle" /\ ~initFailed
        /\ machine' = [d \in Cells |-> CASE d \in Hooked          -> oVectors[d]
                                         [] d \in Saved \ Vectors -> serverCtx[d]
                                         [] OTHER                 -> machine[d]]
    BY <1>1 DEF DestroyServerContext
  <2>2. /\ \A d \in Hooked : oVectors[d] = Original[d]
        /\ \A d \in Saved : serverCtx[d] = IF d \in DriverLines THEN "server" ELSE Original[d]
        /\ \A v \in Vectors : machine[v] = serverCtx[v]
    BY <2>1 DEF CoreInv, Core, BootKept, ServerVectorsKept, InServer
  <2>3. CASE c \in Hooked
    <3>1. c \notin Saved \ Vectors
      BY <2>3, CellKinds
    <3>2. machine'[c] = oVectors[c]
      BY <1>b, <2>1, <2>3, <3>1
    <3> QED
      BY <2>2, <2>3, <3>2
  <2>4. CASE c \in Saved \ Vectors
    <3>1. c \notin Hooked
      BY <2>4, CellKinds
    <3>2. machine'[c] = serverCtx[c]
      BY <1>b, <2>1, <2>4, <3>1
    <3> QED
      BY <2>2, <2>4, <3>1, <3>2, CellKinds
  <2>5. CASE c \notin Hooked /\ c \in Vectors
    <3>1. machine'[c] = machine[c]
      BY <1>b, <2>1, <2>5
    <3> QED
      BY <2>2, <2>5, <3>1, CellKinds
  <2> QED
    BY <1>b, <2>3, <2>4, <2>5
<1>2. CASE Stopped \/ UNCHANGED vars
  BY <1>2, <1>b DEF Stopped, vars, CleanExit
<1>3. CASE CreateServerContextFails
  BY <1>3 DEF CreateServerContextFails
<1>4. CASE SwitchToInferiorContext
  BY <1>4 DEF SwitchToInferiorContext, CoreInv, TypeOK, Interruptible
<1>5. CASE ReadMemory \/ (\E a, v : WriteMemory(a, v))
  BY <1>5 DEF ReadMemory, WriteMemory
<1>6. CASE CreateServerContext \/ SwitchToServerContext \/ ServerException \/ LoadInferior
  BY <1>6 DEF CreateServerContext, SwitchToServerContext, ServerException, LoadInferior
<1>7. CASE RunInferior \/ TerminateInferior \/ InferiorExits
           \/ (\E d, v : InferiorSets(d, v))
  BY <1>7 DEF RunInferior, TerminateInferior, InferiorExits, InferiorSets
<1>8. CASE SetServerContext
  BY <1>8 DEF SetServerContext, StoreContext, ComputeMask, RestoreServerVectors,
              RestoreServerRegisters
<1> QED
  BY <1>1, <1>2, <1>3, <1>4, <1>5, <1>6, <1>7, <1>8 DEF Next, Inferior, Gdb

\* However the programs ended and whatever they and gdb changed, also where gdb's
\* writes go astray: a server that ends leaves the saved cells as it found them.
THEOREM MachineIsGivenBack == Spec => []CleanExit
<1>1. Init => CleanExit
  BY DEF Init, CleanExit
<1> QED
  BY <1>1, StepDown, CoreInvariance, PTL DEF Spec

\* Whatever the inferior did to the vectors and registers, and at whichever step
\* of SetServerContext it is interrupted: the server that executes has its own
\* vectors, no interrupt it did not have, and its serial line unless the inferior
\* had changed the vector of that line.
THEOREM ServerIsUndisturbed ==
  ASSUME Careful
  PROVE  Spec => []ServerUndisturbed
<1>1. CoreInv /\ CarefulInv => ServerUndisturbed
  BY DEF CoreInv, Core, CarefulInv, ServerVectorsKept, ServerRegisters, ServerUndisturbed
<1> QED
  BY <1>1, CarefulInvariance, PTL

\* The interrupts the inferior has set up are off while the server executes.
THEOREM InferiorIsSilenced ==
  ASSUME Careful
  PROVE  Spec => []InferiorSilenced
<1>1. CoreInv /\ CarefulInv => InferiorSilenced
  BY DEF CarefulInv
<1> QED
  BY <1>1, CarefulInvariance, PTL

\* gdb sees the inferior's machine and what it wrote there itself.
THEOREM GdbSeesTheInferior ==
  ASSUME Careful
  PROVE  Spec => []GdbSeesInferior
<1>1. CoreInv /\ CarefulInv => GdbSeesInferior
  <2> SUFFICES ASSUME CoreInv, CarefulInv, phase = "stopped", NEW a \in GdbAddresses
               PROVE  (IF IsLive(a) THEN machine[a] ELSE inferiorCtx[Shadow(a)]) = expected[a]
    BY DEF GdbSeesInferior
  <2>1. /\ a \in Shared
        /\ IsLive(a) <=> a \notin Saved
        /\ ~IsLive(a) => Shadow(a) = a
    BY CarefulAddresses DEF CoreInv
  <2> QED
    BY <2>1 DEF CarefulInv, ExpectedKept
<1> QED
  BY <1>1, CarefulInvariance, PTL

\* Whatever a command loop interrupted goes on in the machine it had, but for
\* what gdb wrote.
THEOREM SwitchesAreTransparent ==
  ASSUME Careful
  PROVE  Spec => Transparent
<1>1. CoreInv /\ CarefulInv /\ [Next]_vars
        => [Continues => \A c \in Shared : machine'[c] = expected[c]]_vars
  <2> SUFFICES ASSUME CoreInv, CarefulInv, [Next]_vars, Continues, NEW c \in Shared
               PROVE  machine'[c] = expected[c]
    OBVIOUS
  <2>1. SwitchToInferiorContext
    BY DEF Next, Inferior, Gdb, SetServerContext, Stopped, vars, Continues, Interruptible,
           CreateServerContext, CreateServerContextFails, DestroyServerContext,
           SwitchToServerContext, ServerException, LoadInferior, RunInferior,
           TerminateInferior, InferiorExits, InferiorSets, ReadMemory, WriteMemory,
           StoreContext, ComputeMask, RestoreServerVectors, RestoreServerRegisters
  <2>2. machine' = Restore(Saved, inferiorCtx) /\ phase = "stopped"
    BY <2>1 DEF SwitchToInferiorContext
  <2> QED
    BY <2>2, CellKinds, RestoreCells DEF CarefulInv, ExpectedKept
<1> QED
  BY <1>1, CarefulInvariance, PTL DEF Spec, Transparent
=============================================================================
