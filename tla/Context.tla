------------------------------ MODULE Context ------------------------------
(***************************************************************************)
(* The two contexts of gdbserver/context.c and gdbserver/critical.s: the   *)
(* vectors, MFP registers and video registers that the server and the      *)
(* inferior each believe to have for themselves.  They are exchanged when  *)
(* the inferior stops and when it continues, and put back when it has      *)
(* ended by itself; the exceptions and the vectors of the serial driver    *)
(* are taken when the server starts and given back when it ends.           *)
(*                                                                         *)
(* The machine is a function from cells (addresses) to what they hold.  A  *)
(* vector holds whose handler it is, an MFP register the set of its bits.  *)
(***************************************************************************)
EXTENDS Naturals

CONSTANTS Bits,          \* the bits of an MFP register that are looked at
          Shifters,      \* possible answers to "Cookie_MCH >> 16 is at most 1"
          Drivers,       \* possible answers to "the driver is the MFP's"
          RegisterValues,\* what the inferior and gdb write to an MFP register
          EnabledLines,  \* the lines that are enabled when the server is started
          Careful,       \* gdb keeps to addresses that are mapped correctly
          MaxChanges,    \* how much the programs and gdb change
          MaxLoads       \* how many programs are loaded

ASSUME BitsAssumption == Bits \subseteq 0..7 /\ {1, 4} \subseteq Bits
ASSUME LinesAssumption == /\ EnabledLines \subseteq {"A", "B"} \X Bits
                          /\ {<<"B", 1>>, <<"A", 4>>} \subseteq EnabledLines
                          /\ RegisterValues \subseteq SUBSET Bits
ASSUME ChoicesAssumption == Shifters \subseteq BOOLEAN /\ Drivers \subseteq BOOLEAN
                            /\ Careful \in BOOLEAN
ASSUME BoundsAssumption == MaxChanges \in Nat /\ MaxLoads \in Nat

Banks == {"A", "B"}

(* Cells.  0x100..0x13c has a vector for each bit of the two banks.        *)
Lines     == Banks \X Bits
Vectors   == Lines \cup {<<"irq">>}            \* and 0x60..0x7c
Enable    == {"ier"} \X Banks                  \* fffffa07, fffffa09
Mask      == {"imr"} \X Banks                  \* fffffa13, fffffa15
Registers == Enable \cup Mask
Video     == <<"video">>
Logbase   == {"logbase"} \X {1, 2}             \* the two words of 0x44e
Exception == <<"exception">>                   \* the hooked vectors, bus error first
SccVector == <<"scc">>                         \* 0x180..0x198

Shared == Vectors \cup Registers \cup Logbase \cup {Video}
Cells  == Shared \cup {Exception, SccVector}

Owners == {"tos", "server", "inferior"}
Values(c) == IF c \in Registers THEN SUBSET Bits ELSE Owners

\* The cell c can hold it, for every cell of a context.
Fits(context, cells) == /\ DOMAIN context = cells
                        /\ \A c \in cells : context[c] \in Values(c)

VARIABLES
  stShifter,    \* an ST or STE: the video registers are saved
  mfpDriver,    \* the serial line is the MFP's, otherwise the SCC's
  phase,        \* what executes
  below,        \* what a command loop called from an exception interrupted
  machine,      \* what the cells hold
  serverCtx,    \* serverVectors, serverLongs, serverBytes
  inferiorCtx,  \* inferiorVectors, inferiorLongs, inferiorBytes
  oVectors,     \* the vectors found by InitExceptions and the driver
  mfpMask,      \* the result of GetMfpChangedMask, as a set of lines
  loads, changes,
  \* history, only read by properties
  expected,     \* what the inferior left in the cells, or gdb wrote for it
  taken,        \* the lines whose vectors it had changed when it left them
  initFailed    \* the driver could not be initialised

modeVars    == <<stShifter, mfpDriver>>
bootVars    == <<serverCtx, oVectors, initFailed>>      \* set once
countVars   == <<loads, changes>>
historyVars == <<expected, taken>>
vars == <<modeVars, phase, below, machine, inferiorCtx, mfpMask, bootVars, countVars,
          historyVars>>

\* SetServerContext is executed with interrupts on, and Ctrl-C still enabled.
Interruptible == {"running", "ended", "stored", "masked", "restored"}

\* StoreMemoryRegisters: the video registers are those of an ST only.
Saved == IF stShifter THEN Shared ELSE Shared \ {Video}

\* The MFP vectors taken by InitMfpAux: DCD 0x104 and serial input 0x130.
DriverLines == IF mfpDriver THEN {<<"B", 1>>, <<"A", 4>>} ELSE {}
DriverVectors == IF mfpDriver THEN DriverLines ELSE {SccVector}
Hooked == DriverVectors \cup {Exception}

TypeOK == /\ stShifter \in Shifters /\ mfpDriver \in Drivers
          /\ phase \in {"off", "idle", "loaded", "stopped", "down"} \cup Interruptible
          /\ below \in Interruptible
          /\ Fits(machine, Cells) /\ Fits(serverCtx, Shared) /\ Fits(inferiorCtx, Shared)
          /\ Fits(oVectors, Hooked) /\ Fits(expected, Shared)
          /\ mfpMask \subseteq Lines /\ taken \subseteq Lines
          /\ loads \in 0..MaxLoads /\ changes \in 0..MaxChanges
          /\ initFailed \in BOOLEAN

-----------------------------------------------------------------------------
(* Helpers *)

\* Those cells of the machine hold what the context says.
Restore(cells, context) ==
  [c \in Cells |-> IF c \in cells THEN context[c] ELSE machine[c]]

\* The context with what the saved cells of the machine hold.
Store(context) == [c \in Shared |-> IF c \in Saved THEN machine[c] ELSE context[c]]

\* Mutant of GetMfpChangedMask: no interrupt is switched off.
GetMfpChangedMaskFull(server, inferior) == Lines

\* The lines whose vectors the inferior did not change.
GetMfpChangedMask(server, inferior) == {l \in Lines : server[l] = inferior[l]}

\* RestoreMemoryRegisters switches the lines off that are not in the mask.
Masked(context, mask) ==
  [c \in Shared |-> IF c \in Registers THEN {b \in context[c] : <<c[2], b>> \in mask}
                    ELSE context[c]]

\* Mutant of ServerContext: the vectors are not put back.
ServerContextKeepsVectors(mask) == Restore(Saved \ Vectors, Masked(serverCtx, mask))

\* The machine after RestoreVectors and RestoreMemoryRegisters for the server.
ServerContext(mask) == Restore(Saved, Masked(serverCtx, mask))

\* Mutant of Shadow: fffffa09 is taken for fffffa07.
ShadowSwapped(a) == IF a \in Enable THEN <<"ier", "A">> ELSE a

\* InferiorContextMemoryAddress: the saved cell that stands for an address, or
\* the address itself.  The cases for the mask registers are fffffa11 and
\* fffffa13, and 0x44e ends before 0x450.
Shadow(a) == CASE a \in Vectors                          -> a
               [] a = <<"logbase", 1>>                   -> a
               [] stShifter /\ a \in {Video} \cup Enable -> a
               [] stShifter /\ a = <<"imr", "A">>        -> <<"imr", "B">>
               [] OTHER                                  -> <<"live", a>>

IsLive(a) == Shadow(a) = <<"live", a>>

\* Where gdb looks: everywhere, or where that mapping is right.
GdbAddresses ==
  IF ~Careful THEN Shared
  ELSE Vectors \cup {<<"logbase", 1>>, Video} \cup IF stShifter THEN Enable ELSE {}

-----------------------------------------------------------------------------
\* Before the server: TOS has its vectors everywhere, and some interrupts on.
Original == [c \in Cells |-> IF c \in Registers THEN {b \in Bits : <<c[2], b>> \in EnabledLines}
                             ELSE "tos"]

Init == /\ stShifter \in Shifters /\ mfpDriver \in Drivers
        /\ phase = "off" /\ below = "running"
        /\ machine = Original
        /\ serverCtx = [c \in Shared |-> IF c \in Registers THEN {} ELSE "tos"]
        /\ inferiorCtx = serverCtx
        /\ oVectors = [c \in Hooked |-> "tos"]
        /\ mfpMask = {}
        /\ loads = 0 /\ changes = 0
        /\ expected = serverCtx /\ taken = {} /\ initFailed = FALSE

\* InitExceptions and comDev->Init hook their vectors; then the context of the
\* server is stored, with the driver's vectors in it.
CreateServerContext ==
  /\ phase = "off"
  /\ oVectors' = [c \in Hooked |-> machine[c]]
  /\ machine' = [c \in Cells |-> IF c \in Hooked THEN "server" ELSE machine[c]]
  /\ serverCtx' = [c \in Shared |-> IF c \in Saved THEN machine'[c] ELSE serverCtx[c]]
  /\ phase' = "idle"
  /\ UNCHANGED <<modeVars, below, inferiorCtx, mfpMask, initFailed, countVars, historyVars>>

\* The driver fails to initialise; the exceptions stay hooked.
CreateServerContextFails ==
  /\ phase = "off"
  /\ oVectors' = [c \in Hooked |-> machine[c]]
  /\ machine' = [machine EXCEPT ![Exception] = "server"]
  /\ phase' = "down" /\ initFailed' = TRUE
  /\ UNCHANGED <<modeVars, below, inferiorCtx, mfpMask, serverCtx, countVars, historyVars>>

\* Mutant of DestroyServerContext: the registers stay as they are.
DestroyServerContextMasked ==
  /\ phase = "idle"
  /\ machine' = [c \in Cells |-> IF c \in Hooked THEN oVectors[c] ELSE machine[c]]
  /\ phase' = "down"
  /\ UNCHANGED <<modeVars, below, inferiorCtx, mfpMask, bootVars, countVars, historyVars>>

\* comDev->Exit and RestoreExceptions give the hooked vectors back, and all of
\* the server's registers are restored.  The other vectors are left alone.
DestroyServerContext ==
  /\ phase = "idle"
  /\ machine' = [c \in Cells |-> CASE c \in Hooked          -> oVectors[c]
                                   [] c \in Saved \ Vectors -> serverCtx[c]
                                   [] OTHER                 -> machine[c]]
  /\ phase' = "down"
  /\ UNCHANGED <<modeVars, below, inferiorCtx, mfpMask, bootVars, countVars, historyVars>>

-----------------------------------------------------------------------------
(* Exceptions and Ctrl-C *)

Changed == {l \in Lines : machine[l] # serverCtx[l]}

\* SaveStateAndSwitchContext, with all interrupts off.
SwitchToServerContext ==
  /\ phase \in Interruptible
  /\ inferiorCtx' = Store(inferiorCtx)
  /\ machine' = ServerContext(GetMfpChangedMask(serverCtx, inferiorCtx'))
  /\ phase' = "stopped" /\ below' = phase
  /\ expected' = [c \in Shared |-> machine[c]]
  /\ taken' = IF phase = "running" THEN Changed ELSE taken
  /\ UNCHANGED <<modeVars, mfpMask, bootVars, countVars>>

\* Mutant of SwitchToInferiorContext: the mask of the server is kept.
SwitchToInferiorContextMasked ==
  /\ phase = "stopped"
  /\ machine' = Restore(Saved, Masked(inferiorCtx, GetMfpChangedMask(serverCtx, inferiorCtx)))
  /\ phase' = below
  /\ UNCHANGED <<modeVars, below, inferiorCtx, mfpMask, bootVars, countVars, historyVars>>

\* RestoreStateAndSwitchContext.
SwitchToInferiorContext ==
  /\ phase = "stopped"
  /\ machine' = Restore(Saved, inferiorCtx)
  /\ phase' = below
  /\ UNCHANGED <<modeVars, below, inferiorCtx, mfpMask, bootVars, countVars, historyVars>>

\* An exception in the server's own code overwrites the context of the
\* inferior, which is then terminated.  What it had set up is known no longer:
\* its interrupts that were switched off are on again.
ServerException ==
  /\ phase = "stopped" /\ below = "running"
  /\ inferiorCtx' = Store(inferiorCtx)
  /\ machine' = ServerContext(GetMfpChangedMask(serverCtx, inferiorCtx'))
  /\ phase' = "idle" /\ taken' = {}
  /\ UNCHANGED <<modeVars, below, mfpMask, bootVars, countVars, expected>>

\* An m or M packet.  ExceptionSafeMemoryRead and -Write leave the server's
\* handler in the vector of the bus error, whatever was there.
ReadMemory ==
  /\ phase = "stopped"
  /\ machine' = [machine EXCEPT ![Exception] = "server"]
  /\ UNCHANGED <<modeVars, phase, below, inferiorCtx, mfpMask, bootVars, countVars, historyVars>>

\* gdb's user changes vectors and registers of a program, not of its remains.
WriteMemory(a, v) ==
  /\ phase = "stopped" /\ below = "running" /\ changes < MaxChanges
  /\ changes' = changes + 1
  /\ IF IsLive(a)
       THEN /\ machine' = [machine EXCEPT ![Exception] = "server", ![a] = v]
            /\ UNCHANGED inferiorCtx
       ELSE /\ machine' = [machine EXCEPT ![Exception] = "server"]
            /\ inferiorCtx' = [inferiorCtx EXCEPT ![Shadow(a)] = v]
  /\ expected' = [expected EXCEPT ![a] = v]
  /\ UNCHANGED <<modeVars, phase, below, mfpMask, bootVars, loads, taken>>

-----------------------------------------------------------------------------
(* The life of the inferior *)

LoadInferior ==
  /\ phase = "idle" /\ loads < MaxLoads
  /\ loads' = loads + 1
  /\ phase' = "loaded"
  /\ UNCHANGED <<modeVars, below, machine, inferiorCtx, mfpMask, bootVars, changes, historyVars>>

RunInferior ==
  /\ phase = "loaded"
  /\ phase' = "running" /\ taken' = {} /\ expected' = serverCtx
  /\ UNCHANGED <<modeVars, below, machine, inferiorCtx, mfpMask, bootVars, countVars>>

\* The inferior sets up its machine, the server's serial line too.
InferiorSets(c, v) ==
  /\ phase = "running" /\ changes < MaxChanges
  /\ changes' = changes + 1
  /\ machine' = [machine EXCEPT ![c] = v]
  /\ UNCHANGED <<modeVars, phase, below, inferiorCtx, mfpMask, bootVars, loads, historyVars>>

\* Kill: of a program that was not started, or through Pterm by a command loop
\* in an exception.  The context is the server's already.
TerminateInferior ==
  /\ phase = "loaded" \/ (phase = "stopped" /\ below = "running")
  /\ phase' = "idle"
  /\ UNCHANGED <<modeVars, below, machine, inferiorCtx, mfpMask, bootVars, countVars, historyVars>>

\* The inferior ends by itself.
InferiorExits ==
  /\ phase = "running"
  /\ phase' = "ended" /\ taken' = Changed
  /\ UNCHANGED <<modeVars, below, machine, inferiorCtx, mfpMask, bootVars, countVars, expected>>

(* SetServerContext, which can be interrupted between its steps *)

StoreContext ==
  /\ phase = "ended"
  /\ inferiorCtx' = Store(inferiorCtx)
  /\ phase' = "stored"
  /\ UNCHANGED <<modeVars, below, machine, mfpMask, bootVars, countVars, historyVars>>

ComputeMask ==
  /\ phase = "stored"
  /\ mfpMask' = GetMfpChangedMask(serverCtx, inferiorCtx)
  /\ phase' = "masked"
  /\ UNCHANGED <<modeVars, below, machine, inferiorCtx, bootVars, countVars, historyVars>>

RestoreServerVectors ==
  /\ phase = "masked"
  /\ machine' = Restore(Vectors, serverCtx)
  /\ phase' = "restored"
  /\ UNCHANGED <<modeVars, below, inferiorCtx, mfpMask, bootVars, countVars, historyVars>>

RestoreServerRegisters ==
  /\ phase = "restored"
  /\ machine' = Restore(Saved \ Vectors, Masked(serverCtx, mfpMask))
  /\ phase' = "idle" /\ mfpMask' = {}
  /\ UNCHANGED <<modeVars, below, inferiorCtx, bootVars, countVars, historyVars>>

-----------------------------------------------------------------------------
\* A handler of the inferior's, or the one that was there when it started.
InferiorValues(c) == CASE c \in Registers     -> RegisterValues
                       [] c \in DriverVectors -> {"server", "inferior"}
                       [] OTHER               -> {"tos", "inferior"}

Inferior == \E c \in Cells : \E v \in InferiorValues(c) : InferiorSets(c, v)

Gdb == \/ ReadMemory
       \/ \E a \in GdbAddresses : \E v \in InferiorValues(a) : WriteMemory(a, v)

SetServerContext == StoreContext \/ ComputeMask \/ RestoreServerVectors \/ RestoreServerRegisters

\* Nothing happens any more.
Stopped == phase = "down" /\ UNCHANGED vars

Next == \/ CreateServerContext \/ CreateServerContextFails \/ DestroyServerContext
        \/ SwitchToServerContext \/ SwitchToInferiorContext \/ ServerException
        \/ LoadInferior \/ RunInferior \/ TerminateInferior \/ InferiorExits
        \/ Inferior \/ Gdb \/ SetServerContext \/ Stopped

Spec == Init /\ [][Next]_vars

-----------------------------------------------------------------------------
(* Properties *)

InServer == phase \in {"idle", "loaded", "stopped"}

On(l) == l[2] \in machine[<<"ier", l[1]>>] /\ l[2] \in machine[<<"imr", l[1]>>]

\* While the server executes, every vector is its own, no interrupt is on that
\* was off when it started, and its serial line is, whatever the inferior wrote to
\* the MFP registers: but for a line whose vector the inferior had changed.  That
\* one the mask switches off, although the server has its vector back, and with
\* it what gdb sends (context.c:83-119, 231-234).
ServerUndisturbed ==
  InServer => /\ \A v \in Vectors : machine[v] = serverCtx[v]
              /\ \A r \in Registers : machine[r] \subseteq serverCtx[r]
              /\ \A l \in DriverLines \ taken : On(l)

\* The MFP interrupts that the inferior has set up are off while the server
\* executes, also when the exit of the inferior was interrupted by a Ctrl-C
\* (context.c:226-230).
InferiorSilenced ==
  \/ phase \in {"idle", "loaded"}
  \/ phase = "stopped" /\ below = "running"
  => \A l \in taken : ~On(l)

\* While it is stopped, gdb reads what the inferior left, and what gdb itself has
\* written since then, "and not the one currently used by the server"
\* (context.c:245-312).
GdbSeesInferior ==
  phase = "stopped" =>
    \A a \in GdbAddresses :
      (IF IsLive(a) THEN machine[a] ELSE inferiorCtx[Shadow(a)]) = expected[a]

\* What was interrupted continues with the context it had, but for what gdb has
\* written to it (context.c:75-93, critical.s:226-317).
Continues == phase = "stopped" /\ phase' \in Interruptible
Transparent == [][Continues => \A c \in Shared : machine'[c] = expected[c]]_vars

\* When the server has ended, the machine is what it was before: programs that
\* were killed or ended by themselves have left nothing behind in what is saved
\* (context.c:60-73, server.c:755-757).  A driver that fails to initialise leaves
\* the exceptions hooked (context.c:43-46).
CleanExit ==
  phase = "down" /\ ~initFailed => \A c \in Saved \cup Hooked : machine[c] = Original[c]
=============================================================================
