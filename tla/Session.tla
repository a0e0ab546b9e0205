------------------------------ MODULE Session ------------------------------
(***************************************************************************)
(* The debugging session of gdbserver: ServerMain, ServerCommandLoop and   *)
(* its handlers (gdbserver/server.c), the loading, running and termination *)
(* of the inferior (gdbserver/inferior.c), the way exceptions and Ctrl-C   *)
(* start a nested command loop (gdbserver/exceptions.c, critical.s), and   *)
(* the gdb client and the keyboard as environment.                         *)
(*                                                                         *)
(* One processor executes the server and the inferior.  pc is the point it *)
(* is at; an exception or a Ctrl-C interrupt pushes the point it came from *)
(* on "stack" and starts a nested ServerCommandLoop, which either returns  *)
(* there or never does (Pterm unwinds everything above Pexec).             *)
(***************************************************************************)
EXTENDS Integers, Sequences, FiniteSets

CONSTANTS MaxLoads,     \* how many images fit into memory during a behaviour
          MaxDepth,     \* bound on the nesting of command loops
          Windows,      \* points outside the inferior where a Ctrl-C interrupt
                        \* may be taken while CtrlC_enable is set
          MultiChoices, \* values of --multi to start with, a subset of BOOLEAN
          DropChoices   \* kinds of line to start with, a subset of BOOLEAN: TRUE
                        \* if IsConnected follows the line (Mfp_IsConnected),
                        \* FALSE for the SCC and the plugins, which always say yes

(* The points the processor can be at:
   load        top of the do-loop of ServerMain
   enter       entry of ServerCommandLoop, before EnableCtrlC(false)
   wait        ReceivePacket waiting for a connection
   receive     ReceivePacket connected, waiting for a packet
   exit        HandleCommandLoopExit, loopState decided
   continuing  EnableCtrlC(true) done, before the test for LOADED
   pre_run     inside RunInferior, before inferiorState = RUNNING
   pexec       inferiorState = RUNNING, the inferior not yet entered
   inferior    the inferior executes
   unload      Pexec(PE_GO) has returned, before the Mfree calls
   report      the inferior is gone by itself, before its exit is reported
   loop_end    ServerCommandLoop returned to ServerMain
   resume      nested ServerCommandLoop returned, exception not yet left
   exited      ServerMain left its loop and restored the machine
   dead        GEMDOS terminated the server process: nothing is restored
   wild        Pexec(PE_GO) on a NULL base page, or the return from an
               exception with the registers of another one                 *)
MainPoints == {"load", "report", "loop_end"}
LoopPoints == {"enter", "wait", "receive", "exit", "continuing"}
RunPoints  == {"pre_run", "pexec", "inferior", "unload"}
EndPoints  == {"exited", "dead", "wild"}
Points == MainPoints \cup LoopPoints \cup RunPoints \cup EndPoints \cup {"resume"}

\* Where an interrupted pc may also be in TOS: these steps call GEMDOS/BIOS.
TosPoints == {"pexec", "unload", "report"}

ASSUME BoundsAssumption == /\ MaxLoads \in Nat \ {0}
                           /\ MaxDepth \in Nat \ {0}
ASSUME WindowsAssumption ==
  Windows \subseteq {"load", "report", "loop_end", "enter", "continuing",
                     "pre_run", "pexec", "unload", "resume"}
ASSUME OptionsAssumption == DropChoices \subseteq BOOLEAN /\ MultiChoices \subseteq BOOLEAN

\* si_signo and si_code together.  START is SIGTRAP/TRAP_BRKPT at
\* __start_Breakpoint, TRAP any other breakpoint, trap #0 or trace exception.
Signals == {"USR1", "START", "TRAP", "FAULT", "INT", "ABRT"}

LoopStates == {"LISTEN", "CONTINUE", "KILL", "RUN", "RESTART"}
UserCodes  == {"SILENT", "REPORT", "ERROR", "WARNING"}

\* Packets from gdb that move the session; "query" stands for every command
\* that changes none of this state and gets one reply (H T g G m M p P q Q z
\* and vFile), "Z" sets a breakpoint.
Requests == {"!", "?", "D", "R", "Z", "c", "k", "query", "vKill", "vRun"}

VARIABLES
  pc, stack, sig, savedBy, loopState,
  inferiorState, inferiorBasePage, heap, loads, startBreak,
  inferiorTerminatedByServer, returnCode,
  extendedMode, run_once, option_multi, canDrop,
  loadInferiorRequested, userCodeForCommandLoop, userCodeIfError, named,
  CtrlC_enable,
  connected, request, awaiting, breakSent,
  \* history: not state of the program, only read by properties
  surplus,     \* gdb was sent a packet it did not wait for
  replaced     \* the image gdb asked to restart while it existed, or 0

excVars   == <<stack, sig, savedBy>>
loopVars  == <<excVars, loopState>>
imageVars == <<inferiorState, inferiorBasePage, heap, loads, startBreak>>
endVars   == <<inferiorTerminatedByServer, returnCode>>
modeVars  == <<extendedMode, run_once, option_multi, canDrop>>
loadVars  == <<loadInferiorRequested, userCodeForCommandLoop, userCodeIfError, named>>
gdbVars   == <<connected, request, awaiting, breakSent>>
histVars  == <<surplus, replaced>>
vars == <<pc, loopVars, imageVars, endVars, modeVars, loadVars, CtrlC_enable,
          gdbVars, histVars>>

\* A suspended activation: where it resumes and with which signal its own
\* command loop was called, whether the vector was hooked (the original TOS
\* handler runs on return) or hijacked (rte), and whether the interrupted pc
\* lies in the server's text segment (IsServerException).
Frame == [ret : Points, sig : Signals, hook : BOOLEAN, text : BOOLEAN]

FlagTypes ==
  /\ inferiorTerminatedByServer \in BOOLEAN
  /\ extendedMode \in BOOLEAN /\ run_once \in BOOLEAN /\ option_multi \in BOOLEAN
  /\ loadInferiorRequested \in BOOLEAN /\ named \in BOOLEAN
  /\ CtrlC_enable \in BOOLEAN /\ canDrop \in BOOLEAN
  /\ connected \in BOOLEAN /\ breakSent \in BOOLEAN
  /\ surplus \in BOOLEAN

DataTypes ==
  /\ pc \in Points
  /\ stack \in Seq(Frame)
  /\ sig \in Signals
  /\ savedBy \in Nat
  /\ loopState \in LoopStates
  /\ inferiorState \in {"NOT_LOADED", "LOADED", "RUNNING"}
  /\ inferiorBasePage \in 0..MaxLoads
  /\ heap \in SUBSET (1..MaxLoads)
  /\ loads \in 0..MaxLoads
  /\ startBreak \in {"planted", "stray", "gone"}
  /\ returnCode \in {0, -1, -32}
  /\ userCodeForCommandLoop \in UserCodes /\ userCodeIfError \in UserCodes
  /\ request \in Requests \cup {"none"}
  /\ awaiting \in {"nothing", "reply", "stop"}
  /\ replaced \in 0..MaxLoads

TypeOK == FlagTypes /\ DataTypes

\* HandleOptions and the head of ServerMain.  A program on the command line is
\* loaded at once unless --multi is given.
Init ==
  /\ pc = "load" /\ stack = <<>> /\ sig = "USR1" /\ savedBy = 0 /\ loopState = "LISTEN"
  /\ inferiorState = "NOT_LOADED" /\ inferiorBasePage = 0
  /\ heap = {} /\ loads = 0 /\ startBreak = "gone"
  /\ inferiorTerminatedByServer = FALSE /\ returnCode = 0
  /\ extendedMode = FALSE
  /\ run_once \in BOOLEAN /\ option_multi \in MultiChoices /\ named \in BOOLEAN
  /\ loadInferiorRequested = (named /\ ~option_multi)
  /\ userCodeForCommandLoop = "SILENT" /\ userCodeIfError = "ERROR"
  /\ CtrlC_enable = FALSE
  /\ canDrop \in DropChoices /\ connected \in {TRUE, ~canDrop} /\ request = "none" /\ awaiting = "nothing"
  /\ breakSent = FALSE
  /\ surplus = FALSE /\ replaced = 0

-----------------------------------------------------------------------------
(* Helpers *)

Top == stack[Len(stack)]
Pop == SubSeq(stack, 1, Len(stack) - 1)

\* ServerCommandLoop was called by ServerMain, not by Exception.
UserLevel == stack = <<>>

\* Where the inferior is suspended, in one frame at most.  While a command loop
\* called from there runs, the inferior is the current GEMDOS process.
InferiorFrames == {i \in DOMAIN stack : stack[i].ret = "inferior"}
InferiorIsProcess == InferiorFrames # {}

\* TransmitPacket: nothing is sent without a connection.  gdb takes the packet
\* as what it waits for, or did not wait for any.
Transmit ==
  /\ awaiting' = IF connected THEN "nothing" ELSE awaiting
  /\ surplus' = (surplus \/ (connected /\ awaiting = "nothing"))

\* ServerCommandLoop returns, to ServerMain or into the exception it was
\* called from.
LoopReturnPoint == IF UserLevel THEN "loop_end" ELSE "resume"

\* SaveStateAndSwitchContext and Exception(): a nested command loop is called.
\* There is one place for the interrupted registers and stack pointer, whatever
\* the nesting: savedBy is the depth of the exception that wrote it last.
Raise(s, hook, text) ==
  /\ savedBy' = Len(stack) + 1
  /\ stack' = Append(stack, [ret |-> pc, sig |-> sig, hook |-> hook, text |-> text])
  /\ sig' = s
  /\ pc' = "enter"

\* GEMDOS ends the current process.  When that is the inferior, execution goes
\* on after Pexec(PE_GO), in the command loop that called RunInferior; when it
\* is the server, TOS takes all its memory back.
EndProcess ==
  \/ \E i \in InferiorFrames :
       /\ pc' = "unload" /\ sig' = stack[i].sig
       /\ stack' = SubSeq(stack, 1, i - 1)
       /\ UNCHANGED heap
  \/ /\ ~InferiorIsProcess
     /\ pc' = "dead" /\ heap' = {}
     /\ UNCHANGED <<stack, sig>>

-----------------------------------------------------------------------------
(* ServerMain *)

\* LoadInferior succeeds: the image gets memory, a breakpoint at __start, and
\* the breakpoint table is empty here (DiscardAllBreakpoints), so the insertion
\* cannot fail.
LoadSucceeds ==
  /\ pc = "load" /\ loadInferiorRequested
  /\ inferiorState = "NOT_LOADED" /\ named /\ loads < MaxLoads
  /\ loads' = loads + 1
  /\ inferiorBasePage' = loads' /\ heap' = heap \cup {loads'}
  /\ inferiorState' = "LOADED" /\ startBreak' = "planted"
  /\ loadInferiorRequested' = FALSE /\ userCodeIfError' = "ERROR"
  /\ pc' = "enter"
  /\ UNCHANGED <<loopVars, endVars, modeVars, userCodeForCommandLoop, named,
                 CtrlC_enable, gdbVars, histVars>>

\* LoadInferior fails: an inferior is there already, or Pexec(PE_LOAD) does not
\* load the file.  An image asked for on the command line is then fatal, one
\* asked for by gdb is answered by the next command loop.
LoadFails ==
  /\ pc = "load" /\ loadInferiorRequested
  /\ inferiorBasePage' = IF inferiorState = "NOT_LOADED" THEN 0 ELSE inferiorBasePage
  /\ IF userCodeForCommandLoop = "REPORT"
     THEN /\ userCodeForCommandLoop' = userCodeIfError
          /\ userCodeIfError' = "ERROR"
          /\ loadInferiorRequested' = FALSE
          /\ pc' = "enter"
     ELSE /\ pc' = "exited"
          /\ UNCHANGED <<userCodeForCommandLoop, userCodeIfError,
                         loadInferiorRequested>>
  /\ UNCHANGED <<loopVars, inferiorState, heap, loads, startBreak, endVars,
                 modeVars, named, CtrlC_enable, gdbVars, histVars>>

NothingToLoad ==
  /\ pc = "load" /\ ~loadInferiorRequested
  /\ pc' = "enter"
  /\ UNCHANGED <<loopVars, imageVars, endVars, modeVars, loadVars, CtrlC_enable,
                 gdbVars, histVars>>

\* Mutant of LoopEnd: run_once is not looked at.
LoopEndIgnoresOnce ==
  /\ pc = "loop_end"
  /\ startBreak' = IF startBreak = "planted" /\ inferiorState # "NOT_LOADED"
                   THEN "stray" ELSE "gone"
  /\ pc' = IF extendedMode \/ option_multi THEN "load" ELSE "exited"
  /\ UNCHANGED <<loopVars, inferiorState, inferiorBasePage, heap, loads, endVars,
                 modeVars, loadVars, CtrlC_enable, gdbVars, histVars>>

\* After ServerCommandLoop: DiscardAllBreakpoints forgets a start breakpoint
\* that still is in memory, and the while condition decides.
LoopEnd ==
  /\ pc = "loop_end"
  /\ startBreak' = IF startBreak = "planted" /\ inferiorState # "NOT_LOADED"
                   THEN "stray" ELSE "gone"
  /\ pc' = IF (extendedMode /\ ~run_once) \/ option_multi THEN "load" ELSE "exited"
  /\ UNCHANGED <<loopVars, inferiorState, inferiorBasePage, heap, loads, endVars,
                 modeVars, loadVars, CtrlC_enable, gdbVars, histVars>>

-----------------------------------------------------------------------------
(* ServerCommandLoop, entry: HandleBreakResponse *)

\* Called by ServerMain: report how the last load ended.
EnterUser ==
  /\ pc = "enter" /\ UserLevel
  /\ CtrlC_enable' = FALSE
  /\ IF userCodeForCommandLoop \in {"ERROR", "WARNING"}
     THEN Transmit ELSE UNCHANGED <<awaiting, surplus>>
  /\ IF userCodeForCommandLoop = "REPORT"
     THEN /\ loopState' = "CONTINUE" /\ pc' = "exit"
          /\ userCodeForCommandLoop' = "SILENT"
     ELSE /\ loopState' = "LISTEN" /\ pc' = "wait"
          /\ UNCHANGED userCodeForCommandLoop
  /\ UNCHANGED <<excVars, imageVars, endVars, modeVars, loadInferiorRequested,
                 userCodeIfError, named, connected, request, breakSent, replaced>>

\* Mutant of EnterBreak: an exception in the server's code is reported to gdb
\* like any other.
EnterBreakNoServerCheck ==
  /\ pc = "enter" /\ ~UserLevel
  /\ CtrlC_enable' = FALSE
  /\ Transmit
  /\ startBreak' = IF sig = "START" THEN "gone" ELSE startBreak
  /\ loopState' = "LISTEN" /\ pc' = "wait"
  /\ UNCHANGED <<excVars, inferiorState, inferiorBasePage, heap, loads, endVars,
                 modeVars, loadVars, connected, request, breakSent, replaced>>

\* Called by Exception: send the stop code; an exception whose pc is in the
\* server's own code ends the loop with KILL.  The SIGABRT that is assigned
\* there stays in HandleBreakResponse's parameter: sig is not changed.
EnterBreak ==
  /\ pc = "enter" /\ ~UserLevel
  /\ CtrlC_enable' = FALSE
  /\ Transmit
  /\ startBreak' = IF sig = "START" THEN "gone" ELSE startBreak
  /\ IF Top.text THEN loopState' = "KILL" /\ pc' = "exit"
                 ELSE loopState' = "LISTEN" /\ pc' = "wait"
  /\ UNCHANGED <<excVars, inferiorState, inferiorBasePage, heap, loads, endVars,
                 modeVars, loadVars, connected, request, breakSent, replaced>>

-----------------------------------------------------------------------------
(* ServerCommandLoop, one packet: ReceivePacket, the switch, TransmitPacket *)

\* The wait for a connection ends.
GotConnection ==
  /\ pc = "wait" /\ connected
  /\ pc' = "receive"
  /\ UNCHANGED <<loopVars, imageVars, endVars, modeVars, loadVars, CtrlC_enable,
                 gdbVars, histVars>>

\* The next packet is r.
Receive(r) == /\ pc = "receive" /\ request = r
              /\ request' = "none"

Leave(state) == loopState' = state /\ pc' = "exit"

\* The reply is transmitted and the loop goes on.
Reply == Transmit /\ pc' = "wait" /\ UNCHANGED loopState

\* '!': we are in extended mode from now on.
CmdExtended ==
  /\ Receive("!") /\ extendedMode' = TRUE /\ Reply
  /\ UNCHANGED <<excVars, imageVars, endVars, run_once, option_multi, canDrop, loadVars,
                 CtrlC_enable, connected, breakSent, replaced>>

CmdQuery ==
  /\ Receive("query") /\ Reply
  /\ UNCHANGED <<excVars, imageVars, endVars, modeVars, loadVars, CtrlC_enable,
                 connected, breakSent, replaced>>

\* 'Z': InsertMemoryBreakpoint reads through inferiorBasePage.  At NULL that is
\* a bus error in user mode; in supervisor mode it reads the vectors.
CmdSetBreakpoint ==
  /\ Receive("Z")
  /\ IF inferiorState = "NOT_LOADED" /\ UserLevel
     THEN /\ Raise("FAULT", TRUE, TRUE)
          /\ UNCHANGED <<loopState, awaiting, surplus>>
     ELSE Reply /\ UNCHANGED excVars
  /\ UNCHANGED <<imageVars, endVars, modeVars, loadVars, CtrlC_enable,
                 connected, breakSent, replaced>>

\* 'D', 'k' and vKill are the same command, and none of them is answered.
CmdKill ==
  /\ \E r \in {"D", "k", "vKill"} : Receive(r)
  /\ Leave("KILL")
  /\ UNCHANGED <<excVars, imageVars, endVars, modeVars, loadVars, CtrlC_enable,
                 connected, awaiting, breakSent, histVars>>

\* 'R', whatever the inferior's state.
CmdRestart ==
  /\ Receive("R")
  /\ Leave("RUN")
  /\ replaced' = IF inferiorState = "NOT_LOADED" THEN replaced ELSE inferiorBasePage
  /\ UNCHANGED <<excVars, imageVars, endVars, modeVars, loadVars, CtrlC_enable,
                 connected, awaiting, breakSent, surplus>>

\* Mutant of CmdRun: no look at the state of the inferior.
CmdRunAnyState ==
  /\ Receive("vRun")
  /\ Leave("RUN") /\ named' \in {named, TRUE}
  /\ UNCHANGED <<excVars, imageVars, endVars, modeVars, loadInferiorRequested,
                 userCodeForCommandLoop, userCodeIfError, CtrlC_enable,
                 connected, awaiting, breakSent, histVars>>

\* vRun: an error while there is an inferior.  An empty file name keeps the
\* previous one, which may be empty too.
CmdRun ==
  /\ Receive("vRun")
  /\ IF inferiorState # "NOT_LOADED"
     THEN Reply /\ UNCHANGED named
     ELSE /\ Leave("RUN") /\ named' \in {named, TRUE}
          /\ UNCHANGED <<awaiting, surplus>>
  /\ UNCHANGED <<excVars, imageVars, endVars, modeVars, loadInferiorRequested,
                 userCodeForCommandLoop, userCodeIfError, CtrlC_enable,
                 connected, breakSent, replaced>>

\* Mutant of ReportNoInferior: a LoopState is stored as the user code.
ReportNoInferiorWrongCode ==
  /\ inferiorState = "NOT_LOADED"
  /\ option_multi /\ named
  /\ userCodeIfError' = "RUN" /\ Leave("RUN")
  /\ UNCHANGED <<awaiting, surplus, startBreak>>

\* '?' without an inferior: load the named one, or report W00, which ends the
\* session unless it is an extended one.
ReportNoInferior ==
  /\ inferiorState = "NOT_LOADED"
  /\ UNCHANGED startBreak
  /\ IF option_multi /\ named
     THEN /\ userCodeIfError' = "WARNING" /\ Leave("RUN")
          /\ UNCHANGED <<awaiting, surplus>>
     ELSE /\ Transmit /\ UNCHANGED userCodeIfError
          /\ IF extendedMode THEN pc' = "wait" /\ UNCHANGED loopState
                             ELSE Leave("KILL")

\* '?' with a running inferior: SendStopCode again.
ReportRunning ==
  /\ inferiorState = "RUNNING"
  /\ Reply
  /\ startBreak' = IF sig = "START" THEN "gone" ELSE startBreak
  /\ UNCHANGED userCodeIfError

\* '?' with a loaded one: start it, the start breakpoint gives the answer.
ReportLoaded ==
  /\ inferiorState = "LOADED"
  /\ Leave("CONTINUE")
  /\ UNCHANGED <<awaiting, surplus, startBreak, userCodeIfError>>

CmdReportStopReason ==
  /\ Receive("?")
  /\ ReportNoInferior \/ ReportRunning \/ ReportLoaded
  /\ UNCHANGED <<excVars, inferiorState, inferiorBasePage, heap, loads, endVars,
                 modeVars, loadInferiorRequested, userCodeForCommandLoop, named,
                 CtrlC_enable, connected, breakSent, replaced>>

\* 'c' and 's': an empty reply without an inferior.
CmdContinue ==
  /\ Receive("c")
  /\ IF inferiorState = "NOT_LOADED" THEN Reply
     ELSE Leave("CONTINUE") /\ UNCHANGED <<awaiting, surplus>>
  /\ UNCHANGED <<excVars, imageVars, endVars, modeVars, loadVars, CtrlC_enable,
                 connected, breakSent, replaced>>

\* 0x1a: the quit key F4 was pressed while ReceivePacket polled for a
\* connection or a byte.
CmdQuit ==
  /\ pc \in {"wait", "receive"}
  /\ run_once' = TRUE /\ option_multi' = FALSE /\ loadInferiorRequested' = FALSE
  /\ Leave("KILL")
  /\ UNCHANGED <<excVars, imageVars, endVars, extendedMode, canDrop,
                 userCodeForCommandLoop, userCodeIfError, named, CtrlC_enable,
                 gdbVars, histVars>>

\* The connection drops under ReceivePacket, which then returns a 'k'.
ConnectionDropped ==
  /\ pc = "receive" /\ ~connected
  /\ Leave("KILL")
  /\ UNCHANGED <<excVars, imageVars, endVars, modeVars, loadVars, CtrlC_enable,
                 gdbVars, histVars>>

-----------------------------------------------------------------------------
(* HandleCommandLoopExit *)

\* Mutants of ExitKillLoaded: the base page pointer is kept; the memory is.
ExitKillLoadedKeepsPage ==
  /\ pc = "exit" /\ loopState = "KILL" /\ inferiorState = "LOADED"
  /\ heap' = heap \ {inferiorBasePage}
  /\ inferiorState' = "NOT_LOADED" /\ startBreak' = "gone"
  /\ pc' = LoopReturnPoint
  /\ UNCHANGED <<loopVars, inferiorBasePage, loads, endVars, modeVars, loadVars,
                 CtrlC_enable, gdbVars, histVars>>

ExitKillLoadedLeaks ==
  /\ pc = "exit" /\ loopState = "KILL" /\ inferiorState = "LOADED"
  /\ inferiorBasePage' = 0
  /\ inferiorState' = "NOT_LOADED" /\ startBreak' = "gone"
  /\ pc' = LoopReturnPoint
  /\ UNCHANGED <<loopVars, heap, loads, endVars, modeVars, loadVars, CtrlC_enable,
                 gdbVars, histVars>>

\* KILL with a loaded image: both Mfree calls.
ExitKillLoaded ==
  /\ pc = "exit" /\ loopState = "KILL" /\ inferiorState = "LOADED"
  /\ heap' = heap \ {inferiorBasePage} /\ inferiorBasePage' = 0
  /\ inferiorState' = "NOT_LOADED" /\ startBreak' = "gone"
  /\ pc' = LoopReturnPoint
  /\ UNCHANGED <<loopVars, loads, endVars, modeVars, loadVars, CtrlC_enable,
                 gdbVars, histVars>>

\* KILL with a running one: TerminateInferior(si_signo), that is Pterm.
ExitKillRunning ==
  /\ pc = "exit" /\ loopState = "KILL" /\ inferiorState = "RUNNING"
  /\ inferiorTerminatedByServer' = TRUE
  /\ returnCode' = IF sig = "ABRT" THEN -1 ELSE -32
  /\ EndProcess
  /\ UNCHANGED <<savedBy, loopState, inferiorState, inferiorBasePage, loads, startBreak,
                 modeVars, loadVars, CtrlC_enable, gdbVars, histVars>>

\* KILL with nothing loaded asks for the end of the server.
ExitKillNothing ==
  /\ pc = "exit" /\ loopState = "KILL" /\ inferiorState = "NOT_LOADED"
  /\ extendedMode' = FALSE
  /\ pc' = LoopReturnPoint
  /\ UNCHANGED <<loopVars, imageVars, endVars, run_once, option_multi, canDrop, loadVars,
                 CtrlC_enable, gdbVars, histVars>>

\* Mutant of ExitContinue: EnableCtrlC(true) is forgotten.
ExitContinueDeaf ==
  /\ pc = "exit" /\ loopState = "CONTINUE"
  /\ pc' = "continuing"
  /\ UNCHANGED <<loopVars, imageVars, endVars, modeVars, loadVars, CtrlC_enable,
                 gdbVars, histVars>>

\* CONTINUE: Ctrl-C is enabled before anything runs.
ExitContinue ==
  /\ pc = "exit" /\ loopState = "CONTINUE"
  /\ CtrlC_enable' = TRUE
  /\ pc' = "continuing"
  /\ UNCHANGED <<loopVars, imageVars, endVars, modeVars, loadVars, gdbVars, histVars>>

\* Mutant of Continue: a RUNNING inferior is run again.
ContinueRunsAgain ==
  /\ pc = "continuing"
  /\ pc' = IF inferiorState # "NOT_LOADED" THEN "pre_run" ELSE LoopReturnPoint
  /\ UNCHANGED <<loopVars, imageVars, endVars, modeVars, loadVars, CtrlC_enable,
                 gdbVars, histVars>>

\* With a LOADED inferior it is run here, otherwise the loop returns to what
\* was interrupted.
Continue ==
  /\ pc = "continuing"
  /\ pc' = IF inferiorState = "LOADED" THEN "pre_run" ELSE LoopReturnPoint
  /\ UNCHANGED <<loopVars, imageVars, endVars, modeVars, loadVars, CtrlC_enable,
                 gdbVars, histVars>>

ExitRun ==
  /\ pc = "exit" /\ loopState = "RUN"
  /\ loadInferiorRequested' = TRUE /\ userCodeForCommandLoop' = "REPORT"
  /\ pc' = LoopReturnPoint
  /\ UNCHANGED <<loopVars, imageVars, endVars, modeVars, userCodeIfError, named,
                 CtrlC_enable, gdbVars, histVars>>

-----------------------------------------------------------------------------
(* RunInferior *)

RunInferior ==
  /\ pc = "pre_run"
  /\ inferiorState' = "RUNNING" /\ inferiorTerminatedByServer' = FALSE
  /\ pc' = IF inferiorBasePage = 0 THEN "wild" ELSE "pexec"
  /\ UNCHANGED <<loopVars, inferiorBasePage, heap, loads, startBreak, returnCode,
                 modeVars, loadVars, CtrlC_enable, gdbVars, histVars>>

EnterInferior ==
  /\ pc = "pexec"
  /\ pc' = "inferior"
  /\ UNCHANGED <<loopVars, imageVars, endVars, modeVars, loadVars, CtrlC_enable,
                 gdbVars, histVars>>

\* Mutants of UnloadInferior: the memory is not given back; the exit is
\* reported whoever ended the inferior.
UnloadInferiorLeaks ==
  /\ pc = "unload"
  /\ inferiorBasePage' = 0
  /\ inferiorState' = "NOT_LOADED" /\ startBreak' = "gone"
  /\ pc' = IF inferiorTerminatedByServer THEN LoopReturnPoint ELSE "report"
  /\ UNCHANGED <<loopVars, heap, loads, endVars, modeVars, loadVars, CtrlC_enable,
                 gdbVars, histVars>>

UnloadInferiorAlwaysReports ==
  /\ pc = "unload"
  /\ heap' = heap \ {inferiorBasePage} /\ inferiorBasePage' = 0
  /\ inferiorState' = "NOT_LOADED" /\ startBreak' = "gone"
  /\ pc' = "report"
  /\ UNCHANGED <<loopVars, loads, endVars, modeVars, loadVars, CtrlC_enable,
                 gdbVars, histVars>>

\* Pexec(PE_GO) returned.  RunInferior's result decides whether the exit is
\* reported to gdb; return code -1 leaves the extended protocol.
UnloadInferior ==
  /\ pc = "unload"
  /\ heap' = heap \ {inferiorBasePage} /\ inferiorBasePage' = 0
  /\ inferiorState' = "NOT_LOADED" /\ startBreak' = "gone"
  /\ extendedMode' = (extendedMode /\ ~(inferiorTerminatedByServer /\ returnCode = -1))
  /\ pc' = IF inferiorTerminatedByServer THEN LoopReturnPoint ELSE "report"
  /\ UNCHANGED <<loopVars, loads, endVars, run_once, option_multi, canDrop, loadVars,
                 CtrlC_enable, gdbVars, histVars>>

\* SetServerContext and the 'W' packet.
ReportExit ==
  /\ pc = "report"
  /\ Transmit
  /\ pc' = LoopReturnPoint
  /\ UNCHANGED <<loopVars, imageVars, endVars, modeVars, loadVars, CtrlC_enable,
                 connected, request, breakSent, replaced>>

-----------------------------------------------------------------------------
(* The inferior, seen from its exceptions.  At its first instruction it meets
   the start breakpoint, if one is in memory. *)

InferiorExits ==
  /\ pc = "inferior" /\ startBreak = "gone"
  /\ pc' = "unload" /\ returnCode' = 0
  /\ UNCHANGED <<loopVars, imageVars, inferiorTerminatedByServer, modeVars, loadVars,
                 CtrlC_enable, gdbVars, histVars>>

\* Trap #0 at __start: pc is rewound to it if the breakpoint table knows it.
\* Otherwise execution goes on behind it after an ordinary trap.
StartTrap ==
  /\ pc = "inferior" /\ startBreak # "gone"
  /\ Raise(IF startBreak = "planted" THEN "START" ELSE "TRAP", FALSE, FALSE)
  /\ startBreak' = IF startBreak = "stray" THEN "gone" ELSE startBreak
  /\ UNCHANGED <<loopState, inferiorState, inferiorBasePage, heap, loads, endVars,
                 modeVars, loadVars, CtrlC_enable, gdbVars, histVars>>

\* Any other breakpoint or trace exception (hijacked vectors), or an error
\* exception (hooked vectors).
InferiorException(s, hook) ==
  /\ pc = "inferior" /\ startBreak = "gone"
  /\ Raise(s, hook, FALSE)
  /\ UNCHANGED <<loopState, imageVars, endVars, modeVars, loadVars, CtrlC_enable,
                 gdbVars, histVars>>

\* The exception is left for what it interrupted, by rte or by the rte of an
\* original vector.  If another exception came and went in between, the saved
\* registers and stack pointer are that one's.
ResumeInterrupted ==
  /\ pc = "resume" /\ ~(Top.hook /\ Top.text)
  /\ IF savedBy = Len(stack)
     THEN pc' = Top.ret /\ sig' = Top.sig /\ stack' = Pop
     ELSE pc' = "wild" /\ UNCHANGED <<stack, sig>>
  /\ UNCHANGED <<savedBy, loopState, imageVars, endVars, modeVars, loadVars, CtrlC_enable,
                 gdbVars, histVars>>

\* An error exception goes on in the original vector, where TOS ends the
\* process that made the error.
ResumeTosHandler ==
  /\ pc = "resume" /\ Top.hook
  /\ EndProcess
  /\ returnCode' = IF InferiorIsProcess THEN -1 ELSE returnCode
  /\ UNCHANGED <<savedBy, loopState, inferiorState, inferiorBasePage, loads, startBreak,
                 inferiorTerminatedByServer, modeVars, loadVars, CtrlC_enable,
                 gdbVars, histVars>>

-----------------------------------------------------------------------------
(* gdb, the line and the serial interrupt *)

Expects(r) == CASE r \in {"c", "R", "vRun", "?"} -> "stop"
                [] r \in {"D", "k", "vKill"}    -> "nothing"
                [] OTHER                        -> "reply"

\* gdb has one request outstanding.  While CtrlC_enable is set the serial
\* interrupt discards everything but 0x03.
SendRequest(r) ==
  /\ connected /\ request = "none" /\ awaiting = "nothing"
  /\ request' = IF CtrlC_enable THEN "none" ELSE r
  /\ awaiting' = Expects(r)
  /\ UNCHANGED <<pc, loopVars, imageVars, endVars, modeVars, loadVars, CtrlC_enable,
                 connected, breakSent, histVars>>

\* The user interrupts: gdb sends 0x03 while it waits for a stop.
SendBreak ==
  /\ connected /\ awaiting = "stop" /\ ~breakSent
  /\ breakSent' = TRUE
  /\ UNCHANGED <<pc, loopVars, imageVars, endVars, modeVars, loadVars, CtrlC_enable,
                 connected, request, awaiting, histVars>>

\* The byte arrives while the server does not want it: ReceivePacket will skip
\* it, as it skips everything before a '$'.
BreakLost ==
  /\ breakSent /\ ~CtrlC_enable
  /\ breakSent' = FALSE
  /\ UNCHANGED <<pc, loopVars, imageVars, endVars, modeVars, loadVars, CtrlC_enable,
                 connected, request, awaiting, histVars>>

\* The serial interrupt takes it: CtrlC_enable is cleared and CtrlCException
\* starts a command loop.  Outside the inferior the interrupted pc is in the
\* server's text, or in TOS where the point calls TOS.
BreakTaken(text) ==
  /\ breakSent /\ CtrlC_enable
  /\ \/ pc = "inferior" /\ startBreak = "gone" /\ ~text
     \/ pc \in Windows /\ (text \/ pc \in TosPoints)
  /\ Len(stack) < MaxDepth
  /\ breakSent' = FALSE /\ CtrlC_enable' = FALSE
  /\ Raise("INT", FALSE, text)
  /\ UNCHANGED <<loopState, imageVars, endVars, modeVars, loadVars,
                 connected, request, awaiting, histVars>>

Connect ==
  /\ ~connected
  /\ connected' = TRUE
  /\ UNCHANGED <<pc, loopVars, imageVars, endVars, modeVars, loadVars, CtrlC_enable,
                 request, awaiting, breakSent, histVars>>

Disconnect ==
  /\ canDrop /\ connected
  /\ connected' = FALSE /\ request' = "none" /\ awaiting' = "nothing"
  /\ breakSent' = FALSE
  /\ UNCHANGED <<pc, loopVars, imageVars, endVars, modeVars, loadVars, CtrlC_enable,
                 histVars>>

\* Nothing runs any more.
Stopped == pc \in EndPoints /\ UNCHANGED vars

-----------------------------------------------------------------------------
Command == \/ CmdExtended \/ CmdQuery \/ CmdSetBreakpoint \/ CmdKill \/ CmdRestart
           \/ CmdRun \/ CmdReportStopReason \/ CmdContinue \/ ConnectionDropped

CommandLoopExit == \/ ExitKillLoaded \/ ExitKillRunning \/ ExitKillNothing
                   \/ ExitContinue \/ Continue \/ ExitRun

\* Steps of the server that need nobody else.
Server == \/ LoadSucceeds \/ LoadFails \/ NothingToLoad \/ LoopEnd
          \/ EnterUser \/ EnterBreak \/ GotConnection \/ Command \/ CommandLoopExit
          \/ RunInferior \/ EnterInferior \/ UnloadInferior \/ ReportExit
          \/ ResumeInterrupted \/ ResumeTosHandler

Inferior == \/ InferiorExits \/ StartTrap
            \/ InferiorException("TRAP", FALSE) \/ InferiorException("FAULT", TRUE)

Environment == \/ CmdQuit
               \/ \E r \in Requests : SendRequest(r)
               \/ SendBreak \/ BreakLost \/ \E text \in BOOLEAN : BreakTaken(text)
               \/ Connect \/ Disconnect

Next == Server \/ Inferior \/ Environment \/ Stopped

Spec == Init /\ [][Next]_vars

\* The processor keeps executing the server's code; nothing is assumed of the
\* inferior, of gdb or of the user.
FairSpec == Spec /\ WF_vars(Server)

-----------------------------------------------------------------------------
(* Properties *)

\* Between the assignments of the code the base page pointer, the state and
\* GEMDOS agree: an image is in memory exactly while one is loaded, it is the
\* only one, and no Mfree is forgotten or done twice (inferior.c:38-90,
\* server.c:482-489).  Once the machine runs wild or the process is gone there
\* is nothing left to promise.
MemoryOwnership ==
  pc \notin {"dead", "wild"} =>
    /\ heap = {inferiorBasePage} \ {0}
    /\ inferiorState = "NOT_LOADED" <=> inferiorBasePage = 0

\* The user can stop what is running: whenever the inferior executes, the
\* serial interrupt listens for Ctrl-C, and it never does while a command loop
\* waits for packets (server.c:508, 567).  A restart request, which the code
\* takes for one to go on (server.c:623-625), is the exception.
CtrlCDiscipline ==
  /\ pc = "inferior" /\ inferiorBasePage # replaced => CtrlC_enable
  /\ pc \in {"wait", "receive"} => ~CtrlC_enable

\* A command loop called from an exception has an inferior being executed, but
\* paused now (server.c:448-456): reading and writing its memory and registers
\* makes sense, and so does continuing it.
BreakMeansExecuting ==
  pc \in {"wait", "receive"} /\ ~UserLevel => inferiorState = "RUNNING"

\* The server exits only after the inferior has: no image is left behind, no
\* started inferior survives its debugger, however the session was ended
\* (server.c:722-757).  A restart request is the exception.
CleanExit ==
  pc = "exited" => heap \subseteq {replaced}

\* Unless gdb asked for a restart, every packet the server sends is one gdb
\* waits for: stop replies, exit reports and load errors are never sent twice or
\* out of turn.  On a line that drops, and with --multi, a load error may meet
\* a gdb that asked for nothing.
OnePacketPerRequest ==
  [][surplus' /\ ~surplus => replaced # 0 \/ canDrop \/ option_multi]_vars

\* A breakpoint that the inferior meets at __start is the one LoadInferior
\* planted, and is reported and removed as such (server.c:106-114).
StartBreakKnown ==
  pc = "inferior" /\ inferiorBasePage # replaced => startBreak # "stray"

\* Every image follows the life cycle of InferiorLifecycle.
Lifecycle == INSTANCE InferiorLifecycle
               WITH phase <- inferiorState, image <- inferiorBasePage, owned <- heap
ImplementsLifecycle == Lifecycle!Spec

\* The quit key ends the server with everything restored, from any command
\* loop it is pressed in; so does a kill under --once.  (An exception in the
\* server's own code ends it through TOS instead.)
QuitEndsServer ==
  (run_once /\ ~option_multi /\ pc = "exit" /\ loopState = "KILL"
     /\ (UserLevel \/ ~Top.text)) ~> pc = "exited"
=============================================================================
