------------------------- MODULE SessionInvariants -------------------------
(***************************************************************************)
(* Facts about the suspended activations of the session that make its      *)
(* safety properties inductive.  Session_proofs proves them; the           *)
(* run session_windows checks their conjunction on a small instance.       *)
(***************************************************************************)
EXTENDS Session

\* The program is executed once: of the points the processor is at or was
\* interrupted at, one at most lies in RunInferior or in the inferior.
OneActivation ==
  /\ \A i, j \in DOMAIN stack :
       stack[i].ret \in RunPoints /\ stack[j].ret \in RunPoints => i = j
  /\ pc \in RunPoints => \A i \in DOMAIN stack : stack[i].ret \notin RunPoints

\* From the assignment in RunInferior to the Mfree calls the state is RUNNING,
\* interrupted or not.
ActiveIsRunning ==
  LET Active == {"pexec", "inferior", "unload"}
  IN  /\ pc \in Active => inferiorState = "RUNNING"
      /\ pc = "pre_run" => inferiorState # "RUNNING"
      /\ \A i \in DOMAIN stack : stack[i].ret \in Active => inferiorState = "RUNNING"

\* A Ctrl-C just before that assignment can only kill: the loop it starts is
\* the innermost, deaf, and leaves no image behind.
PreRunIsKilled ==
  \A i \in DOMAIN stack :
    stack[i].ret = "pre_run" =>
      /\ i = Len(stack) /\ savedBy = Len(stack)
      /\ stack[i].text /\ ~stack[i].hook
      /\ ~CtrlC_enable /\ inferiorState # "RUNNING"
      /\ \/ pc = "enter"
         \/ pc = "exit" /\ loopState = "KILL"
         \/ pc = "resume" /\ inferiorState = "NOT_LOADED"

\* Nothing returns into a packet handler that was left by an exception, and a
\* loop that left for a new load has no image that gdb did not give up.
HandlersAreLeft ==
  /\ \A i \in DOMAIN stack :
       /\ stack[i].ret # "exit"
       /\ stack[i].ret \in {"wait", "receive"} => stack[i].hook /\ stack[i].text
  /\ pc = "exit" /\ loopState = "RUN" => inferiorBasePage \in {0, replaced}

\* On the way back to the inferior, Ctrl-C is enabled, or there is no inferior
\* to come back to, or gdb gave it up.
ReturnsAttentive ==
  pc \in {"continuing", "resume", "report", "pre_run", "pexec", "inferior"}
    => CtrlC_enable \/ inferiorBasePage \in {0, replaced}

\* The inferior is executed by one Pexec at a time, which is the one the
\* server's state and base page pointer speak of: whatever point a Ctrl-C or an
\* exception suspended, no second program is started above it, and it does not
\* lose its image under its feet (server.c:475-560, inferior.c:75-98).
OneExecution ==
  /\ OneActivation /\ ActiveIsRunning /\ PreRunIsKilled
  /\ HandlersAreLeft /\ ReturnsAttentive

-----------------------------------------------------------------------------
(* What the server's own thread of execution is at, below all exceptions. *)

\* The point ServerMain, or the command loop it called, is at or was
\* interrupted at first.
MainPoint == IF UserLevel THEN pc ELSE stack[1].ret

Given == inferiorBasePage \in {0, replaced}

\* ServerMain and RunInferior are executed by no exception.
MainIsUserLevel ==
  /\ pc \in {"load", "loop_end", "pre_run", "exited"} => UserLevel
  /\ \A i \in DOMAIN stack :
       /\ stack[i].ret \in {"load", "loop_end", "pre_run"} => i = 1
       /\ stack[i].ret # "exited"

\* A command loop that returns to ServerMain leaves no image behind, unless gdb
\* gave it up, and it stays so until the server exits.
GivenUp ==
  /\ MainPoint \in {"load", "loop_end", "exited"} => Given
  /\ MainPoint = "report" => inferiorBasePage = 0

\* An exception that finds an image not yet started is one in the server's own
\* code: its command loop is about to unload the image.
LoadedIsKilled ==
  inferiorState = "LOADED" /\ ~UserLevel /\ pc \notin {"dead", "wild"} =>
    /\ Top.text /\ ~CtrlC_enable
    /\ pc = "enter" \/ (pc = "exit" /\ loopState = "KILL")

\* A started image is being executed by Pexec, or its Pexec is just returning.
RunningIsMain ==
  inferiorState = "RUNNING" /\ pc \notin {"dead", "wild"}
    => MainPoint \in {"pexec", "inferior", "unload"}

\* A start breakpoint is only forgotten in an image that gdb gave up.
StrayIsGivenUp == startBreak = "stray" => inferiorBasePage = replaced

\* Without a Ctrl-C while the exit is reported, an exception outside the server's
\* text segment is one in the inferior's Pexec, and so is one whose command loop
\* waits for packets.
NestedListens ==
  "report" \notin Windows =>
    /\ \A i \in DOMAIN stack :
         ~stack[i].text => stack[i].ret \in {"pexec", "inferior", "unload"}
    /\ ~UserLevel /\ pc \in {"wait", "receive"}
         => Top.ret \in {"pexec", "inferior", "unload"}

\* Without a Ctrl-C inside RunInferior, nothing suspends it there and the image
\* it is about to start is there.
RunIsUndisturbed ==
  Windows \cap {"pre_run", "pexec", "unload"} = {} =>
    /\ \A i \in DOMAIN stack : stack[i].ret \notin {"pre_run", "pexec", "unload"}
    /\ pc = "pre_run" => inferiorState = "LOADED"

MainThread ==
  /\ MainIsUserLevel /\ GivenUp /\ LoadedIsKilled /\ RunningIsMain
  /\ StrayIsGivenUp /\ NestedListens /\ RunIsUndisturbed

-----------------------------------------------------------------------------
(* What gdb waits for when the user interrupts the server at none of the points
   between two packets. *)

\* The lines and options for which every packet has its request.
Orderly == replaced = 0 /\ ~canDrop /\ ~option_multi

\* gdb waits, and the server has taken what it asked.
Owed == awaiting # "nothing" /\ request = "none"

\* A command loop that is left by a kill is deaf until another one goes on.
KilledIsDeaf ==
  /\ pc = "exit" => ~CtrlC_enable
  /\ pc = "report" => UserLevel

\* On the way to the exit that the quit key, or a kill under --once, asked for.
Quitting ==
  /\ run_once
  /\ \/ pc = "exit" /\ loopState = "KILL" /\ (UserLevel \/ inferiorState = "RUNNING")
     \/ pc = "unload" /\ inferiorTerminatedByServer /\ ~CtrlC_enable
     \/ pc = "loop_end"

\* Wherever a packet will be sent without another being received, gdb waits; and
\* where an interrupted loop was killed, nothing will be sent.
Awaited ==
  /\ request # "none" => (awaiting = "nothing" <=> request \in {"D", "k", "vKill"})
  /\ pc = "enter" /\ (~UserLevel \/ userCodeForCommandLoop # "SILENT") => Owed
  /\ pc \in {"load", "loop_end"} /\ userCodeForCommandLoop = "REPORT" => Owed
  /\ pc = "exit" /\ loopState \in {"CONTINUE", "RUN"} => Owed
  /\ pc = "exit" /\ loopState = "RUN" => UserLevel
  /\ pc \in {"pexec", "inferior", "report"} => Owed
  /\ pc \in {"continuing", "pre_run", "resume"} =>
       Owed \/ (inferiorState = "NOT_LOADED" /\ ~CtrlC_enable)
  /\ pc = "unload" => Owed \/ (inferiorTerminatedByServer /\ ~CtrlC_enable)

\* How the last load ended is what the code for the next command loop says: a
\* load that failed leaves a loop that can only be killed or ask for another, and
\* that is interrupted by nothing but the bus error of its own packet handler.
CodesAreTrue ==
  /\ userCodeForCommandLoop \in {"ERROR", "WARNING"} =>
       /\ inferiorState = "NOT_LOADED"
       /\ UserLevel \/ (Len(stack) = 1 /\ stack[1].ret = "receive" /\ ~CtrlC_enable)
       /\ \/ pc \in {"enter", "wait", "receive", "resume"}
          \/ pc = "exit" /\ loopState \in {"KILL", "RUN"}
          \/ pc = "loop_end" /\ ~extendedMode
  /\ userCodeForCommandLoop = "REPORT" =>
       \/ pc \in {"loop_end", "load"} /\ loadInferiorRequested
       \/ pc = "enter" /\ UserLevel /\ inferiorState = "LOADED"

\* Where activations are suspended: in the inferior, in the packet handler that met
\* a NULL base page, and where a Ctrl-C may be taken.
ReturnPoints == \A i \in DOMAIN stack : stack[i].ret \in Windows \cup {"inferior", "receive"}

RequestsInv ==
  /\ ReturnPoints
  /\ ~canDrop => connected
  /\ userCodeIfError \in {"ERROR", "WARNING"}
  /\ KilledIsDeaf
  /\ Orderly /\ pc \notin EndPoints => Quitting \/ (Awaited /\ CodesAreTrue)
=============================================================================
