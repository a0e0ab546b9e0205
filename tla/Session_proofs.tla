--------------------------- MODULE Session_proofs ---------------------------
(***************************************************************************)
(* Proofs about Session for every number of loads, every nesting, every    *)
(* set of interrupt windows and every choice of options; three of the      *)
(* theorems name the windows they exclude.                                 *)
(***************************************************************************)
EXTENDS SessionInvariants, SequenceTheorems, TLAPS

\* A prefix of a sequence is one, with the same elements.
LEMMA PrefixProperties ==
  ASSUME NEW S, NEW s \in Seq(S), NEW n \in 0..Len(s)
  PROVE  /\ SubSeq(s, 1, n) \in Seq(S)
         /\ Len(SubSeq(s, 1, n)) = n
         /\ \A i \in 1..n : SubSeq(s, 1, n)[i] = s[i]
<1>1. \A i \in 1..n : s[i] \in S
  BY ElementOfSeq
<1>2. /\ SubSeq(s, 1, n) \in Seq(S)
      /\ Len(SubSeq(s, 1, n)) = IF 1 <= n THEN n - 1 + 1 ELSE 0
      /\ \A i \in 1..(n - 1 + 1) : SubSeq(s, 1, n)[i] = s[1 + i - 1]
  BY <1>1, SubSeqProperties
<1> QED
  BY <1>2

\* A nested loop that returned has an exception to return to, and none is
\* suspended below the exception it belongs to.
ResumeInv == /\ pc = "resume" => stack # <<>>
             /\ stack # <<>> => stack[1].ret # "resume"

TypeInv == TypeOK /\ ResumeInv

USE DEF Points, MainPoints, LoopPoints, RunPoints, EndPoints, Signals,
        LoopStates, UserCodes, Requests,
        loopVars, excVars, imageVars, endVars, modeVars, loadVars, gdbVars, histVars

\* Everything has its type at first.
LEMMA InitTypeInv == Init => TypeInv
<1> SUFFICES ASSUME Init PROVE TypeInv
  OBVIOUS
<1>1. option_multi \in BOOLEAN /\ named \in BOOLEAN
  BY OptionsAssumption DEF Init
<1>2. loadInferiorRequested \in BOOLEAN
  BY <1>1, Zenon DEF Init
<1>3. connected \in BOOLEAN /\ canDrop \in BOOLEAN
  BY OptionsAssumption, Zenon DEF Init
<1>4. 0 \in 0..MaxLoads /\ <<>> \in Seq(Frame)
  BY BoundsAssumption
<1>5. ResumeInv
  BY DEF Init, ResumeInv
<1>6. pc \in Points /\ sig \in Signals /\ savedBy \in Nat /\ loopState \in LoopStates
  BY DEF Init
<1> QED
  BY <1>1, <1>2, <1>3, <1>4, <1>5, <1>6, Zenon DEF Init, TypeInv, TypeOK, DataTypes, FlagTypes

StackTypes == /\ stack \in Seq(Frame) /\ sig \in Signals /\ pc \in Points
              /\ savedBy \in Nat /\ ResumeInv

\* Raise and EndProcess keep the stack well formed.
LEMMA RaiseType ==
  ASSUME TypeInv, NEW s \in Signals, NEW hook \in BOOLEAN, NEW text \in BOOLEAN,
         Raise(s, hook, text)
  PROVE  StackTypes'
<1> DEFINE f == [ret |-> pc, sig |-> sig, hook |-> hook, text |-> text]
<1>1. f \in Frame BY DEF TypeInv, TypeOK, DataTypes, FlagTypes, Frame
<1>2. stack' = Append(stack, f) BY DEF Raise
<1>3. stack \in Seq(Frame) BY DEF TypeInv, TypeOK, DataTypes, FlagTypes
<1>4. stack' \in Seq(Frame) /\ stack' # <<>> BY <1>1, <1>2, <1>3
<1>5. stack'[1].ret # "resume"
  <2>1. CASE stack = <<>>
    <3>1. stack'[1] = f BY <1>2, <1>1, <2>1
    <3> QED BY <3>1, <2>1 DEF TypeInv, ResumeInv
  <2>2. CASE stack # <<>>
    <3>1. stack'[1] = stack[1] BY <1>2, <1>3, <1>1, <2>2
    <3> QED BY <3>1, <2>2 DEF TypeInv, ResumeInv
  <2> QED BY <2>1, <2>2
<1> QED BY <1>3, <1>4, <1>5 DEF Raise, ResumeInv, StackTypes

\* The end of a process keeps the stack well formed.
LEMMA EndProcessType ==
  ASSUME TypeInv, EndProcess
  PROVE  /\ stack' \in Seq(Frame) /\ sig' \in Signals /\ pc' \in Points
         /\ heap' \in SUBSET (1..MaxLoads) /\ ResumeInv'
<1>1. CASE ~InferiorIsProcess /\ pc' = "dead" /\ heap' = {} /\ UNCHANGED <<stack, sig>>
  BY <1>1 DEF TypeInv, TypeOK, DataTypes, FlagTypes, ResumeInv
<1>2. ASSUME NEW i \in InferiorFrames,
             pc' = "unload", sig' = stack[i].sig, heap' = heap,
             stack' = SubSeq(stack, 1, i - 1)
      PROVE  /\ stack' \in Seq(Frame) /\ sig' \in Signals /\ pc' \in Points
             /\ heap' \in SUBSET (1..MaxLoads) /\ ResumeInv'
  <2>1. stack \in Seq(Frame) /\ i \in 1..Len(stack)
    BY DEF TypeInv, TypeOK, DataTypes, FlagTypes, InferiorFrames
  <2>2. stack[i] \in Frame
    BY <2>1
  <2>3. /\ stack' \in Seq(Frame)
        /\ stack' # <<>> => stack'[1] = stack[1]
    BY <1>2, <2>1, PrefixProperties
  <2> QED
    BY <1>2, <2>1, <2>2, <2>3 DEF TypeInv, TypeOK, DataTypes, FlagTypes, ResumeInv, Frame
<1> QED
  BY <1>1, <1>2 DEF EndProcess

\* Each step keeps the flags Boolean.
LEMMA StepFlagTypes == FlagTypes /\ [Next]_vars => FlagTypes'
<1> SUFFICES ASSUME FlagTypes, [Next]_vars PROVE FlagTypes'
  OBVIOUS
<1> USE DEF FlagTypes
<1>1. CASE LoadSucceeds
  BY <1>1, Zenon DEF LoadSucceeds
<1>2. CASE LoadFails
  BY <1>2, Zenon DEF LoadFails
<1>3. CASE NothingToLoad
  BY <1>3, Zenon DEF NothingToLoad
<1>4. CASE LoopEnd
  BY <1>4, Zenon DEF LoopEnd
<1>5. CASE EnterUser
  BY <1>5, Zenon DEF EnterUser, Transmit
<1>6. CASE EnterBreak
  BY <1>6, Zenon DEF EnterBreak, Transmit
<1>7. CASE GotConnection
  BY <1>7, Zenon DEF GotConnection
<1>8. CASE CmdExtended
  BY <1>8, Zenon DEF CmdExtended, Reply, Transmit
<1>9. CASE CmdQuery
  BY <1>9, Zenon DEF CmdQuery, Reply, Transmit
<1>10. CASE CmdSetBreakpoint
  BY <1>10, Zenon DEF CmdSetBreakpoint, Reply, Transmit
<1>11. CASE CmdKill
  BY <1>11, Zenon DEF CmdKill
<1>12. CASE CmdRestart
  BY <1>12, Zenon DEF CmdRestart
<1>13. CASE CmdRun
  BY <1>13, Zenon DEF CmdRun, Reply, Transmit
<1>14. CASE CmdReportStopReason
  BY <1>14, Zenon DEF CmdReportStopReason, ReportNoInferior, ReportRunning, ReportLoaded, Transmit, Reply
<1>15. CASE CmdContinue
  BY <1>15, Zenon DEF CmdContinue, Reply, Transmit
<1>16. CASE ConnectionDropped
  BY <1>16, Zenon DEF ConnectionDropped
<1>17. CASE ExitKillLoaded
  BY <1>17, Zenon DEF ExitKillLoaded
<1>18. CASE ExitKillRunning
  BY <1>18, Zenon DEF ExitKillRunning
<1>19. CASE ExitKillNothing
  BY <1>19, Zenon DEF ExitKillNothing
<1>20. CASE ExitContinue
  BY <1>20, Zenon DEF ExitContinue
<1>21. CASE Continue
  BY <1>21, Zenon DEF Continue
<1>22. CASE ExitRun
  BY <1>22, Zenon DEF ExitRun
<1>23. CASE RunInferior
  BY <1>23, Zenon DEF RunInferior
<1>24. CASE EnterInferior
  BY <1>24, Zenon DEF EnterInferior
<1>25. CASE UnloadInferior
  BY <1>25, Zenon DEF UnloadInferior
<1>26. CASE ReportExit
  BY <1>26, Zenon DEF ReportExit, Transmit
<1>27. CASE ResumeInterrupted
  BY <1>27, Zenon DEF ResumeInterrupted
<1>28. CASE ResumeTosHandler
  BY <1>28, Zenon DEF ResumeTosHandler
<1>29. CASE InferiorExits
  BY <1>29, Zenon DEF InferiorExits
<1>30. CASE StartTrap
  BY <1>30, Zenon DEF StartTrap
<1>31. CASE CmdQuit
  BY <1>31, Zenon DEF CmdQuit
<1>32. CASE SendBreak
  BY <1>32, Zenon DEF SendBreak
<1>33. CASE BreakLost
  BY <1>33, Zenon DEF BreakLost
<1>34. CASE Connect
  BY <1>34, Zenon DEF Connect
<1>35. CASE Disconnect
  BY <1>35, Zenon DEF Disconnect
<1>36. CASE Stopped
  BY <1>36, Zenon DEF Stopped, vars
<1>37. ASSUME NEW s, NEW hook, InferiorException(s, hook) PROVE FlagTypes'
  BY <1>37, Zenon DEF InferiorException
<1>38. ASSUME NEW r, SendRequest(r) PROVE FlagTypes'
  BY <1>38, Zenon DEF SendRequest
<1>39. ASSUME NEW text, BreakTaken(text) PROVE FlagTypes'
  BY <1>39, Zenon DEF BreakTaken
<1>40. CASE UNCHANGED vars
  BY <1>40, Zenon DEF vars
<1> QED
  BY <1>1, <1>2, <1>3, <1>4, <1>5, <1>6, <1>7, <1>8, <1>9, <1>10, <1>11, <1>12, <1>13, <1>14, <1>15, <1>16, <1>17, <1>18, <1>19, <1>20, <1>21, <1>22, <1>23, <1>24, <1>25, <1>26, <1>27, <1>28, <1>29, <1>30, <1>31, <1>32, <1>33, <1>34, <1>35, <1>36, <1>37, <1>38, <1>39, <1>40
     DEF Next, Server, Command, CommandLoopExit, Inferior, Environment

\* Each step preserves the types of what is no flag.
LEMMA StepDataTypes == TypeInv /\ [Next]_vars => DataTypes' /\ ResumeInv'
<1> DEFINE Goal == DataTypes' /\ ResumeInv'
<1> SUFFICES ASSUME TypeInv, [Next]_vars PROVE Goal
  OBVIOUS
<1>a. DataTypes /\ ResumeInv
  BY DEF TypeInv, TypeOK
<1> USE BoundsAssumption, <1>a DEF DataTypes, ResumeInv
<1>1. CASE LoadSucceeds
  BY <1>1 DEF LoadSucceeds
<1>2. CASE LoadFails
  <2>1. CASE userCodeForCommandLoop = "REPORT"
    BY <1>2, <2>1 DEF LoadFails
  <2>2. CASE userCodeForCommandLoop # "REPORT"
    BY <1>2, <2>2 DEF LoadFails
  <2> QED
    BY <2>1, <2>2
<1>3. CASE NothingToLoad
  BY <1>3 DEF NothingToLoad
<1>4. CASE LoopEnd
  BY <1>4 DEF LoopEnd
<1>5. CASE EnterUser
  BY <1>5 DEF EnterUser, Transmit
<1>6. CASE EnterBreak
  BY <1>6 DEF EnterBreak, Transmit
<1>7. CASE GotConnection
  BY <1>7 DEF GotConnection
<1>8. CASE CmdExtended
  BY <1>8 DEF CmdExtended, Reply, Transmit, Receive
<1>9. CASE CmdQuery
  BY <1>9 DEF CmdQuery, Reply, Transmit, Receive
<1>10. CASE CmdSetBreakpoint
  <2>1. CASE Raise("FAULT", TRUE, TRUE)
    <3>1. StackTypes'
      BY <2>1, RaiseType, Zenon
    <3>2. /\ UNCHANGED <<imageVars, endVars, modeVars, loadVars, CtrlC_enable,
                          connected, breakSent, replaced>>
          /\ UNCHANGED <<loopState, awaiting, surplus>> \/ (Transmit /\ UNCHANGED loopState)
          /\ request' = "none"
      BY <1>10 DEF CmdSetBreakpoint, Receive, Reply
    <3> QED
      BY <3>1, <3>2 DEF StackTypes, Transmit
  <2>2. CASE Reply /\ UNCHANGED excVars
    BY <1>10, <2>2 DEF CmdSetBreakpoint, Receive, Reply, Transmit
  <2> QED
    BY <1>10, <2>1, <2>2 DEF CmdSetBreakpoint
<1>11. CASE CmdKill
  BY <1>11 DEF CmdKill, Leave, Receive
<1>12. CASE CmdRestart
  BY <1>12 DEF CmdRestart, Leave, Receive
<1>13. CASE CmdRun
  <2>1. CASE inferiorState # "NOT_LOADED"
    BY <1>13, <2>1 DEF CmdRun, Reply, Transmit, Receive
  <2>2. CASE inferiorState = "NOT_LOADED"
    BY <1>13, <2>2 DEF CmdRun, Receive, Leave
  <2> QED
    BY <2>1, <2>2
<1>14. CASE CmdReportStopReason
  BY <1>14 DEF CmdReportStopReason, ReportNoInferior, ReportRunning, ReportLoaded, Transmit, Reply, Leave, Receive
<1>15. CASE CmdContinue
  BY <1>15 DEF CmdContinue, Reply, Transmit, Receive, Leave
<1>16. CASE ConnectionDropped
  BY <1>16 DEF ConnectionDropped, Leave, Receive
<1>17. CASE ExitKillLoaded
  BY <1>17 DEF ExitKillLoaded, LoopReturnPoint, UserLevel
<1>18. CASE ExitKillRunning
  BY <1>18, EndProcessType DEF ExitKillRunning
<1>19. CASE ExitKillNothing
  BY <1>19 DEF ExitKillNothing, LoopReturnPoint, UserLevel
<1>20. CASE ExitContinue
  BY <1>20 DEF ExitContinue
<1>21. CASE Continue
  BY <1>21 DEF Continue, LoopReturnPoint, UserLevel
<1>22. CASE ExitRun
  BY <1>22 DEF ExitRun, LoopReturnPoint, UserLevel
<1>23. CASE RunInferior
  BY <1>23 DEF RunInferior
<1>24. CASE EnterInferior
  BY <1>24 DEF EnterInferior
<1>25. CASE UnloadInferior
  BY <1>25 DEF UnloadInferior, LoopReturnPoint, UserLevel
<1>26. CASE ReportExit
  BY <1>26 DEF ReportExit, Transmit, LoopReturnPoint, UserLevel
<1>27. CASE ResumeInterrupted
  <2>1. /\ Top \in Frame /\ Pop \in Seq(Frame)
        /\ Top.ret = "resume" => Pop # <<>>
        /\ Pop # <<>> => Pop[1] = stack[1]
    <3>1. stack # <<>> /\ Len(stack) \in 1..Len(stack) /\ Len(stack) - 1 \in 0..Len(stack)
      BY <1>27 DEF ResumeInterrupted
    <3>2. Top \in Frame
      BY <3>1 DEF Top
    <3>3. /\ Pop \in Seq(Frame) /\ Len(Pop) = Len(stack) - 1
          /\ \A i \in 1..(Len(stack) - 1) : Pop[i] = stack[i]
      <4>1. stack \in Seq(Frame) /\ Len(stack) - 1 \in 0..Len(stack)
        BY <3>1
      <4> HIDE <1>a
      <4> QED
        BY <4>1, PrefixProperties DEF Pop
    <3>4. Pop # <<>> => Pop[1] = stack[1]
      BY <3>1, <3>3
    <3>5. Top.ret = "resume" => Pop # <<>>
      BY <3>1, <3>3 DEF Top
    <3> QED
      BY <3>2, <3>3, <3>4, <3>5
  <2> QED
    BY <1>27, <2>1 DEF ResumeInterrupted, Frame
<1>28. CASE ResumeTosHandler
  BY <1>28, EndProcessType DEF ResumeTosHandler
<1>29. CASE InferiorExits
  BY <1>29 DEF InferiorExits
<1>30. CASE StartTrap
  <2>1. StackTypes'
    <3>1. \E s \in Signals : Raise(s, FALSE, FALSE)
      BY <1>30 DEF StartTrap
    <3> QED
      BY <3>1, RaiseType, Zenon
  <2> QED
    BY <1>30, <2>1 DEF StartTrap, StackTypes
<1>31. CASE CmdQuit
  BY <1>31 DEF CmdQuit, Leave, Receive
<1>32. CASE SendBreak
  BY <1>32 DEF SendBreak
<1>33. CASE BreakLost
  BY <1>33 DEF BreakLost
<1>34. CASE Connect
  BY <1>34 DEF Connect
<1>35. CASE Disconnect
  BY <1>35 DEF Disconnect
<1>36. CASE Stopped
  BY <1>36 DEF Stopped, vars
<1>37. CASE InferiorException("TRAP", FALSE) \/ InferiorException("FAULT", TRUE)
  <2>1. StackTypes'
    <3>1. Raise("TRAP", FALSE, FALSE) \/ Raise("FAULT", TRUE, FALSE)
      BY <1>37, Zenon DEF InferiorException
    <3> QED
      BY <3>1, RaiseType, Zenon
  <2>2. UNCHANGED <<loopState, imageVars, endVars, modeVars, loadVars, CtrlC_enable,
                    gdbVars, histVars>>
    BY <1>37, Zenon DEF InferiorException
  <2> QED
    BY <2>1, <2>2 DEF StackTypes
<1>38. ASSUME NEW r \in Requests, SendRequest(r) PROVE Goal
  BY <1>38 DEF SendRequest, Expects
<1>39. ASSUME NEW text \in BOOLEAN, BreakTaken(text) PROVE Goal
  <2>1. StackTypes'
    <3>1. Raise("INT", FALSE, text)
      BY <1>39, Zenon DEF BreakTaken
    <3> QED
      BY <3>1, RaiseType, Zenon
  <2> QED
    BY <1>39, <2>1 DEF BreakTaken, StackTypes
<1>40. CASE UNCHANGED vars
  BY <1>40 DEF vars
<1> HIDE DEF Goal
<1> QED
  BY <1>1, <1>2, <1>3, <1>4, <1>5, <1>6, <1>7, <1>8, <1>9, <1>10, <1>11, <1>12, <1>13, <1>14, <1>15, <1>16, <1>17, <1>18, <1>19, <1>20, <1>21, <1>22, <1>23, <1>24, <1>25, <1>26, <1>27, <1>28, <1>29, <1>30, <1>31, <1>32, <1>33, <1>34, <1>35, <1>36, <1>37, <1>38, <1>39, <1>40
     DEF Next, Server, Command, CommandLoopExit, Inferior, Environment

\* Everything has its type in every state.
LEMMA TypeInvariance == Spec => []TypeInv
<1>1. Init => TypeInv
  BY InitTypeInv
<1>2. TypeInv /\ [Next]_vars => TypeInv'
  BY StepFlagTypes, StepDataTypes DEF TypeInv, TypeOK
<1> QED
  BY <1>1, <1>2, PTL DEF Spec

\* Every variable keeps its type, for every value of the constants: Top and Pop
\* are only used on a stack that has a frame.
THEOREM TypeCorrect == Spec => []TypeOK
<1>1. TypeInv => TypeOK
  BY DEF TypeInv
<1> QED
  BY <1>1, TypeInvariance, PTL

-----------------------------------------------------------------------------
(* Safety *)

\* Every step keeps the base page pointer, the state and GEMDOS in agreement.
LEMMA StepMemoryOwnership ==
  TypeInv /\ MemoryOwnership /\ [Next]_vars => MemoryOwnership'
<1> SUFFICES ASSUME TypeInv, MemoryOwnership, [Next]_vars PROVE MemoryOwnership'
  OBVIOUS
<1>a. /\ inferiorState \in {"NOT_LOADED", "LOADED", "RUNNING"}
      /\ inferiorBasePage \in Nat /\ loads \in Nat
  BY BoundsAssumption DEF TypeInv, TypeOK, DataTypes
<1> USE <1>a DEF MemoryOwnership
<1>1. CASE LoadSucceeds
  BY <1>1 DEF LoadSucceeds
<1>2. CASE LoadFails
  BY <1>2 DEF LoadFails
<1>3. CASE NothingToLoad
  BY <1>3 DEF NothingToLoad
<1>4. CASE LoopEnd
  BY <1>4 DEF LoopEnd
<1>5. CASE EnterUser
  BY <1>5 DEF EnterUser
<1>6. CASE EnterBreak
  BY <1>6 DEF EnterBreak
<1>7. CASE GotConnection
  BY <1>7 DEF GotConnection
<1>8. CASE CmdExtended
  BY <1>8 DEF CmdExtended, Reply, Receive
<1>9. CASE CmdQuery
  BY <1>9 DEF CmdQuery, Reply, Receive
<1>10. CASE CmdSetBreakpoint
  BY <1>10 DEF CmdSetBreakpoint, Raise, Reply, Receive
<1>11. CASE CmdKill
  BY <1>11 DEF CmdKill, Leave, Receive
<1>12. CASE CmdRestart
  BY <1>12 DEF CmdRestart, Leave, Receive
<1>13. CASE CmdRun
  BY <1>13 DEF CmdRun, Reply, Receive, Leave
<1>14. CASE CmdReportStopReason
  BY <1>14 DEF CmdReportStopReason, ReportNoInferior, ReportRunning, ReportLoaded, Reply, Leave, Receive
<1>15. CASE CmdContinue
  BY <1>15 DEF CmdContinue, Reply, Receive, Leave
<1>16. CASE ConnectionDropped
  BY <1>16 DEF ConnectionDropped, Leave, Receive
<1>17. CASE ExitKillLoaded
  BY <1>17 DEF ExitKillLoaded, LoopReturnPoint
<1>18. CASE ExitKillRunning
  BY <1>18 DEF ExitKillRunning, EndProcess
<1>19. CASE ExitKillNothing
  BY <1>19 DEF ExitKillNothing, LoopReturnPoint
<1>20. CASE ExitContinue
  BY <1>20 DEF ExitContinue
<1>21. CASE Continue
  BY <1>21 DEF Continue, LoopReturnPoint
<1>22. CASE ExitRun
  BY <1>22 DEF ExitRun, LoopReturnPoint
<1>23. CASE RunInferior
  BY <1>23 DEF RunInferior
<1>24. CASE EnterInferior
  BY <1>24 DEF EnterInferior
<1>25. CASE UnloadInferior
  BY <1>25 DEF UnloadInferior, LoopReturnPoint
<1>26. CASE ReportExit
  BY <1>26 DEF ReportExit, LoopReturnPoint
<1>27. CASE ResumeInterrupted
  BY <1>27 DEF ResumeInterrupted
<1>28. CASE ResumeTosHandler
  BY <1>28 DEF ResumeTosHandler, EndProcess
<1>29. CASE InferiorExits
  BY <1>29 DEF InferiorExits
<1>30. CASE StartTrap
  BY <1>30 DEF StartTrap, Raise
<1>31. CASE CmdQuit
  BY <1>31 DEF CmdQuit, Leave, Receive
<1>32. CASE SendBreak
  BY <1>32 DEF SendBreak
<1>33. CASE BreakLost
  BY <1>33 DEF BreakLost
<1>34. CASE Connect
  BY <1>34 DEF Connect
<1>35. CASE Disconnect
  BY <1>35 DEF Disconnect
<1>36. CASE Stopped
  BY <1>36 DEF Stopped, vars
<1>37. ASSUME NEW s, NEW hook, InferiorException(s, hook) PROVE MemoryOwnership'
  BY <1>37 DEF InferiorException, Raise
<1>38. ASSUME NEW r, SendRequest(r) PROVE MemoryOwnership'
  BY <1>38 DEF SendRequest
<1>39. ASSUME NEW text, BreakTaken(text) PROVE MemoryOwnership'
  BY <1>39, WindowsAssumption DEF BreakTaken, Raise
<1>40. CASE UNCHANGED vars
  BY <1>40 DEF vars
<1> HIDE DEF MemoryOwnership
<1> QED
  BY <1>1, <1>2, <1>3, <1>4, <1>5, <1>6, <1>7, <1>8, <1>9, <1>10, <1>11, <1>12, <1>13, <1>14, <1>15, <1>16, <1>17, <1>18, <1>19, <1>20, <1>21, <1>22, <1>23, <1>24, <1>25, <1>26, <1>27, <1>28, <1>29, <1>30, <1>31, <1>32, <1>33, <1>34, <1>35, <1>36, <1>37, <1>38, <1>39, <1>40
     DEF Next, Server, Command, CommandLoopExit, Inferior, Environment

\* No image is leaked or freed twice, and the pointer is NULL exactly while
\* nothing is loaded, in every behaviour.
THEOREM MemoryIsOwned == Spec => []MemoryOwnership
<1>1. Init => MemoryOwnership
  BY DEF Init, MemoryOwnership
<1>2. Spec => []TypeInv
  BY TypeInvariance
<1>3. TypeInv /\ MemoryOwnership /\ [Next]_vars => MemoryOwnership'
  BY StepMemoryOwnership
<1> QED
  BY <1>1, <1>2, <1>3, PTL DEF Spec
-----------------------------------------------------------------------------
\* The inductive invariant of the execution: nothing but OneExecution is needed
\* besides the types and the ownership of the image.
SafetyInv == TypeInv /\ MemoryOwnership /\ OneExecution /\ CtrlCDiscipline

Execution == OneExecution /\ CtrlCDiscipline

\* The stack behind an exception.
LEMMA RaiseStack ==
  ASSUME TypeInv, NEW s \in Signals, NEW hook \in BOOLEAN, NEW text \in BOOLEAN,
         Raise(s, hook, text)
  PROVE  /\ Len(stack) \in Nat /\ DOMAIN stack = 1..Len(stack)
         /\ Len(stack') = Len(stack) + 1 /\ DOMAIN stack' = 1..(Len(stack) + 1)
         /\ \A i \in 1..Len(stack) : stack'[i] = stack[i]
         /\ stack'[Len(stack) + 1].ret = pc
         /\ stack'[Len(stack) + 1].hook = hook
         /\ stack'[Len(stack) + 1].text = text
         /\ pc' = "enter" /\ savedBy' = Len(stack')
<1> DEFINE f == [ret |-> pc, sig |-> sig, hook |-> hook, text |-> text]
<1>1. stack \in Seq(Frame) /\ f \in Frame
  BY DEF TypeInv, TypeOK, DataTypes, Frame
<1>2. stack' = Append(stack, f)
  BY DEF Raise
<1> HIDE DEF f
<1>3. /\ Len(stack) \in Nat /\ DOMAIN stack = 1..Len(stack)
      /\ Len(stack') = Len(stack) + 1 /\ DOMAIN stack' = 1..(Len(stack) + 1)
      /\ \A i \in 1..Len(stack) : stack'[i] = stack[i]
      /\ stack'[Len(stack) + 1] = f
  BY <1>1, <1>2
<1> QED
  BY <1>3 DEF Raise, f

\* The stack behind the return from an exception, or behind the end of the
\* inferior: a proper prefix of what it was.
LEMMA PrefixStack ==
  ASSUME TypeInv, NEW n \in 1..Len(stack), stack' = SubSeq(stack, 1, n - 1)
  PROVE  /\ Len(stack) \in Nat /\ DOMAIN stack = 1..Len(stack)
         /\ Len(stack') = n - 1 /\ DOMAIN stack' = 1..(n - 1)
         /\ \A i \in 1..(n - 1) : stack'[i] = stack[i]
<1>1. stack \in Seq(Frame)
  BY DEF TypeInv, TypeOK, DataTypes
<1>2. n - 1 \in 0..Len(stack) /\ Len(stack) \in Nat
  BY <1>1
<1>3. /\ SubSeq(stack, 1, n - 1) \in Seq(Frame)
      /\ Len(SubSeq(stack, 1, n - 1)) = n - 1
      /\ \A i \in 1..(n - 1) : SubSeq(stack, 1, n - 1)[i] = stack[i]
  BY <1>1, <1>2, PrefixProperties
<1> QED
  BY <1>1, <1>2, <1>3

\* Each step preserves one execution and the discipline of Ctrl-C.
LEMMA StepExecution == SafetyInv /\ [Next]_vars => Execution'
<1> SUFFICES ASSUME SafetyInv, [Next]_vars PROVE Execution'
  OBVIOUS
<1>a. /\ inferiorState \in {"NOT_LOADED", "LOADED", "RUNNING"}
      /\ stack \in Seq(Frame) /\ Len(stack) \in Nat /\ DOMAIN stack = 1..Len(stack)
  BY DEF SafetyInv, TypeInv, TypeOK, DataTypes
<1>b. MemoryOwnership /\ Execution /\ TypeInv
  BY DEF SafetyInv, Execution
<1>c. stack = <<>> => DOMAIN stack = {}
  BY <1>a
\* What RaiseStack says, and what is not about the stack.
<1> DEFINE Raised(hook, text) ==
             /\ Len(stack') = Len(stack) + 1 /\ DOMAIN stack' = 1..(Len(stack) + 1)
             /\ \A i \in 1..Len(stack) : stack'[i] = stack[i]
             /\ stack'[Len(stack) + 1].ret = pc
             /\ stack'[Len(stack) + 1].hook = hook
             /\ stack'[Len(stack) + 1].text = text
             /\ pc' = "enter" /\ savedBy' = Len(stack')
<1>d. ASSUME NEW s \in Signals, NEW hook \in BOOLEAN, NEW text \in BOOLEAN,
             Raise(s, hook, text)
      PROVE  Raised(hook, text)
  BY <1>b, <1>d, RaiseStack
<1>e. ASSUME NEW text \in BOOLEAN, BreakTaken(text)
      PROVE  /\ pc = "inferior" \/ (pc \in Windows /\ (text \/ pc \in TosPoints))
             /\ CtrlC_enable /\ CtrlC_enable' = FALSE
             /\ UNCHANGED <<imageVars, replaced>>
  <2>1. pc = "inferior" \/ (pc \in Windows /\ (text \/ pc \in TosPoints))
    BY <1>e, Zenon DEF BreakTaken
  <2>2. CtrlC_enable /\ CtrlC_enable' = FALSE
    BY <1>e, Zenon DEF BreakTaken
  <2>3. UNCHANGED <<imageVars, replaced>>
    BY <1>e DEF BreakTaken
  <2> QED
    BY <2>1, <2>2, <2>3, Zenon
<1> USE <1>a, <1>b DEF MemoryOwnership, Execution, OneExecution, OneActivation,
        ActiveIsRunning, PreRunIsKilled, HandlersAreLeft, ReturnsAttentive,
        CtrlCDiscipline, RunPoints
<1>1. CASE LoadSucceeds
  BY <1>1 DEF LoadSucceeds
<1>2. CASE LoadFails
  BY <1>2 DEF LoadFails
<1>3. CASE NothingToLoad
  BY <1>3 DEF NothingToLoad
<1>4. CASE LoopEnd
  BY <1>4 DEF LoopEnd
<1>5. CASE EnterUser
  BY <1>5 DEF EnterUser, UserLevel
<1>6. CASE EnterBreak
  BY <1>6 DEF EnterBreak, Top, UserLevel
<1>7. CASE GotConnection
  BY <1>7 DEF GotConnection
<1>8. CASE CmdExtended
  BY <1>8 DEF CmdExtended, Reply, Receive
<1>9. CASE CmdQuery
  BY <1>9 DEF CmdQuery, Reply, Receive
<1>10. CASE CmdSetBreakpoint
  <2>1. CASE Raise("FAULT", TRUE, TRUE)
    <3>1. Raised(TRUE, TRUE)
      BY <1>d, <2>1 DEF Signals
    <3>2. UNCHANGED <<imageVars, CtrlC_enable, replaced>> /\ pc = "receive"
      BY <1>10 DEF CmdSetBreakpoint, Receive
    <3> QED
      BY <3>1, <3>2
  <2>2. CASE Reply /\ UNCHANGED excVars
    BY <1>10, <2>2 DEF CmdSetBreakpoint, Reply, Receive
  <2> QED
    BY <1>10, <2>1, <2>2 DEF CmdSetBreakpoint
<1>11. CASE CmdKill
  BY <1>11 DEF CmdKill, Leave, Receive
<1>12. CASE CmdRestart
  BY <1>12 DEF CmdRestart, Leave, Receive
<1>13. CASE CmdRun
  BY <1>13 DEF CmdRun, Reply, Receive, Leave
<1>14. CASE CmdReportStopReason
  BY <1>14 DEF CmdReportStopReason, ReportNoInferior, ReportRunning, ReportLoaded, Reply, Leave, Receive
<1>15. CASE CmdContinue
  BY <1>15 DEF CmdContinue, Reply, Receive, Leave
<1>16. CASE ConnectionDropped
  BY <1>16 DEF ConnectionDropped, Leave, Receive
<1>17. CASE ExitKillLoaded
  BY <1>17, <1>c DEF ExitKillLoaded, LoopReturnPoint, UserLevel
<1>18. CASE ExitKillRunning
  <2>1. ASSUME NEW i \in InferiorFrames,
               pc' = "unload", stack' = SubSeq(stack, 1, i - 1), UNCHANGED heap
        PROVE  Execution'
    <3>1. /\ Len(stack') = i - 1 /\ DOMAIN stack' = 1..(i - 1) /\ i \in 1..Len(stack)
          /\ \A j \in 1..(i - 1) : stack'[j] = stack[j] /\ i # j
      BY <2>1, PrefixStack DEF InferiorFrames
    <3>2. stack[i].ret = "inferior"
      BY DEF InferiorFrames
    <3> QED
      BY <1>18, <2>1, <3>1, <3>2 DEF ExitKillRunning
  <2>2. ASSUME pc' = "dead", UNCHANGED <<stack, sig>> PROVE Execution'
    BY <1>18, <2>2, <1>c DEF ExitKillRunning, Top
  <2> QED
    BY <1>18, <2>1, <2>2 DEF ExitKillRunning, EndProcess
<1>19. CASE ExitKillNothing
  BY <1>19, <1>c DEF ExitKillNothing, LoopReturnPoint, UserLevel
<1>20. CASE ExitContinue
  BY <1>20 DEF ExitContinue
<1>21. CASE Continue
  BY <1>21 DEF Continue, LoopReturnPoint
<1>22. CASE ExitRun
  BY <1>22 DEF ExitRun, LoopReturnPoint
<1>23. CASE RunInferior
  BY <1>23 DEF RunInferior
<1>24. CASE EnterInferior
  BY <1>24 DEF EnterInferior
<1>25. CASE UnloadInferior
  BY <1>25 DEF UnloadInferior, LoopReturnPoint
<1>26. CASE ReportExit
  BY <1>26 DEF ReportExit, LoopReturnPoint
<1>27. CASE ResumeInterrupted
  <2>1. stack # <<>> /\ Len(stack) \in 1..Len(stack)
    BY <1>27 DEF TypeInv, ResumeInv, ResumeInterrupted
  <2>2. CASE savedBy = Len(stack)
    <3>1. /\ Len(stack') = Len(stack) - 1 /\ DOMAIN stack' = 1..(Len(stack) - 1)
          /\ \A j \in 1..(Len(stack) - 1) : stack'[j] = stack[j]
      BY <1>27, <2>1, <2>2, PrefixStack DEF ResumeInterrupted, Pop
    <3>2. /\ pc = "resume" /\ pc' = Top.ret /\ ~(Top.hook /\ Top.text)
          /\ UNCHANGED <<savedBy, loopState, imageVars, CtrlC_enable, histVars>>
      BY <1>27, <2>2 DEF ResumeInterrupted
    <3> QED
      BY <2>1, <3>1, <3>2 DEF Top
  <2>3. CASE savedBy # Len(stack)
    BY <1>27, <2>3 DEF ResumeInterrupted
  <2> QED
    BY <2>2, <2>3
<1>28. CASE ResumeTosHandler
  <2>1. ASSUME NEW i \in InferiorFrames,
               pc' = "unload", stack' = SubSeq(stack, 1, i - 1), UNCHANGED heap
        PROVE  Execution'
    <3>1. /\ Len(stack') = i - 1 /\ DOMAIN stack' = 1..(i - 1) /\ i \in 1..Len(stack)
          /\ \A j \in 1..(i - 1) : stack'[j] = stack[j] /\ i # j
      BY <2>1, PrefixStack DEF InferiorFrames
    <3>2. stack[i].ret = "inferior"
      BY DEF InferiorFrames
    <3> QED
      BY <1>28, <2>1, <3>1, <3>2 DEF ResumeTosHandler
  <2>2. ASSUME pc' = "dead", UNCHANGED <<stack, sig>> PROVE Execution'
    BY <1>28, <2>2, <1>c DEF ResumeTosHandler, Top
  <2> QED
    BY <1>28, <2>1, <2>2 DEF ResumeTosHandler, EndProcess
<1>29. CASE InferiorExits
  BY <1>29 DEF InferiorExits
<1>30. CASE StartTrap
  <2>1. Raised(FALSE, FALSE)
    BY <1>30, <1>d DEF StartTrap, Signals
  <2>2. pc = "inferior"
        /\ UNCHANGED <<inferiorState, inferiorBasePage, heap, CtrlC_enable, histVars>>
    BY <1>30 DEF StartTrap
  <2> QED
    BY <2>1, <2>2
<1>31. CASE CmdQuit
  BY <1>31 DEF CmdQuit, Leave, Receive
<1>32. CASE SendBreak
  BY <1>32 DEF SendBreak
<1>33. CASE BreakLost
  BY <1>33 DEF BreakLost
<1>34. CASE Connect
  BY <1>34 DEF Connect
<1>35. CASE Disconnect
  BY <1>35 DEF Disconnect
<1>36. CASE Stopped
  BY <1>36 DEF Stopped, vars
<1>37. CASE InferiorException("TRAP", FALSE) \/ InferiorException("FAULT", TRUE)
  <2>1. \E hook \in BOOLEAN : Raised(hook, FALSE)
    BY <1>37, <1>d DEF InferiorException, Signals
  <2>2. pc = "inferior" /\ UNCHANGED <<imageVars, CtrlC_enable, histVars>>
    BY <1>37 DEF InferiorException
  <2> QED
    BY <2>1, <2>2
<1>38. ASSUME NEW r, SendRequest(r) PROVE Execution'
  BY <1>38 DEF SendRequest
<1>39. ASSUME NEW text \in BOOLEAN, BreakTaken(text) PROVE Execution'
  <2>1. Raised(FALSE, text)
    BY <1>39, <1>d DEF BreakTaken, Signals
  <2>2. ~stack'[Len(stack) + 1].hook /\ (text => stack'[Len(stack) + 1].text)
    BY <2>1, Zenon
  <2>3. \A i \in 1..Len(stack) : stack[i].ret # "pre_run"
    BY <1>39, <1>e
  <2>4. ~CtrlC_enable' /\ pc # "receive" /\ pc # "wait" /\ pc # "exit"
        /\ (pc = "pre_run" => text)
    BY <1>39, <1>e, WindowsAssumption DEF TosPoints
  <2>5. UNCHANGED <<imageVars, replaced>>
    BY <1>39, <1>e
  <2>6. OneActivation' /\ ActiveIsRunning'
    BY <2>1, <2>5
  <2>7. PreRunIsKilled'
    BY <2>1, <2>2, <2>3, <2>4, <2>5
  <2> QED
    BY <2>1, <2>4, <2>5, <2>6, <2>7
<1>40. CASE UNCHANGED vars
  BY <1>40 DEF vars
<1> HIDE DEF Execution
<1> QED
  BY <1>1, <1>2, <1>3, <1>4, <1>5, <1>6, <1>7, <1>8, <1>9, <1>10, <1>11, <1>12, <1>13, <1>14, <1>15, <1>16, <1>17, <1>18, <1>19, <1>20, <1>21, <1>22, <1>23, <1>24, <1>25, <1>26, <1>27, <1>28, <1>29, <1>30, <1>31, <1>32, <1>33, <1>34, <1>35, <1>36, <1>37, <1>38, <1>39, <1>40
     DEF Next, Server, Command, CommandLoopExit, Inferior, Environment

\* Each step preserves the inductive invariant.
LEMMA StepSafety == SafetyInv /\ [Next]_vars => SafetyInv'
BY StepFlagTypes, StepDataTypes, StepMemoryOwnership, StepExecution
DEF SafetyInv, Execution, TypeInv, TypeOK

\* The inductive invariant holds in every state.
LEMMA SafetyInvariance == Spec => []SafetyInv
<1>1. Init => SafetyInv
  <2> SUFFICES ASSUME Init PROVE SafetyInv
    OBVIOUS
  <2>1. MemoryOwnership
    BY DEF Init, MemoryOwnership
  <2>2. OneExecution
    <3>1. DOMAIN stack = {} /\ pc = "load"
      BY DEF Init
    <3> QED
      BY <3>1 DEF OneExecution, OneActivation, ActiveIsRunning, PreRunIsKilled,
                  HandlersAreLeft, ReturnsAttentive, RunPoints
  <2>3. CtrlCDiscipline
    BY DEF Init, CtrlCDiscipline
  <2> QED
    BY InitTypeInv, <2>1, <2>2, <2>3 DEF SafetyInv
<1> QED
  BY <1>1, StepSafety, PTL DEF Spec

\* One Pexec at a time, whatever is interrupted by what.
THEOREM OneExecutionHolds == Spec => []OneExecution
<1>1. SafetyInv => OneExecution
  BY DEF SafetyInv
<1> QED
  BY <1>1, SafetyInvariance, PTL

\* The inferior never executes deaf to Ctrl-C, a command loop never listens to it.
THEOREM CtrlCIsDisciplined == Spec => []CtrlCDiscipline
<1>1. SafetyInv => CtrlCDiscipline
  BY DEF SafetyInv
<1> QED
  BY <1>1, SafetyInvariance, PTL
-----------------------------------------------------------------------------
\* Below all exceptions the server's own execution is where SessionInvariants
\* says: MainThread is preserved, given the safety properties proved above.
LEMMA StepMainThread ==
  SafetyInv /\ MainThread /\ [Next]_vars => MainThread'
<1> SUFFICES ASSUME SafetyInv, MainThread, [Next]_vars PROVE MainThread'
  OBVIOUS
<1>a. /\ inferiorState \in {"NOT_LOADED", "LOADED", "RUNNING"}
      /\ stack \in Seq(Frame) /\ Len(stack) \in Nat /\ DOMAIN stack = 1..Len(stack)
      /\ UserLevel <=> Len(stack) = 0
  BY DEF SafetyInv, TypeInv, TypeOK, DataTypes, UserLevel
<1>b. /\ MemoryOwnership /\ OneActivation /\ ActiveIsRunning /\ PreRunIsKilled
      /\ HandlersAreLeft /\ TypeInv
  BY DEF SafetyInv, OneExecution
\* Two steps that leave the stack alone or replace it, seen from MainThread.
<1> DEFINE Raised(hook, text) ==
             /\ Len(stack') = Len(stack) + 1 /\ DOMAIN stack' = 1..(Len(stack) + 1)
             /\ \A i \in 1..Len(stack) : stack'[i] = stack[i]
             /\ stack'[Len(stack) + 1].ret = pc
             /\ stack'[Len(stack) + 1].hook = hook
             /\ stack'[Len(stack) + 1].text = text
             /\ pc' = "enter" /\ savedBy' = Len(stack')
             /\ stack' # <<>>
<1>d. ASSUME NEW s \in Signals, NEW hook \in BOOLEAN, NEW text \in BOOLEAN,
             Raise(s, hook, text)
      PROVE  Raised(hook, text)
  BY <1>b, <1>d, RaiseStack
<1> USE <1>a, <1>b DEF MemoryOwnership, OneActivation, ActiveIsRunning, PreRunIsKilled,
        HandlersAreLeft, RunPoints, MainThread, MainPoint, Given, MainIsUserLevel,
        GivenUp, LoadedIsKilled, RunningIsMain, StrayIsGivenUp, NestedListens,
        RunIsUndisturbed
<1>1. CASE LoadSucceeds
  BY <1>1 DEF LoadSucceeds, UserLevel, Top
<1>2. CASE LoadFails
  BY <1>2 DEF LoadFails, UserLevel, Top
<1>3. CASE NothingToLoad
  BY <1>3 DEF NothingToLoad, UserLevel, Top
<1>4. CASE LoopEnd
  BY <1>4 DEF LoopEnd, UserLevel, Top
<1>5. CASE EnterUser
  BY <1>5 DEF EnterUser, UserLevel, Top
<1>6. CASE EnterBreak
  BY <1>6 DEF EnterBreak, UserLevel, Top
<1>7. CASE GotConnection
  BY <1>7 DEF GotConnection, UserLevel, Top
<1>8. CASE CmdExtended
  BY <1>8 DEF CmdExtended, Reply, Receive, UserLevel, Top
<1>9. CASE CmdQuery
  BY <1>9 DEF CmdQuery, Reply, Receive, UserLevel, Top
<1>10. CASE CmdSetBreakpoint
  <2>1. CASE Raise("FAULT", TRUE, TRUE)
    <3>1. Raised(TRUE, TRUE)
      BY <1>d, <2>1 DEF Signals
    <3>2. /\ UNCHANGED <<imageVars, CtrlC_enable, replaced>> /\ pc = "receive"
          /\ inferiorState = "NOT_LOADED" /\ UserLevel
      BY <1>10, <3>1 DEF CmdSetBreakpoint, Receive, Reply
    <3> QED
      BY <3>1, <3>2 DEF UserLevel, Top
  <2>2. CASE Reply /\ UNCHANGED excVars
    BY <1>10, <2>2 DEF CmdSetBreakpoint, Reply, Receive, UserLevel, Top
  <2> QED
    BY <1>10, <2>1, <2>2 DEF CmdSetBreakpoint
<1>11. CASE CmdKill
  BY <1>11 DEF CmdKill, Leave, Receive, UserLevel, Top
<1>12. CASE CmdRestart
  BY <1>12 DEF CmdRestart, Leave, Receive, UserLevel, Top
<1>13. CASE CmdRun
  BY <1>13 DEF CmdRun, Reply, Receive, Leave, UserLevel, Top
<1>14. CASE CmdReportStopReason
  BY <1>14 DEF CmdReportStopReason, ReportNoInferior, ReportRunning, ReportLoaded, Reply, Leave, Receive, UserLevel, Top
<1>15. CASE CmdContinue
  BY <1>15 DEF CmdContinue, Reply, Receive, Leave, UserLevel, Top
<1>16. CASE ConnectionDropped
  BY <1>16 DEF ConnectionDropped, Leave, UserLevel, Top
<1>17. CASE ExitKillLoaded
  BY <1>17 DEF ExitKillLoaded, LoopReturnPoint, UserLevel, Top
<1>18. CASE ExitKillRunning
  <2>1. ASSUME NEW i \in InferiorFrames,
               pc' = "unload", stack' = SubSeq(stack, 1, i - 1), UNCHANGED heap
        PROVE  MainThread'
    <3>1. /\ Len(stack') = i - 1 /\ DOMAIN stack' = 1..(i - 1) /\ i \in 1..Len(stack)
          /\ \A j \in 1..(i - 1) : stack'[j] = stack[j] /\ i # j
      BY <2>1, PrefixStack DEF InferiorFrames
    <3>2. stack[i].ret = "inferior"
      BY DEF InferiorFrames
    <3> QED
      BY <1>18, <2>1, <3>1, <3>2 DEF ExitKillRunning, UserLevel, Top
  <2>2. ASSUME pc' = "dead", UNCHANGED <<stack, sig>> PROVE MainThread'
    BY <1>18, <2>2 DEF ExitKillRunning, UserLevel, Top
  <2> QED
    BY <1>18, <2>1, <2>2 DEF ExitKillRunning, EndProcess
<1>19. CASE ExitKillNothing
  BY <1>19 DEF ExitKillNothing, LoopReturnPoint, UserLevel, Top
<1>20. CASE ExitContinue
  BY <1>20 DEF ExitContinue, UserLevel, Top
<1>21. CASE Continue
  BY <1>21 DEF Continue, LoopReturnPoint, UserLevel, Top
<1>22. CASE ExitRun
  BY <1>22 DEF ExitRun, LoopReturnPoint, UserLevel, Top
<1>23. CASE RunInferior
  BY <1>23 DEF RunInferior, UserLevel, Top
<1>24. CASE EnterInferior
  BY <1>24 DEF EnterInferior, UserLevel, Top
<1>25. CASE UnloadInferior
  BY <1>25 DEF UnloadInferior, LoopReturnPoint, UserLevel, Top
<1>26. CASE ReportExit
  BY <1>26 DEF ReportExit, LoopReturnPoint, UserLevel, Top
<1>27. CASE ResumeInterrupted
  <2>1. stack # <<>> /\ Len(stack) \in 1..Len(stack)
    BY <1>27 DEF TypeInv, ResumeInv, ResumeInterrupted
  <2>2. CASE savedBy = Len(stack)
    <3>1. /\ Len(stack') = Len(stack) - 1 /\ DOMAIN stack' = 1..(Len(stack) - 1)
          /\ \A j \in 1..(Len(stack) - 1) : stack'[j] = stack[j]
      BY <1>27, <2>1, <2>2, PrefixStack DEF ResumeInterrupted, Pop
    <3>3. stack' = <<>> <=> Len(stack) = 1
      <4>1. stack' \in Seq(Frame)
        BY <1>27, <2>1, <2>2, PrefixProperties DEF ResumeInterrupted, Pop
      <4> QED
        BY <3>1, <4>1, <2>1
    <3>2. /\ pc = "resume" /\ pc' = Top.ret /\ ~(Top.hook /\ Top.text)
          /\ UNCHANGED <<savedBy, loopState, imageVars, CtrlC_enable, histVars>>
      BY <1>27, <2>2 DEF ResumeInterrupted
    <3>4. MainIsUserLevel' /\ StrayIsGivenUp' /\ RunIsUndisturbed'
      BY <2>1, <3>1, <3>2, <3>3 DEF Top, UserLevel
    <3>5. GivenUp'
      BY <2>1, <3>1, <3>2, <3>3 DEF Top, UserLevel
    <3>6. LoadedIsKilled'
      BY <2>1, <3>1, <3>2, <3>3 DEF Top, UserLevel
    <3>7. RunningIsMain'
      BY <2>1, <3>1, <3>2, <3>3 DEF Top, UserLevel
    <3>8. NestedListens'
      BY <2>1, <3>1, <3>2, <3>3 DEF Top, UserLevel
    <3> QED
      BY <3>4, <3>5, <3>6, <3>7, <3>8
  <2>3. CASE savedBy # Len(stack)
    BY <1>27, <2>3 DEF ResumeInterrupted, Top, UserLevel
  <2> QED
    BY <2>2, <2>3
<1>28. CASE ResumeTosHandler
  <2>1. ASSUME NEW i \in InferiorFrames,
               pc' = "unload", stack' = SubSeq(stack, 1, i - 1), UNCHANGED heap
        PROVE  MainThread'
    <3>1. /\ Len(stack') = i - 1 /\ DOMAIN stack' = 1..(i - 1) /\ i \in 1..Len(stack)
          /\ \A j \in 1..(i - 1) : stack'[j] = stack[j] /\ i # j
      BY <2>1, PrefixStack DEF InferiorFrames
    <3>2. stack[i].ret = "inferior"
      BY DEF InferiorFrames
    <3> QED
      BY <1>28, <2>1, <3>1, <3>2 DEF ResumeTosHandler, UserLevel, Top
  <2>2. ASSUME pc' = "dead", UNCHANGED <<stack, sig>> PROVE MainThread'
    BY <1>28, <2>2 DEF ResumeTosHandler, UserLevel, Top
  <2> QED
    BY <1>28, <2>1, <2>2 DEF ResumeTosHandler, EndProcess
<1>29. CASE InferiorExits
  BY <1>29 DEF InferiorExits, UserLevel, Top
<1>30. CASE StartTrap
  <2>1. Raised(FALSE, FALSE)
    BY <1>30, <1>d DEF StartTrap, Signals
  <2>2. pc = "inferior" /\ startBreak' \in {startBreak, "gone"}
        /\ UNCHANGED <<inferiorState, inferiorBasePage, heap, CtrlC_enable, histVars>>
    BY <1>30 DEF StartTrap
  <2> QED
    BY <2>1, <2>2 DEF UserLevel, Top
<1>31. CASE CmdQuit
  BY <1>31 DEF CmdQuit, Leave, UserLevel, Top
<1>32. CASE SendBreak
  BY <1>32 DEF SendBreak, UserLevel, Top
<1>33. CASE BreakLost
  BY <1>33 DEF BreakLost, UserLevel, Top
<1>34. CASE Connect
  BY <1>34 DEF Connect, UserLevel, Top
<1>35. CASE Disconnect
  BY <1>35 DEF Disconnect, UserLevel, Top
<1>36. CASE Stopped
  BY <1>36 DEF Stopped, vars, UserLevel, Top
<1>37. CASE InferiorException("TRAP", FALSE) \/ InferiorException("FAULT", TRUE)
  <2>1. \E hook \in BOOLEAN : Raised(hook, FALSE)
    BY <1>37, <1>d DEF InferiorException, Signals
  <2>2. pc = "inferior" /\ UNCHANGED <<imageVars, CtrlC_enable, histVars>>
    BY <1>37 DEF InferiorException
  <2> QED
    BY <2>1, <2>2 DEF UserLevel, Top
<1>38. ASSUME NEW r, SendRequest(r) PROVE MainThread'
  BY <1>38 DEF SendRequest, UserLevel, Top
<1>39. ASSUME NEW text \in BOOLEAN, BreakTaken(text) PROVE MainThread'
  <2>1. Raised(FALSE, text)
    BY <1>39, <1>d DEF BreakTaken, Signals
  <2>2. CtrlC_enable /\ ~CtrlC_enable'
    BY <1>39, Zenon DEF BreakTaken
  <2>3. pc = "inferior" \/ (pc \in Windows /\ (text \/ pc \in TosPoints))
    BY <1>39, Zenon DEF BreakTaken
  <2>4. UNCHANGED <<imageVars, replaced>>
    BY <1>39 DEF BreakTaken
  <2> QED
    BY <2>1, <2>2, <2>3, <2>4, WindowsAssumption DEF TosPoints, UserLevel, Top
<1>40. CASE UNCHANGED vars
  BY <1>40 DEF vars, UserLevel, Top
<1> HIDE DEF MainThread
<1> QED
  BY <1>1, <1>2, <1>3, <1>4, <1>5, <1>6, <1>7, <1>8, <1>9, <1>10, <1>11, <1>12, <1>13, <1>14, <1>15, <1>16, <1>17, <1>18, <1>19, <1>20, <1>21, <1>22, <1>23, <1>24, <1>25, <1>26, <1>27, <1>28, <1>29, <1>30, <1>31, <1>32, <1>33, <1>34, <1>35, <1>36, <1>37, <1>38, <1>39, <1>40
     DEF Next, Server, Command, CommandLoopExit, Inferior, Environment

\* What is true of the main thread while nothing is suspended holds in every state.
LEMMA MainThreadInvariance == Spec => [](SafetyInv /\ MainThread)
<1>1. Init => MainThread
  <2> SUFFICES ASSUME Init PROVE MainThread
    OBVIOUS
  <2>1. DOMAIN stack = {} /\ UserLevel /\ pc = "load"
        /\ inferiorState = "NOT_LOADED" /\ inferiorBasePage = 0 /\ startBreak = "gone"
    BY DEF Init, UserLevel
  <2> QED
    BY <2>1 DEF MainThread, MainPoint, Given, MainIsUserLevel, GivenUp, LoadedIsKilled,
                RunningIsMain, StrayIsGivenUp, NestedListens, RunIsUndisturbed
<1>2. SafetyInv /\ MainThread /\ [Next]_vars => MainThread'
  BY StepMainThread
<1> QED
  BY <1>1, <1>2, SafetyInvariance, PTL DEF Spec

\* Whatever was interrupted, killed or dropped, the server leaves its loop with
\* no image in memory but one that gdb asked to restart.
THEOREM ServerExitsClean == Spec => []CleanExit
<1>1. SafetyInv /\ MainThread => CleanExit
  BY DEF SafetyInv, MainThread, MemoryOwnership, MainIsUserLevel, GivenUp, MainPoint,
         Given, CleanExit
<1> QED
  BY <1>1, MainThreadInvariance, PTL

\* The inferior meets no start breakpoint that the table has forgotten.
THEOREM StartBreakIsKnown == Spec => []StartBreakKnown
<1>1. MainThread => StartBreakKnown
  BY DEF MainThread, StrayIsGivenUp, StartBreakKnown
<1> QED
  BY <1>1, MainThreadInvariance, PTL

\* Unless a Ctrl-C is taken while an exit is reported, a command loop called
\* from an exception has an inferior to speak about.
THEOREM BreakHasInferior ==
  ASSUME "report" \notin Windows PROVE Spec => []BreakMeansExecuting
<1>1. SafetyInv /\ MainThread => BreakMeansExecuting
  <2> SUFFICES ASSUME SafetyInv, MainThread, pc \in {"wait", "receive"}, ~UserLevel
               PROVE  inferiorState = "RUNNING"
    BY DEF BreakMeansExecuting
  <2>1. Len(stack) \in DOMAIN stack
    BY DEF SafetyInv, TypeInv, TypeOK, DataTypes, UserLevel
  <2>2. stack[Len(stack)].ret \in {"pexec", "inferior", "unload"}
    BY DEF MainThread, NestedListens, Top
  <2> QED
    BY <2>1, <2>2 DEF SafetyInv, OneExecution, ActiveIsRunning
<1> QED
  BY <1>1, MainThreadInvariance, PTL
-----------------------------------------------------------------------------
\* A step maps to one of the life cycle, or to a stutter.
LEMMA StepLifecycle ==
  ASSUME Windows \cap {"pre_run", "pexec", "unload"} = {}
  PROVE  SafetyInv /\ MainThread /\ [Next]_vars => [Lifecycle!Next]_(Lifecycle!vars)
<1> DEFINE Goal == [Lifecycle!Next]_(Lifecycle!vars)
<1> SUFFICES ASSUME SafetyInv, MainThread, [Next]_vars PROVE Goal
  OBVIOUS
<1>a. /\ inferiorState \in {"NOT_LOADED", "LOADED", "RUNNING"}
      /\ inferiorBasePage \in Nat /\ loads \in Nat /\ stack \in Seq(Frame)
      /\ MemoryOwnership
  BY BoundsAssumption DEF SafetyInv, TypeInv, TypeOK, DataTypes
<1>b. UNCHANGED <<inferiorState, inferiorBasePage, heap>> => Goal
  BY DEF Lifecycle!vars
<1>1. CASE LoadSucceeds
  <2>1. Lifecycle!Load
    BY <1>1, <1>a DEF LoadSucceeds, Lifecycle!Load
  <2> QED
    BY <2>1 DEF Lifecycle!Next
<1>2. CASE RunInferior
  <2>1. inferiorState = "LOADED"
    BY <1>2 DEF RunInferior, MainThread, RunIsUndisturbed
  <2>2. Lifecycle!Start
    BY <1>2, <2>1 DEF RunInferior, Lifecycle!Start
  <2> QED
    BY <2>2 DEF Lifecycle!Next
<1>3. CASE ExitKillLoaded
  <2>1. Lifecycle!Unload
    BY <1>3 DEF ExitKillLoaded, Lifecycle!Unload
  <2> QED
    BY <2>1 DEF Lifecycle!Next
<1>4. CASE UnloadInferior
  <2>1. inferiorState = "RUNNING"
    BY <1>4 DEF UnloadInferior, SafetyInv, OneExecution, ActiveIsRunning
  <2>2. Lifecycle!Unload
    BY <1>4, <2>1 DEF UnloadInferior, Lifecycle!Unload
  <2> QED
    BY <2>2 DEF Lifecycle!Next
\* A load that fails finds no image, or leaves the one there is.
<1>5. CASE LoadFails
  <2>1. UNCHANGED <<inferiorState, inferiorBasePage, heap>>
    BY <1>5, <1>a DEF LoadFails, MemoryOwnership
  <2> QED
    BY <1>b, <2>1
\* GEMDOS ends the server only when no image is left: a RUNNING one is executed
\* below the exception, and would have been ended instead.
<1>6. ASSUME EndProcess, pc \in {"exit", "resume"}, inferiorState # "LOADED",
             UNCHANGED <<inferiorState, inferiorBasePage>>
      PROVE  Goal
  <2>1. CASE UNCHANGED heap
    BY <1>6, <1>b, <2>1
  <2>2. CASE ~InferiorIsProcess /\ heap' = {}
    <3>1. ASSUME inferiorState = "RUNNING" PROVE FALSE
      <4>1. MainPoint \in {"pexec", "inferior", "unload"} /\ ~UserLevel
        BY <1>6, <3>1 DEF MainThread, RunningIsMain, MainPoint, UserLevel
      <4>2. 1 \in DOMAIN stack /\ stack[1].ret \in {"pexec", "inferior", "unload"}
        BY <4>1, <1>a DEF MainPoint, UserLevel
      <4>3. stack[1].ret = "inferior"
        BY <4>2 DEF MainThread, RunIsUndisturbed
      <4> QED
        BY <2>2, <4>2, <4>3 DEF InferiorIsProcess, InferiorFrames
    <3>2. heap = {}
      BY <1>6, <1>a, <3>1 DEF MemoryOwnership
    <3> QED
      BY <1>6, <1>b, <2>2, <3>2
  <2> QED
    BY <1>6, <2>1, <2>2 DEF EndProcess
<1>7. CASE ExitKillRunning
  <2>1. EndProcess /\ pc = "exit" /\ inferiorState # "LOADED"
        /\ UNCHANGED <<inferiorState, inferiorBasePage>>
    BY <1>7, Zenon DEF ExitKillRunning
  <2> QED
    BY <1>6, <2>1
<1>8. CASE ResumeTosHandler
  <2>1. EndProcess /\ pc = "resume" /\ UNCHANGED <<inferiorState, inferiorBasePage>>
    BY <1>8, Zenon DEF ResumeTosHandler
  <2>2. inferiorState # "LOADED"
    BY <2>1 DEF SafetyInv, TypeInv, ResumeInv, UserLevel, MainThread, LoadedIsKilled
  <2> QED
    BY <1>6, <2>1, <2>2
<1>9. CASE NothingToLoad
  BY <1>9, <1>b DEF NothingToLoad
<1>10. CASE LoopEnd
  BY <1>10, <1>b DEF LoopEnd
<1>11. CASE EnterUser
  BY <1>11, <1>b DEF EnterUser
<1>12. CASE EnterBreak
  BY <1>12, <1>b DEF EnterBreak
<1>13. CASE GotConnection
  BY <1>13, <1>b DEF GotConnection
<1>14. CASE CmdExtended
  BY <1>14, <1>b DEF CmdExtended
<1>15. CASE CmdQuery
  BY <1>15, <1>b DEF CmdQuery
<1>16. CASE CmdSetBreakpoint
  BY <1>16, <1>b DEF CmdSetBreakpoint
<1>17. CASE CmdKill
  BY <1>17, <1>b DEF CmdKill
<1>18. CASE CmdRestart
  BY <1>18, <1>b DEF CmdRestart
<1>19. CASE CmdRun
  BY <1>19, <1>b DEF CmdRun
<1>20. CASE CmdReportStopReason
  BY <1>20, <1>b DEF CmdReportStopReason
<1>21. CASE CmdContinue
  BY <1>21, <1>b DEF CmdContinue
<1>22. CASE ConnectionDropped
  BY <1>22, <1>b DEF ConnectionDropped
<1>23. CASE ExitKillNothing
  BY <1>23, <1>b DEF ExitKillNothing
<1>24. CASE ExitContinue
  BY <1>24, <1>b DEF ExitContinue
<1>25. CASE Continue
  BY <1>25, <1>b DEF Continue
<1>26. CASE ExitRun
  BY <1>26, <1>b DEF ExitRun
<1>27. CASE EnterInferior
  BY <1>27, <1>b DEF EnterInferior
<1>28. CASE ReportExit
  BY <1>28, <1>b DEF ReportExit
<1>29. CASE ResumeInterrupted
  BY <1>29, <1>b DEF ResumeInterrupted
<1>30. CASE InferiorExits
  BY <1>30, <1>b DEF InferiorExits
<1>31. CASE StartTrap
  BY <1>31, <1>b DEF StartTrap
<1>32. CASE CmdQuit
  BY <1>32, <1>b DEF CmdQuit
<1>33. CASE SendBreak
  BY <1>33, <1>b DEF SendBreak
<1>34. CASE BreakLost
  BY <1>34, <1>b DEF BreakLost
<1>35. CASE Connect
  BY <1>35, <1>b DEF Connect
<1>36. CASE Disconnect
  BY <1>36, <1>b DEF Disconnect
<1>37. CASE Stopped
  BY <1>37, <1>b DEF Stopped, vars
<1>38. ASSUME NEW s, NEW hook, InferiorException(s, hook) PROVE Goal
  BY <1>38, <1>b DEF InferiorException
<1>39. ASSUME NEW r, SendRequest(r) PROVE Goal
  BY <1>39, <1>b DEF SendRequest
<1>40. ASSUME NEW text, BreakTaken(text) PROVE Goal
  BY <1>40, <1>b DEF BreakTaken
<1>41. CASE UNCHANGED vars
  BY <1>41, <1>b DEF vars
<1> HIDE DEF Goal
<1> QED
  BY <1>1, <1>2, <1>3, <1>4, <1>5, <1>6, <1>7, <1>8, <1>9, <1>10, <1>11, <1>12, <1>13, <1>14, <1>15, <1>16, <1>17, <1>18, <1>19, <1>20, <1>21, <1>22, <1>23, <1>24, <1>25, <1>26, <1>27, <1>28, <1>29, <1>30, <1>31, <1>32, <1>33, <1>34, <1>35, <1>36, <1>37, <1>38, <1>39, <1>40, <1>41
     DEF Next, Server, Command, CommandLoopExit, Inferior, Environment

\* Unless a Ctrl-C is taken inside RunInferior itself, every image is loaded,
\* started once and unloaded as InferiorLifecycle says.
THEOREM SessionImplementsLifecycle ==
  ASSUME Windows \cap {"pre_run", "pexec", "unload"} = {}
  PROVE  Spec => ImplementsLifecycle
<1>1. Init => Lifecycle!Init
  BY DEF Init, Lifecycle!Init
<1>2. SafetyInv /\ MainThread /\ [Next]_vars => [Lifecycle!Next]_(Lifecycle!vars)
  BY StepLifecycle
<1> QED
  BY <1>1, <1>2, MainThreadInvariance, PTL DEF Spec, ImplementsLifecycle, Lifecycle!Spec
-----------------------------------------------------------------------------
\* No other steps but exceptions, returns and ends of processes touch the stack.
LEMMA StackSteps ==
  ASSUME [Next]_vars
  PROVE  \/ UNCHANGED stack
         \/ \E text \in BOOLEAN : BreakTaken(text)
         \/ StartTrap \/ InferiorException("TRAP", FALSE) \/ InferiorException("FAULT", TRUE)
         \/ CmdSetBreakpoint \/ ResumeInterrupted \/ ResumeTosHandler \/ ExitKillRunning
<1>1. CASE LoadSucceeds \/ LoadFails \/ NothingToLoad \/ LoopEnd \/ EnterUser \/ EnterBreak
           \/ GotConnection
  BY <1>1 DEF LoadSucceeds, LoadFails, NothingToLoad, LoopEnd, EnterUser, EnterBreak,
              GotConnection
<1>2. CASE CmdExtended \/ CmdQuery \/ CmdKill \/ CmdRestart \/ CmdRun \/ CmdReportStopReason
           \/ CmdContinue \/ ConnectionDropped
  BY <1>2 DEF CmdExtended, CmdQuery, CmdKill, CmdRestart, CmdRun, CmdReportStopReason,
              CmdContinue, ConnectionDropped
<1>3. CASE \/ ExitKillLoaded \/ ExitKillNothing \/ ExitContinue \/ Continue \/ ExitRun
           \/ RunInferior \/ EnterInferior \/ UnloadInferior \/ ReportExit \/ InferiorExits
  BY <1>3 DEF ExitKillLoaded, ExitKillNothing, ExitContinue, Continue, ExitRun, RunInferior,
              EnterInferior, UnloadInferior, ReportExit, InferiorExits
<1>4. CASE \/ CmdQuit \/ SendBreak \/ BreakLost \/ Connect \/ Disconnect \/ Stopped
           \/ UNCHANGED vars \/ \E r \in Requests : SendRequest(r)
  BY <1>4 DEF CmdQuit, SendBreak, BreakLost, Connect, Disconnect, Stopped, vars, SendRequest
<1> QED
  BY <1>1, <1>2, <1>3, <1>4, Zenon
  DEF Next, Server, Command, CommandLoopExit, Inferior, Environment

\* Each step preserves where activations are suspended.
LEMMA StepReturnPoints == TypeInv /\ ReturnPoints /\ [Next]_vars => ReturnPoints'
<1> SUFFICES ASSUME TypeInv, ReturnPoints, [Next]_vars PROVE ReturnPoints'
  OBVIOUS
<1>a. stack \in Seq(Frame) /\ Len(stack) \in Nat /\ DOMAIN stack = 1..Len(stack)
  BY DEF TypeInv, TypeOK, DataTypes
<1>b. ASSUME NEW s \in Signals, NEW hook \in BOOLEAN, NEW text \in BOOLEAN,
             Raise(s, hook, text), pc \in Windows \cup {"inferior", "receive"}
      PROVE  ReturnPoints'
  BY <1>a, <1>b, RaiseStack DEF ReturnPoints
<1>c. ASSUME NEW n \in 0..Len(stack), stack' = SubSeq(stack, 1, n) PROVE ReturnPoints'
  <2>1. /\ stack' \in Seq(Frame) /\ Len(stack') = n
        /\ \A i \in 1..n : stack'[i] = stack[i]
    BY <1>a, <1>c, PrefixProperties
  <2> QED
    BY <1>a, <2>1 DEF ReturnPoints
<1>d. EndProcess => ReturnPoints'
  <2>1. ASSUME NEW i \in InferiorFrames, stack' = SubSeq(stack, 1, i - 1) PROVE ReturnPoints'
    <3>1. i - 1 \in 0..Len(stack)
      BY <1>a DEF InferiorFrames
    <3> QED
      BY <1>c, <2>1, <3>1
  <2> QED
    BY <2>1 DEF EndProcess, ReturnPoints
<1>1. CASE UNCHANGED stack
  BY <1>1 DEF ReturnPoints
<1>2. ASSUME NEW text \in BOOLEAN, BreakTaken(text) PROVE ReturnPoints'
  BY <1>2, <1>b DEF BreakTaken, Signals
<1>3. CASE StartTrap
  BY <1>3, <1>b DEF StartTrap, Signals
<1>4. CASE InferiorException("TRAP", FALSE) \/ InferiorException("FAULT", TRUE)
  BY <1>4, <1>b DEF InferiorException, Signals
<1>5. CASE CmdSetBreakpoint
  BY <1>5, <1>1, <1>b DEF CmdSetBreakpoint, Receive, Signals, excVars
<1>6. CASE ResumeInterrupted
  <2>1. Len(stack) # 0
    BY <1>6, <1>a DEF ResumeInterrupted, TypeInv, ResumeInv
  <2>2. Len(stack) - 1 \in 0..Len(stack)
    BY <1>a, <2>1
  <2> QED
    BY <1>6, <1>1, <1>c, <2>2 DEF ResumeInterrupted, Pop
<1>7. CASE ResumeTosHandler
  BY <1>7, <1>d DEF ResumeTosHandler
<1>8. CASE ExitKillRunning
  BY <1>8, <1>d DEF ExitKillRunning
<1> QED
  BY <1>1, <1>2, <1>3, <1>4, <1>5, <1>6, <1>7, <1>8, StackSteps

\* Points between two packets, where a Ctrl-C would be reported out of turn.
BetweenPackets == {"load", "report", "loop_end", "enter"}

\* Where a process ends: in the main thread, behind Pexec, or with the server.
LEMMA EndProcessPoint ==
  ASSUME EndProcess PROVE (pc' = "unload" /\ InferiorIsProcess) \/ pc' = "dead"
BY DEF EndProcess, InferiorIsProcess

\* RequestsInv but for the suspended activations, which are preserved by themselves.
Requests1 ==
  /\ ~canDrop => connected
  /\ userCodeIfError \in {"ERROR", "WARNING"}
  /\ KilledIsDeaf
  /\ Orderly /\ pc \notin EndPoints => Quitting \/ (Awaited /\ CodesAreTrue)

\* What the other invariants say of the points where packets are sent.
PointsAreMain ==
  /\ pc \in {"load", "loop_end", "pre_run", "unload", "exited"} => UserLevel
  /\ pc \in {"wait", "receive"} => ~CtrlC_enable /\ (UserLevel \/ inferiorState = "RUNNING")
  /\ pc = "resume" => ~UserLevel
  /\ pc \in {"pexec", "inferior", "unload"} => inferiorState = "RUNNING"
  /\ pc \in {"load", "loop_end"} /\ replaced = 0 => inferiorState = "NOT_LOADED"
  /\ pc = "exit" /\ loopState = "RUN" /\ replaced = 0 => inferiorState = "NOT_LOADED"
  /\ pc = "pre_run" /\ inferiorState = "NOT_LOADED" => inferiorBasePage = 0
  /\ inferiorState = "LOADED" /\ ~UserLevel =>
       pc \in {"enter", "dead", "wild"} \/ (pc = "exit" /\ loopState = "KILL")
  /\ inferiorState = "NOT_LOADED" => inferiorBasePage = 0 \/ pc \in {"dead", "wild"}
  /\ inferiorBasePage = 0 => inferiorState = "NOT_LOADED" \/ pc \in {"dead", "wild"}
  /\ InferiorIsProcess => inferiorState = "RUNNING"

\* They follow from the invariants.
LEMMA MainThreadPoints ==
  ASSUME SafetyInv, MainThread, "report" \notin Windows PROVE PointsAreMain
<1>a. /\ inferiorState \in {"NOT_LOADED", "LOADED", "RUNNING"}
      /\ stack \in Seq(Frame) /\ Len(stack) \in Nat /\ DOMAIN stack = 1..Len(stack)
      /\ UserLevel <=> Len(stack) = 0
  BY DEF SafetyInv, TypeInv, TypeOK, DataTypes, UserLevel
<1>b. /\ MemoryOwnership /\ OneActivation /\ ActiveIsRunning /\ HandlersAreLeft
      /\ CtrlCDiscipline /\ ResumeInv
  BY DEF SafetyInv, OneExecution, TypeInv
<1>c. MainIsUserLevel /\ GivenUp /\ LoadedIsKilled /\ RunningIsMain /\ NestedListens
  BY DEF MainThread
<1>1. pc = "unload" => UserLevel
  <2> SUFFICES ASSUME pc = "unload", ~UserLevel PROVE FALSE
    OBVIOUS
  <2>1. stack[1].ret \in {"pexec", "inferior", "unload"}
    BY <1>b, <1>c DEF ActiveIsRunning, RunningIsMain, MainPoint
  <2>2. 1 \in DOMAIN stack
    BY <1>a
  <2> QED
    BY <1>b, <2>1, <2>2 DEF OneActivation
<1>2. pc \in {"wait", "receive"} /\ ~UserLevel => inferiorState = "RUNNING"
  <2> SUFFICES ASSUME pc \in {"wait", "receive"}, ~UserLevel PROVE inferiorState = "RUNNING"
    OBVIOUS
  <2>1. Top.ret \in {"pexec", "inferior", "unload"} /\ Len(stack) \in DOMAIN stack
    BY <1>a, <1>c DEF NestedListens
  <2> QED
    BY <1>b, <2>1 DEF ActiveIsRunning, Top
<1>3. InferiorIsProcess => inferiorState = "RUNNING"
  BY <1>b DEF InferiorIsProcess, InferiorFrames, ActiveIsRunning
<1>4. pc \in {"load", "loop_end"} => inferiorBasePage \in {0, replaced}
  BY <1>c DEF GivenUp, MainIsUserLevel, MainPoint, Given
<1> QED
  BY <1>a, <1>b, <1>c, <1>1, <1>2, <1>3, <1>4
  DEF PointsAreMain, MainIsUserLevel, CtrlCDiscipline, ResumeInv, ActiveIsRunning,
      MemoryOwnership, HandlersAreLeft, LoadedIsKilled, UserLevel

\* Each step preserves who has asked for the packets, and with which codes.
LEMMA StepRequests ==
  ASSUME Windows \cap BetweenPackets = {}
  PROVE  SafetyInv /\ MainThread /\ RequestsInv /\ [Next]_vars => Requests1'
<1> SUFFICES ASSUME SafetyInv, MainThread, RequestsInv, [Next]_vars PROVE Requests1'
  OBVIOUS
<1>a. /\ inferiorState \in {"NOT_LOADED", "LOADED", "RUNNING"}
      /\ stack \in Seq(Frame) /\ Len(stack) \in Nat
      /\ request \in Requests \cup {"none"}
      /\ awaiting \in {"nothing", "reply", "stop"}
      /\ loopState \in LoopStates /\ userCodeForCommandLoop \in UserCodes
  BY DEF SafetyInv, TypeInv, TypeOK, DataTypes
<1>b. TypeInv /\ Requests1 /\ PointsAreMain /\ ReturnPoints
  BY MainThreadPoints DEF SafetyInv, RequestsInv, Requests1, BetweenPackets
<1>c. /\ UserLevel <=> Len(stack) = 0
      /\ \A i \in DOMAIN stack : stack[i].ret = "receive" => stack[i].hook /\ stack[i].text
  BY <1>a DEF UserLevel, SafetyInv, OneExecution, HandlersAreLeft
<1>d. ASSUME NEW s \in Signals, NEW hook \in BOOLEAN, NEW text \in BOOLEAN,
             Raise(s, hook, text)
      PROVE  /\ ~UserLevel' /\ pc' = "enter"
             /\ UserLevel => Len(stack') = 1 /\ stack'[1].ret = pc
  <2>1. /\ Len(stack') = Len(stack) + 1 /\ pc' = "enter"
        /\ stack'[Len(stack) + 1].ret = pc
    BY <1>b, <1>d, RaiseStack
  <2>2. stack' # <<>>
    BY <1>a, <2>1
  <2> QED
    BY <1>a, <1>c, <2>1, <2>2 DEF UserLevel
<1>e. UNCHANGED stack => (UserLevel' <=> UserLevel)
  BY DEF UserLevel
<1> HIDE DEF UserLevel
<1> USE <1>a, <1>b, <1>c, <1>e
        DEF Requests1, Orderly, Quitting, Owed, Awaited, CodesAreTrue, KilledIsDeaf,
            PointsAreMain, UserCodes, LoopStates, Requests
<1>1. CASE LoadSucceeds
  BY <1>1 DEF LoadSucceeds
<1>2. CASE LoadFails
  BY <1>2 DEF LoadFails
<1>3. CASE NothingToLoad
  BY <1>3 DEF NothingToLoad
<1>4. CASE LoopEnd
  BY <1>4 DEF LoopEnd
<1>5. CASE EnterUser
  BY <1>5 DEF EnterUser, Transmit
<1>6. CASE EnterBreak
  BY <1>6 DEF EnterBreak, Transmit
<1>7. CASE GotConnection
  BY <1>7 DEF GotConnection
<1>8. CASE CmdExtended
  BY <1>8 DEF CmdExtended, Reply, Receive, Transmit
<1>9. CASE CmdQuery
  BY <1>9 DEF CmdQuery, Reply, Receive, Transmit
<1>10. CASE CmdSetBreakpoint
  <2>1. CASE Raise("FAULT", TRUE, TRUE)
    <3>1. pc = "receive" /\ request = "Z" /\ request' = "none" /\ pc' = "enter"
      BY <1>10, <2>1 DEF CmdSetBreakpoint, Receive, Raise
    <3>2. /\ UserLevel /\ inferiorState = "NOT_LOADED"
          /\ UNCHANGED <<awaiting, modeVars, loadVars, inferiorState, connected, replaced,
                         CtrlC_enable>>
      BY <1>10, <3>1 DEF CmdSetBreakpoint, Reply
    <3>3. ~UserLevel' /\ Len(stack') = 1 /\ stack'[1].ret = "receive"
      BY <1>d, <2>1, <3>1, <3>2 DEF Signals
    <3> QED
      BY <3>1, <3>2, <3>3
  <2>2. CASE Reply /\ UNCHANGED excVars
    BY <1>10, <2>2 DEF CmdSetBreakpoint, Reply, Receive, Transmit
  <2> QED
    BY <1>10, <2>1, <2>2 DEF CmdSetBreakpoint
<1>11. CASE CmdKill
  BY <1>11 DEF CmdKill, Leave, Receive
<1>12. CASE CmdRestart
  BY <1>12 DEF CmdRestart, Leave, Receive
<1>13. CASE CmdRun
  BY <1>13 DEF CmdRun, Reply, Receive, Leave, Transmit
<1>14. CASE CmdReportStopReason
  <2>1. CASE ReportNoInferior
    BY <1>14, <2>1 DEF CmdReportStopReason, ReportNoInferior, Leave, Receive, Transmit
  <2>2. CASE ReportRunning
    BY <1>14, <2>2 DEF CmdReportStopReason, ReportRunning, Reply, Receive, Transmit
  <2>3. CASE ReportLoaded
    BY <1>14, <2>3 DEF CmdReportStopReason, ReportLoaded, Leave, Receive
  <2> QED
    BY <1>14, <2>1, <2>2, <2>3 DEF CmdReportStopReason
<1>15. CASE CmdContinue
  BY <1>15 DEF CmdContinue, Reply, Receive, Leave, Transmit
<1>16. CASE ConnectionDropped
  BY <1>16 DEF ConnectionDropped, Leave
<1>17. CASE ExitKillLoaded
  BY <1>17 DEF ExitKillLoaded, LoopReturnPoint
<1>18. CASE ExitKillRunning
  <2>1. /\ pc = "exit" /\ inferiorTerminatedByServer'
        /\ UNCHANGED <<inferiorState, modeVars, loadVars, gdbVars, histVars, CtrlC_enable>>
        /\ inferiorState = "RUNNING"
    BY <1>18 DEF ExitKillRunning
  <2>2. pc' = "unload" \/ pc' = "dead"
    BY <1>18, EndProcessPoint DEF ExitKillRunning
  <2> QED
    BY <2>1, <2>2
<1>19. CASE ExitKillNothing
  BY <1>19 DEF ExitKillNothing, LoopReturnPoint
<1>20. CASE ExitContinue
  BY <1>20 DEF ExitContinue
<1>21. CASE Continue
  BY <1>21 DEF Continue, LoopReturnPoint
<1>22. CASE ExitRun
  BY <1>22 DEF ExitRun, LoopReturnPoint
<1>23. CASE RunInferior
  BY <1>23 DEF RunInferior
<1>24. CASE EnterInferior
  BY <1>24 DEF EnterInferior
<1>25. CASE UnloadInferior
  BY <1>25 DEF UnloadInferior, LoopReturnPoint
<1>26. CASE ReportExit
  BY <1>26 DEF ReportExit, LoopReturnPoint, Transmit
<1>27. CASE ResumeInterrupted
  <2>1. /\ pc = "resume" /\ ~(Top.hook /\ Top.text)
        /\ UNCHANGED <<inferiorState, modeVars, loadVars, endVars, gdbVars, histVars,
                       CtrlC_enable, loopState>>
    BY <1>27 DEF ResumeInterrupted
  <2>2. Len(stack) \in DOMAIN stack
    BY <2>1
  <2>3. Top.ret \in Windows \cup {"inferior"}
    BY <2>1, <2>2 DEF ReturnPoints, Top
  <2>4. pc' = "wild" \/ pc' = Top.ret
    BY <1>27 DEF ResumeInterrupted
  <2>5. pc' \in {"wild", "continuing", "pre_run", "pexec", "inferior", "unload", "resume"}
    BY <2>3, <2>4, WindowsAssumption DEF BetweenPackets
  <2>6. userCodeForCommandLoop \in {"ERROR", "WARNING"} /\ Orderly => FALSE
    BY <2>1, <2>2 DEF Top
  <2>7. pc' \in {"pexec", "inferior", "unload"} => inferiorState = "RUNNING"
    BY <2>2, <2>4 DEF SafetyInv, OneExecution, ActiveIsRunning, Top
  <2> QED
    BY <2>1, <2>5, <2>6, <2>7
<1>28. CASE ResumeTosHandler
  <2>1. /\ pc = "resume"
        /\ UNCHANGED <<inferiorState, modeVars, loadVars, gdbVars, histVars, CtrlC_enable>>
    BY <1>28 DEF ResumeTosHandler
  <2>2. (pc' = "unload" /\ inferiorState = "RUNNING") \/ pc' = "dead"
    BY <1>28, EndProcessPoint DEF ResumeTosHandler
  <2> QED
    BY <2>1, <2>2
<1>29. CASE InferiorExits
  BY <1>29 DEF InferiorExits
<1>30. CASE StartTrap
  <2>1. /\ pc = "inferior"
        /\ UNCHANGED <<inferiorState, modeVars, loadVars, gdbVars, histVars, CtrlC_enable>>
    BY <1>30 DEF StartTrap
  <2>2. ~UserLevel' /\ pc' = "enter"
    BY <1>30, <1>d DEF StartTrap, Signals
  <2> QED
    BY <2>1, <2>2
<1>31. CASE CmdQuit
  BY <1>31 DEF CmdQuit, Leave
<1>32. CASE SendBreak
  BY <1>32 DEF SendBreak
<1>33. CASE BreakLost
  BY <1>33 DEF BreakLost
<1>34. CASE Connect
  BY <1>34 DEF Connect
<1>35. CASE Disconnect
  BY <1>35 DEF Disconnect
<1>36. CASE Stopped
  BY <1>36 DEF Stopped, vars
<1>37. CASE InferiorException("TRAP", FALSE) \/ InferiorException("FAULT", TRUE)
  <2>1. /\ pc = "inferior"
        /\ UNCHANGED <<inferiorState, modeVars, loadVars, gdbVars, histVars, CtrlC_enable>>
    BY <1>37 DEF InferiorException
  <2>2. ~UserLevel' /\ pc' = "enter"
    BY <1>37, <1>d DEF InferiorException, Signals
  <2> QED
    BY <2>1, <2>2
<1>38. ASSUME NEW r \in Requests, SendRequest(r) PROVE Requests1'
  BY <1>38 DEF SendRequest, Expects
<1>39. ASSUME NEW text \in BOOLEAN, BreakTaken(text) PROVE Requests1'
  <2>1. CtrlC_enable /\ (pc = "inferior" \/ pc \in Windows)
    BY <1>39, Zenon DEF BreakTaken
  <2>2. pc \in {"continuing", "pre_run", "pexec", "inferior", "unload", "resume"}
    BY <2>1, WindowsAssumption DEF BetweenPackets
  <2>3. UNCHANGED <<inferiorState, modeVars, loadVars, connected, request, awaiting, histVars>>
    BY <1>39 DEF BreakTaken
  <2>4. ~UserLevel' /\ pc' = "enter"
    BY <1>39, <1>d DEF BreakTaken, Signals
  <2> QED
    BY <2>1, <2>2, <2>3, <2>4
<1>40. CASE UNCHANGED vars
  BY <1>40 DEF vars
<1> HIDE DEF Requests1
<1> QED
  BY <1>1, <1>2, <1>3, <1>4, <1>5, <1>6, <1>7, <1>8, <1>9, <1>10, <1>11, <1>12, <1>13,
     <1>14, <1>15, <1>16, <1>17, <1>18, <1>19, <1>20, <1>21, <1>22, <1>23, <1>24, <1>25, <1>26,
     <1>27, <1>28, <1>29, <1>30, <1>31, <1>32, <1>33, <1>34, <1>35, <1>36, <1>37, <1>38, <1>39,
     <1>40
  DEF Next, Server, Command, CommandLoopExit, Inferior, Environment

\* Both hold in every state.
LEMMA RequestsInvariance ==
  ASSUME Windows \cap BetweenPackets = {} PROVE Spec => []RequestsInv
<1>1. Init => RequestsInv
  <2> SUFFICES ASSUME Init PROVE RequestsInv
    OBVIOUS
  <2>1. /\ pc = "load" /\ DOMAIN stack = {} /\ UserLevel /\ request = "none"
        /\ userCodeForCommandLoop = "SILENT" /\ userCodeIfError = "ERROR"
    BY DEF Init, UserLevel
  <2>2. ~canDrop => connected
    BY OptionsAssumption DEF Init
  <2> QED
    BY <2>1, <2>2 DEF RequestsInv, ReturnPoints, KilledIsDeaf, Orderly, Quitting, Awaited,
                      CodesAreTrue
<1>2. SafetyInv /\ MainThread /\ RequestsInv /\ [Next]_vars => RequestsInv'
  BY StepReturnPoints, StepRequests DEF RequestsInv, Requests1, SafetyInv
<1> QED
  BY <1>1, <1>2, MainThreadInvariance, PTL DEF Spec

\* The steps that transmit find gdb waiting.
LEMMA StepTransmit ==
  ASSUME SafetyInv, RequestsInv, [Next]_vars, Orderly, ~surplus PROVE ~surplus'
<1>a. /\ userCodeForCommandLoop \in UserCodes
      /\ request \in Requests \cup {"none"}
      /\ pc \in EndPoints \/ Quitting \/ (Awaited /\ CodesAreTrue)
  BY DEF SafetyInv, TypeInv, TypeOK, DataTypes, RequestsInv
<1>t. awaiting # "nothing" /\ Transmit => ~surplus'
  BY Zenon DEF Transmit
<1> USE DEF Quitting, Awaited, Owed
<1>1. CASE EnterUser
  BY <1>1, <1>a, <1>t DEF EnterUser
<1>2. CASE EnterBreak
  BY <1>2, <1>a, <1>t DEF EnterBreak
<1>3. CASE CmdExtended
  BY <1>3, <1>a, <1>t DEF CmdExtended, Reply, Receive
<1>4. CASE CmdQuery
  BY <1>4, <1>a, <1>t DEF CmdQuery, Reply, Receive
<1>5. CASE CmdSetBreakpoint
  <2>1. awaiting # "nothing"
    BY <1>5, <1>a DEF CmdSetBreakpoint, Receive
  <2>2. Transmit \/ UNCHANGED surplus
    BY <1>5 DEF CmdSetBreakpoint, Reply
  <2> QED
    BY <1>t, <2>1, <2>2
<1>6. CASE CmdRun
  <2>1. awaiting # "nothing"
    BY <1>6, <1>a DEF CmdRun, Receive
  <2>2. Transmit \/ UNCHANGED surplus
    BY <1>6 DEF CmdRun, Reply
  <2> QED
    BY <1>t, <2>1, <2>2
<1>7. CASE CmdReportStopReason
  BY <1>7, <1>a, <1>t DEF CmdReportStopReason, ReportNoInferior, ReportRunning, ReportLoaded,
                    Reply, Receive
<1>8. CASE CmdContinue
  BY <1>8, <1>a, <1>t DEF CmdContinue, Reply, Receive
<1>9. CASE ReportExit
  BY <1>9, <1>a, <1>t DEF ReportExit
<1>10. CASE LoadSucceeds
  BY <1>10 DEF LoadSucceeds
<1>11. CASE LoadFails
  BY <1>11 DEF LoadFails
<1>12. CASE NothingToLoad
  BY <1>12 DEF NothingToLoad
<1>13. CASE LoopEnd
  BY <1>13 DEF LoopEnd
<1>14. CASE GotConnection
  BY <1>14 DEF GotConnection
<1>15. CASE CmdKill
  BY <1>15 DEF CmdKill
<1>16. CASE CmdRestart
  BY <1>16 DEF CmdRestart
<1>17. CASE ConnectionDropped
  BY <1>17 DEF ConnectionDropped
<1>18. CASE ExitKillLoaded
  BY <1>18 DEF ExitKillLoaded
<1>19. CASE ExitKillRunning
  BY <1>19 DEF ExitKillRunning
<1>20. CASE ExitKillNothing
  BY <1>20 DEF ExitKillNothing
<1>21. CASE ExitContinue
  BY <1>21 DEF ExitContinue
<1>22. CASE Continue
  BY <1>22 DEF Continue
<1>23. CASE ExitRun
  BY <1>23 DEF ExitRun
<1>24. CASE RunInferior
  BY <1>24 DEF RunInferior
<1>25. CASE EnterInferior
  BY <1>25 DEF EnterInferior
<1>26. CASE UnloadInferior
  BY <1>26 DEF UnloadInferior
<1>27. CASE ResumeInterrupted
  BY <1>27 DEF ResumeInterrupted
<1>28. CASE ResumeTosHandler
  BY <1>28 DEF ResumeTosHandler
<1>29. CASE InferiorExits
  BY <1>29 DEF InferiorExits
<1>30. CASE StartTrap
  BY <1>30 DEF StartTrap
<1>31. CASE CmdQuit
  BY <1>31 DEF CmdQuit
<1>32. CASE SendBreak
  BY <1>32 DEF SendBreak
<1>33. CASE BreakLost
  BY <1>33 DEF BreakLost
<1>34. CASE Connect
  BY <1>34 DEF Connect
<1>35. CASE Disconnect
  BY <1>35 DEF Disconnect
<1>36. CASE Stopped
  BY <1>36 DEF Stopped, vars
<1>37. ASSUME NEW s, NEW hook, InferiorException(s, hook) PROVE ~surplus'
  BY <1>37 DEF InferiorException
<1>38. ASSUME NEW r, SendRequest(r) PROVE ~surplus'
  BY <1>38 DEF SendRequest
<1>39. ASSUME NEW text, BreakTaken(text) PROVE ~surplus'
  BY <1>39 DEF BreakTaken
<1>40. CASE UNCHANGED vars
  BY <1>40 DEF vars
<1> QED
  BY <1>1, <1>2, <1>3, <1>4, <1>5, <1>6, <1>7, <1>8, <1>9, <1>10, <1>11, <1>12, <1>13, <1>14, <1>15, <1>16, <1>17, <1>18, <1>19, <1>20, <1>21, <1>22, <1>23, <1>24, <1>25, <1>26, <1>27, <1>28, <1>29, <1>30, <1>31, <1>32, <1>33, <1>34, <1>35, <1>36, <1>37, <1>38, <1>39, <1>40
     DEF Next, Server, Command, CommandLoopExit, Inferior, Environment

\* Unless the user interrupts the server at a point between two packets, no stop
\* reply, exit report or load error is sent twice or out of turn, over any number of
\* sessions on a line that does not drop, however deep command loops are nested.
THEOREM PacketsAreAwaited ==
  ASSUME Windows \cap BetweenPackets = {} PROVE Spec => OnePacketPerRequest
<1>1. SafetyInv /\ RequestsInv /\ [Next]_vars
        => [surplus' /\ ~surplus => replaced # 0 \/ canDrop \/ option_multi]_vars
  BY StepTransmit DEF Orderly
<1> QED
  BY <1>1, SafetyInvariance, RequestsInvariance, PTL DEF Spec, OnePacketPerRequest
=============================================================================
