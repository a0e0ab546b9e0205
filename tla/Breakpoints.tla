----------------------------- MODULE Breakpoints -----------------------------
(***************************************************************************)
(* Software breakpoints: the table of gdbserver/exceptions.c, the words of *)
(* the inferior's memory it replaces by trap #0, the one-time breakpoint   *)
(* at __start of gdbserver/inferior.c, and what the breakpoint exception   *)
(* does to the program counter.                                            *)
(*                                                                         *)
(* Addresses are numbers; the inferior owns TextStart..BssEnd-1 and its    *)
(* instructions are single words.  Words in TrapWords are trap #0          *)
(* instructions the user compiled into the program.                        *)
(***************************************************************************)
EXTENDS Naturals, FiniteSets

CONSTANTS NumMempoints,     \* NUM_MEMPOINTS
          TextStart,        \* p_tbase of the inferior's base page
          BssEnd,           \* p_bbase + p_blen
          TrapWords,        \* where the loaded program has a trap #0 itself
          Targets,          \* addresses gdb sends in Z and z packets
          Writable          \* words gdb writes

ASSUME SizesAssumption == /\ NumMempoints \in Nat \ {0}
                          /\ TextStart \in Nat \ {0} /\ BssEnd \in Nat
                          /\ TextStart % 2 = 0 /\ TextStart < BssEnd
\* Address 0 marks a free slot; a Z for it is refused, so gdb never sends a z.
ASSUME TargetsAssumption == /\ Targets \subseteq Nat \ {0}
                            /\ TrapWords \subseteq Nat /\ Writable \subseteq Nat

Slots == 1..NumMempoints

\* The inferior's words, and the first word behind them.
Code  == {a \in TextStart..(BssEnd - 1) : a % 2 = 0}
Words == Code \cup {a \in {BssEnd} : a % 2 = 0}

\* The program as Pexec loaded it.  "other" is a word of somebody else.
Loaded == [a \in Words |-> CASE a \notin Code   -> "other"
                             [] a \in TrapWords -> "BREAKPOINT"
                             [] OTHER           -> "insn"]

VARIABLES mempoints,          \* the table: addr (0 is a free slot) and store
          memory,             \* the words as they are
          __start_Breakpoint, \* 0 is NULL
          pc,                 \* registers.pc
          trace,              \* the trace bit of registers.sr
          state,              \* "gone", "loaded", "executing" or "stopped"
          inserted,           \* where gdb believes it has a breakpoint
          program,            \* history: the words as the user wants them to be;
                              \* "unknown" if it was written under a breakpoint
          doubled             \* history: the addresses of this image that were
                              \* given a slot while they had one

vars == <<mempoints, memory, __start_Breakpoint, pc, trace, state, inserted, program, doubled>>

Contents == {"insn", "BREAKPOINT", "other", "written"}

MemBreak == [addr : {0} \cup Words, store : Contents]

TypeOK == /\ mempoints \in [Slots -> MemBreak]
          /\ memory \in [Words -> Contents]
          /\ program \in [Words -> Contents \cup {"unknown"}]
          /\ __start_Breakpoint \in {0} \cup Words
          /\ pc \in Nat
          /\ trace \in BOOLEAN
          /\ state \in {"gone", "loaded", "executing", "stopped"}
          /\ inserted \in SUBSET Words
          /\ doubled \in SUBSET Words

Free == [addr |-> 0, store |-> "insn"]

Init == /\ mempoints = [i \in Slots |-> Free]
        /\ memory = Loaded
        /\ __start_Breakpoint = 0
        /\ pc = TextStart /\ trace = FALSE
        /\ state = "gone"
        /\ inserted = {}
        /\ program = Loaded
        /\ doubled = {}

-----------------------------------------------------------------------------
(* The table *)

\* The first slot the loops of exceptions.c find for addr.
SlotOf(addr) ==
  CHOOSE i \in Slots : /\ mempoints[i].addr = addr
                       /\ \A j \in Slots : mempoints[j].addr = addr => i <= j

Holds(addr) == \E i \in Slots : mempoints[i].addr = addr

\* Mutant of IsBreakpoint: the last slot is never looked at.
IsBreakpointShort(addr) ==
  \E i \in 1..(NumMempoints - 1) : mempoints[i].addr = addr

\* IsBreakpoint
IsBreakpoint(addr) == Holds(addr)

\* The sanity check of InsertMemoryBreakpoint, as it is written.
InsertAllowed(addr) ==
  /\ addr % 2 = 0
  /\ ~(addr < TextStart \/ addr > BssEnd)

CanInsert(addr) == InsertAllowed(addr) /\ Holds(0)

\* InsertMemoryBreakpoint in a free slot.
InsertMemoryBreakpoint(addr) ==
  /\ mempoints' = [mempoints EXCEPT ![SlotOf(0)] = [addr |-> addr, store |-> memory[addr]]]
  /\ memory' = [memory EXCEPT ![addr] = "BREAKPOINT"]

\* Mutant of RemoveMemoryBreakpoint: only the slot is given back.
RemoveSlotOnly(addr) ==
  /\ mempoints' = [mempoints EXCEPT ![SlotOf(addr)].addr = 0]
  /\ UNCHANGED memory

\* RemoveMemoryBreakpoint of an address the table has.
RemoveMemoryBreakpoint(addr) ==
  /\ mempoints' = [mempoints EXCEPT ![SlotOf(addr)].addr = 0]
  /\ memory' = [memory EXCEPT ![addr] = mempoints[SlotOf(addr)].store]

\* Mutant of DiscardAllBreakpoints: the loop ends one slot early.
DiscardAllButLast ==
  mempoints' = [i \in Slots |-> IF i = NumMempoints THEN mempoints[i]
                               ELSE [mempoints[i] EXCEPT !.addr = 0]]

\* DiscardAllBreakpoints
DiscardAllBreakpoints == mempoints' = [i \in Slots |-> [mempoints[i] EXCEPT !.addr = 0]]

-----------------------------------------------------------------------------
(* The life of an inferior *)

\* LoadInferior: a one time breakpoint at _start.
LoadInferior ==
  /\ state = "gone"
  /\ state' = "loaded"
  /\ IF CanInsert(TextStart)
     THEN InsertMemoryBreakpoint(TextStart) /\ __start_Breakpoint' = TextStart
     ELSE UNCHANGED <<mempoints, memory>> /\ __start_Breakpoint' = 0
  /\ pc' = TextStart /\ trace' = FALSE
  /\ UNCHANGED <<inserted, program, doubled>>

RunInferior ==
  /\ state = "loaded"
  /\ state' = "executing"
  /\ UNCHANGED <<mempoints, memory, __start_Breakpoint, pc, trace, inserted, program, doubled>>

\* The inferior ended or was killed; its command loop returns to ServerMain.
\* The next image is loaded into fresh memory.
Unload ==
  /\ state \in {"loaded", "executing", "stopped"}
  /\ state' = "gone"
  /\ DiscardAllBreakpoints
  /\ memory' = [a \in Words |-> IF a \in Code THEN Loaded[a] ELSE memory[a]]
  /\ inserted' = {} /\ program' = Loaded /\ doubled' = {}
  /\ UNCHANGED <<__start_Breakpoint, pc, trace>>

\* An instruction of the program is executed: it may branch.  With the trace
\* bit set a trace exception stops the inferior behind it.
Execute ==
  /\ state = "executing" /\ pc \in Code /\ memory[pc] # "BREAKPOINT"
  /\ pc' \in Code
  /\ state' = IF trace THEN "stopped" ELSE "executing"
  /\ UNCHANGED <<mempoints, memory, __start_Breakpoint, trace, inserted, program, doubled>>

\* Ctrl-C or a fault stops the inferior where it is, also before it has come to
\* the breakpoint at __start: SendStopCode removes that for TRAP_BRKPT only.
Interrupt ==
  /\ state = "executing"
  /\ state' = "stopped"
  /\ UNCHANGED <<mempoints, memory, __start_Breakpoint, pc, trace, inserted, program, doubled>>

\* Trap #0 is executed: Exception rewinds the program counter to a breakpoint
\* of the table, and SendStopCode removes the one at __start.
BreakpointException ==
  /\ state = "executing" /\ pc \in Code /\ memory[pc] = "BREAKPOINT"
  /\ pc' = IF IsBreakpoint(pc) THEN pc ELSE pc + 2
  /\ state' = "stopped"
  /\ IF pc' = __start_Breakpoint /\ Holds(__start_Breakpoint)
     THEN RemoveMemoryBreakpoint(__start_Breakpoint) /\ __start_Breakpoint' = 0
     ELSE UNCHANGED <<mempoints, memory, __start_Breakpoint>>
  /\ UNCHANGED <<trace, inserted, program, doubled>>

-----------------------------------------------------------------------------
(* gdb *)

\* gdb asks for the stop reason first, which starts the inferior: it sets its
\* breakpoints when the inferior has stopped.
Listening == state = "stopped"

\* CmdSetBreakpoint.  A Z packet that is executed again, because its
\* acknowledgement was lost, takes another slot, which stores the trap; so does
\* one for __start while the planted breakpoint is there.
SetBreakpoint(addr) ==
  /\ Listening
  /\ CanInsert(addr)
  /\ InsertMemoryBreakpoint(addr)
  /\ inserted' = inserted \cup {addr}
  /\ doubled' = IF Holds(addr) THEN doubled \cup {addr} ELSE doubled
  /\ UNCHANGED <<__start_Breakpoint, pc, trace, state, program>>

\* CmdClearBreakpoint answers OK whether there was a breakpoint or not, and may
\* be executed again too.  gdb does not clear the planted breakpoint, which it
\* knows nothing of, unless it has set one there.
ClearBreakpoint(addr) ==
  /\ Listening /\ (addr = __start_Breakpoint => addr \in inserted \cup doubled)
  /\ IF Holds(addr) THEN RemoveMemoryBreakpoint(addr)
                    ELSE UNCHANGED <<mempoints, memory>>
  /\ inserted' = inserted \ {addr}
  /\ UNCHANGED <<__start_Breakpoint, pc, trace, state, program, doubled>>

\* WriteMemory: an M packet changes the word as it is, and not the one in the
\* table if there is a breakpoint in its place.
WriteMemory(addr) ==
  /\ Listening /\ addr \in Code
  /\ memory' = [memory EXCEPT ![addr] = "written"]
  /\ program' = [program EXCEPT ![addr] = IF Holds(addr) THEN "unknown" ELSE "written"]
  /\ UNCHANGED <<mempoints, __start_Breakpoint, pc, trace, state, inserted, doubled>>

\* CmdContinue: 'c' clears the trace bit and 's' sets it; either may bring a new
\* address to go on at.
CmdContinue(step) ==
  /\ state = "stopped"
  /\ state' = "executing" /\ trace' = step
  /\ pc' \in {pc} \cup Code
  /\ UNCHANGED <<mempoints, memory, __start_Breakpoint, inserted, program, doubled>>

Next == \/ LoadInferior \/ RunInferior \/ Unload
        \/ Execute \/ Interrupt \/ BreakpointException
        \/ \E addr \in Targets : SetBreakpoint(addr) \/ ClearBreakpoint(addr)
        \/ \E addr \in Writable : WriteMemory(addr)
        \/ \E step \in BOOLEAN : CmdContinue(step)

Spec == Init /\ [][Next]_vars

-----------------------------------------------------------------------------
(* Properties *)

\* The memory of the program is the program with what gdb has written to it, and
\* a trap #0 exactly where the table has a slot; the slot holds the word that
\* belongs there, so that removing all breakpoints would restore the program
\* (exceptions.c:45-80, packet.c:665-684).  Left out are a word that gdb writes
\* while its breakpoint is in it, until it is written again without one, and an
\* address that was given two slots, of which one stores a trap.
MemoryMatchesTable ==
  state # "gone" =>
    \A a \in {b \in Code \ doubled : program[b] # "unknown"} :
      IF Holds(a) THEN /\ memory[a] = "BREAKPOINT"
                       /\ mempoints[SlotOf(a)].store = program[a]
                  ELSE memory[a] = program[a]

\* gdb and the server agree where breakpoints are, apart from the one at __start
\* that LoadInferior planted, as long as it waits to be met, and from addresses
\* that were given two slots: a breakpoint gdb believes in is in the table, and
\* none is left behind by a stop, a kill or the image before
\* (inferior.c:52-57, 107-113, server.c:182-214, 751).
TableMatchesGdb ==
  state # "gone" =>
    LET Apart == {0, __start_Breakpoint} \cup doubled
    IN  {mempoints[i].addr : i \in Slots} \ Apart = inserted \ Apart

\* No instruction of the program is skipped: execution that ran into a
\* breakpoint stands on the replaced instruction, execution that ran into a
\* trap #0 of the program goes on behind it (exceptions.c:142-157).  A trap left
\* at an address that was given two slots is neither.
NoInstructionSkipped ==
  [][BreakpointException /\ pc \notin doubled
       => pc' = IF pc \in inserted \cup {__start_Breakpoint} THEN pc ELSE pc + 2]_vars
=============================================================================
