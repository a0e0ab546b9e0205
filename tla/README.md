# Verification of gdbserver for 68k Atari

TLA+ models of the debugging server in `gdbserver/`, TLC configurations that
check them on small instances, and TLAPS proofs of their main invariants. Paths
below are relative to `src/`.

The server runs on the machine it debugs. It is a single program on a single
processor, but not a sequential one: an exception of the debugged program (the
*inferior*) or a Ctrl-C taken by the serial interrupt starts a *nested* command
loop on top of whatever was executing, the serial driver shares its rings with
interrupt handlers, and terminating the inferior unwinds every loop above the
one that started it. What can go wrong lies in those nestings and in the order
of events, which tests on real hardware hardly control.

## Inventory

| Component | State it keeps | Operations | Talks to |
|---|---|---|---|
| Debugging session: `server.c`, `inferior.c` | `inferiorState`, `inferiorBasePage`, `extendedMode`, `run_once`, `option_multi`, `loadInferiorRequested`, `userCodeForCommandLoop`, `userCodeIfError`, the local `loopState` and `si_signo` of each activation | `ServerMain`, `ServerCommandLoop` with its command handlers, `HandleBreakResponse`, `HandleCommandLoopExit`, `LoadInferior`, `RunInferior`, `TerminateInferior` | everything below |
| Exceptions and breakpoints: `exceptions.c` | `mempoints`, words of the inferior, `__start_Breakpoint` | insert, remove, discard breakpoints; `Exception` turns a vector into a signal, rewinds `pc`, calls `ServerCommandLoop` | called by `critical.s`, calls the session |
| Context switch: `critical.s`, `context.c` | one save area for registers and exception stack, vectors and MFP registers of server and inferior | `SaveStateAndSwitchContext`, `RestoreStateAndSwitchContext`, `SetServerContext`, hooks and hijacks | below the session; entered from any exception or Ctrl-C |
| Packet layer: `packet.c` | input and output packet, acknowledgement flags | `ReceivePacket`, `TransmitPacket`, readers and writers of fields | between session and driver |
| Serial drivers: `comm.c`, `comm_mfp_scc.s` | SCC: two rings, RTS, `CtrlC_enable`; MFP: the BIOS buffers | transmit, receive, connection test, Ctrl-C | interrupt handlers; jumps into the context switch |
| Remote file I/O: `file_io.c` | table of eight file handles | vFile open, close, pread, pwrite, fstat, unlink | called by the session |
| Options: `main.c`, `start.s`, `cookies.c` | options, file name and command line of the inferior, the cookies | splitting the command line, `HandleOptions`, `GetCookies`, `InitComm` | initial state of the session |
| PRG linker: `elf-prg/main.c` | list of relocations, fixup stream | collect, sort, encode, write | host tool |
| Resident extensions: `extras/gdb-extensions/*/start.s` | the cookie jar | install a communication plugin | found by `comm.c` through its cookie |
| Target description: `target_xml.c`, `packet.c` | the saved registers | chunks of a constant text; `g`, `G`, `p`, `P` and the stop reply | called by the session |
| Logging and helpers: `log.c`, `clib.c`, `hex.c`, `bios_calls.c` | none that matters | conversions and wrappers | |

The hard behaviours, in the order of importance used for the plan:

1. **Nesting and unwinding.** Which activation of the command loop is alive,
   where it returns to, and who owns the inferior's memory, when Ctrl-C, error
   exceptions, kill, quit and exit meet in any order (`server.c:446-560`,
   `inferior.c:75-98`, `critical.s:226-317`). To be correct: no image is leaked
   or freed twice, nothing is executed twice, the user can always stop what
   runs, and the server leaves nothing behind.
2. **Conversation with gdb.** Each request gets the packets it waits for, no
   more, whether the answer comes from the handler, from a trap, from the exit
   of the program or from a failed load in a later command loop.
3. **Breakpoints.** The program's words, the table and gdb's view stay in step
   over set, clear, restart; execution resumes at the right instruction.
4. **Interrupt-driven rings.** Bytes stay in order and are not lost or stuck
   when an interrupt falls between a test and what depends on it.
5. **Acknowledgement over a lossy line** (packet layer): retry, lost and
   repeated packets, a gdb that goes in the middle of one, and the key that
   ends the server in a place where a byte is expected.
6. **Vectors and MFP masks** of two contexts that are exchanged at every stop.
7. **Sequential algorithms with boundaries**: relocation encoding, handle table,
   cookie jar, chunked reading, the numbering of registers, the command line.

## Modules

| Module | What it is |
|---|---|
| `InferiorLifecycle` | abstract: an image is loaded, may be started once, and leaves with its memory |
| `Session` | the debugging session with gdb, the user, the line and the inferior as environment |
| `SessionInvariants` | facts about suspended activations; their conjunction is `OneExecution` |
| `Session_proofs` | the theorems about `Session` |
| `Breakpoints` | the breakpoint table and the memory it patches |
| `Breakpoints_proofs` | the theorems about it |
| `ByteQueue` | abstract: a bounded first-in first-out queue of bytes |
| `SccRing` | the length of a ring and the indices into it |
| `SccReceive`, `SccTransmit` | the two halves of the SCC driver, each shown to implement `ByteQueue` |
| `Scc_proofs` | the theorems about both, and what they share |
| `RemoteCall` | abstract: one call outstanding, executed only while it is, answered by its own answer; after a cut, calls and answers in their order |
| `PacketLink` | framing, checksum and acknowledgement over a line with faults, shown to implement `RemoteCall` |
| `PacketLink_proofs` | the theorems about it |
| `Context`, `Context_proofs` | the vectors and registers of server and inferior, and their exchange; the theorems |
| `FileIO`, `FileIO_proofs` | the table of file handles between gdb and GEMDOS; the theorems |
| `Fixup`, `Fixup_proofs` | the prg linker, with the loader of TOS reading what it writes; the theorems |
| `FpuCookie` | the `_FPU` cookie that both parts of `Target` look at |
| `TargetXml` | the target description, read in chunks |
| `RegisterFile` | abstract: registers of which gdb keeps copies |
| `Registers` | the register packets over one array of long words, shown to implement `RegisterFile` |
| `Target` | the composition of both: gdb uses the registers it was told of |
| `Startup` | the cookie jar, resident extensions, the command line, the choice of the driver, and the names gdb sends afterwards |
| `Machine_proofs` | the theorems about `Startup` and `Target`: what the server finds out about its machine |
| `MC*` | constants of the instances that TLC checks |

### Session

One processor executes everything, so that the model has one point of execution,
`pc`, and a `stack` of suspended points. An exception or a Ctrl-C pushes the
point it interrupted and continues in a new `ServerCommandLoop` (`Raise`, for
`SaveStateAndSwitchContext` and `Exception`). That loop

- returns to what was interrupted (`ResumeInterrupted`), after `c`;
- goes on in the original TOS vector, if the exception came through a hooked one
  (`ResumeTosHandler`), where TOS ends the process that made the error;
- or never returns, because it ended the inferior: `Pterm` makes execution go on
  after `Pexec` in the frame that called `RunInferior` (`EndProcess`).

A frame records the signal its own loop was called with (a local of the C
code, restored on return), whether the vector was hooked or hijacked, and
whether the interrupted `pc` was in the server's text (`IsServerException`). The
save area for registers is *not* in the frame: the code has one, so that
`savedBy` records which depth wrote it last, and returning with somebody else's
registers leads to `wild`.

The steps are cut where the C code can be interrupted in a way the properties
tell apart: `enter` is the entry of a command loop before `EnableCtrlC(false)`,
`continuing` lies behind `EnableCtrlC(true)`, `pre_run` before
`inferiorState = RUNNING`, `pexec` after it, `unload` before the `Mfree` calls,
`report` before the exit packet. Each command of gdb that moves this state is an
action; all others, which read or write the stopped program and get one reply,
are `CmdQuery`. Receiving a packet and handling it is one step, because nothing
else can run in between: Ctrl-C is disabled there (`CtrlCDiscipline` shows that),
and the exception a handler may raise itself is part of the handler
(`CmdSetBreakpoint`).

gdb has at most one request outstanding (`awaiting`). Three variables belong to
no program state and are read by properties only: `awaiting` and `surplus` for
the conversation, `replaced` for a restart request.

`startBreak` is what the session needs to know of the breakpoint at `__start`:
`planted` (in memory and in the table), `stray` (in memory, and forgotten by the
table) or `gone`. `Breakpoints` has the table itself.

### Breakpoints

The table of `exceptions.c` with its first-fit loops, the words of the inferior,
the bound check as it is written, and what the trap does to `pc`. The words
include the first one behind the inferior, which the check admits. gdb sets a
breakpoint of its own only after the first stop, because it asks for the stop
reason first; that stop may be a Ctrl-C or a fault before `__start` (`Interrupt`),
with the planted breakpoint still there. Any `Z` or `z` may be executed again,
because its acknowledgement was lost: the code does not look whether an address
has a slot, so that a second `Z` takes another one, which stores the trap. gdb writes words
of the stopped program (`WriteMemory`) and may give a new `pc` when it lets the
program go on. Two variables are history: `program` has the words as the user wants them, `unknown`
where gdb wrote under a breakpoint, which the code undoes; `doubled` has the addresses
of this image that were given a slot while they had one, for which the properties
promise nothing (see Findings).

### SCC driver

`SccReceive` has the receive interrupt, the polling reader and `EnableCtrlC`, and
a sender held back by RTS only. `SccTransmit` splits `SccBconout` where the chip
can become free between reading its status and acting on it, and the transmit
interrupt between its acknowledgement and its look at the status. In both, the
ring read in order is the queue of `ByteQueue`. The two halves share no state.

### Packet layer

`PacketLink` reads requests byte by byte, with one action for each place where
`ReceivePacket` and `TransmitPacket` call `GetByte`, and gdb at the other end of
a line that loses or damages bytes in either direction and may be cut. `GetByte`
has three results (`GetByte`, `Killed`, `Dropped`): a byte, the quit key, which is
looked at only when no byte is there, and a dropped connection. At three places
the code does not look which it got (`Misread`): the two bytes of the checksum
and the acknowledgement. `PutByte` waits in a loop while the driver's output buffer is
full (`TxRoom` is its room), and does not look at the key there. A dropped line leads back to `connect`, where the next
gdb may come; the model has the server run with `--multi`. What had arrived before the drop
stays in the driver's buffer and is read before the connection is looked at, and what
waited to be sent stays, too: `Drop` keeps any beginning of what was on its way, and
`Connect` any end of the output buffer. `hit` is history: it says whether something of a cut conversation may be
left, until a request is sent when there is none (`Settled`). gdb is external: it
sends a packet again when it is refused or not acknowledged, takes a packet that
comes instead of an acknowledgement for an old reply, and gives up an answer
that does not come. What is left out: checksums that collide; a byte damaged
into a `$` or into an acknowledgement, which gdb could not tell from a real one;
operation without acknowledgements, which the server does not offer (the
definition of `QStartNoAckMode` is commented out, `server.c:16`); what a dropped
line does to the inferior, which `Session` has. A reply is one byte of the model, so
that it is in the output buffer whole or not at all.

### Context

The machine is a function from *cells* to what they hold: vectors (whose handler
it is), the four MFP enable and mask registers (which bits), the video
registers and `logbase`. `serverCtx` and `inferiorCtx` are the arrays of
`context.c`; `Saved` is what `StoreMemoryRegisters` stores on this machine. The
exchange at an exception is one step, because interrupts are off in
`critical.s`; `SetServerContext`, called when the inferior has ended, is four,
because a Ctrl-C can interrupt it and start a command loop that exchanges
contexts itself. The vectors taken by the MFP driver are part of what is
exchanged, those of the SCC are not. `Shadow` is the mapping of gdb's addresses,
as it is written. `expected` and `taken` are history: what gdb should see, and
which lines the inferior had taken.

The inferior may write any cell, those of the server's own serial line among them. If it
has changed the vector of one of the MFP driver's lines when it is stopped, the mask
switches that line off, although the server gets its vector back, so that
`ServerUndisturbed` promises the line only while the inferior left its vector alone.
gdb's user does not write vectors of a program that has ended. With `Careful`,
gdb keeps to addresses that are mapped right; without, see Findings.

### FileIO

`fd_handles` with its first-fit loops, every vFile request, and ends of paths in
`VfileOpen`: opened, created, refused, no slot. GEMDOS is external: the lowest
free handle, a position, an owner, and closing what a process has left open
when it ends. The command loop executes as the current process, so that a file
opened during a stop of the inferior is the inferior's. A file is its length. `copies` is
history: the handles through which gdb has copied a file in order, from the beginning of a
new handle, and how far it was told it got. `Fseek` is called for positive offsets only,
so that the first transfer goes where the handle is, and not where gdb says.

### Fixup

`main` of `elf-prg` from the first output to its result, one action for each
`fwrite`, for each turn of the loops of `LoadRelocs`, `SortRelocs` and `WriteFixup`, and for each
section. Each `fwrite` may fail, and so may what `fclose` writes (`Close`); `lost` has what
was lost: of what `main` looks at, of the padding, or at the end. Any input
may be missing or unreadable. A relocation section of another type than `SHT_RELA` is
passed over by `LoadRelocs`; `relaText` and `relaData` are the entries it finds, none in
that case. The loader of TOS is external and reads along: a long word,
then bytes, 1 as the escape and 0 as the end. The linker scripts put code at
address 0 and let each long word be relocated once, and long words are at even
addresses, where a 68000 needs them and the compiler puts them (`ImagesAssumption`).

### Target description and registers

In `TargetXml` a character is its position in the text, so that the text gdb has
is intact if it counts up from zero. One action for each turn of the outer loop
of `WriteTargetXML`: a part that is skipped, and one that is copied. gdb asks for
lengths it was promised (`ReadLens`) at the end of what it has, as it does.

`Registers` has the 45 long words of `ExceptionRegisters` and gdb's cache of them.
The server numbers them in two ways, by register in `p`, `P` and the stop reply
and by long word in `g` and `G`, and gdb cuts `g` by the widths of the
description alone (`PackedAt`); that the two are the same file of registers is the refinement of
`RegisterFile`. `Target` composes both with one `_FPU` cookie, which `target_xml.c` and
`server.c` look at each for itself.

### Startup

From the boot to the command loop, and round again when the server ends. The jar
is a sequence of slots. TOS makes it, the extension's `SetCookie` adds to it or
replaces it by a larger one, and so do other resident programs, which are
external and keep the convention that the slot behind the cookies has
the number of slots as its value. Slots behind that one are zero, as TOS and residents
that clear their copy leave them; `PutCookie`, which writes no new end, relies on it. The command line is split at its spaces by
`start.s`, one place at a time from the end (`Split`, and `SplitEnds` for the argument at
the start), and gone through by `HandleOptions`, one action for each branch. `InitComm` then chooses by what `GetCookies` found. `VRun` is gdb naming
another program.

## Runs

| Run | Question | Bounds |
|---|---|---|
| `session_orderly` | With Ctrl-C taken in the inferior and on the way back to it (`continuing`, `resume`): are command loops in an exception always above a running inferior, is gdb's conversation kept, is the life cycle implemented, does quit take effect? | two loads, nesting of two, both kinds of line, with and without `--multi` |
| `session_windows` | With Ctrl-C taken at every point where `CtrlC_enable` can be found set: is memory owned, is there one execution, is the server reachable by Ctrl-C, does it leave nothing behind? | two loads, nesting of three, a line that drops, with and without `--multi` |
| `breakpoints` | Are program, table and gdb in step, also when gdb writes memory, and is no instruction skipped? | two slots, three words and the one behind them, two of them written, a trap of the program's own, odd and foreign addresses |
| `scc_receive` | Is the ring a queue that loses no more than what was under way, and releases the sender? | ring of four, two bytes under way when RTS drops |
| `scc_transmit` | Is the ring a queue that never stalls? | ring of four |
| `packet_link` | Is a request executed once and answered by its own answer over a faulty line, are requests and answers in order after a cut, does nobody wait for ever, and does the quit key end the server? | three requests, the second with a reply that is not acknowledged, an output buffer of two, two faults, one drop, one key |
| `context` | Does each program find its own vectors and registers, the server its serial line, if its vector was left alone, gdb those of the inferior, and TOS its own in the end? | both shifters, both drivers, two MFP lines in each bank, two programs, three changes by program or gdb |
| `file_io` | Are gdb's handles its own and in the table, and are files it copies in order copied without a gap? | two slots, three GEMDOS handles, a file of up to two blocks |
| `fixup` | Is a converted program loaded right, and is a failure `main` looks at reported, wherever a write fails? | every table of up to three relocations of text and one of data, in any order, of every type; five layouts |
| `target` | Does gdb get the description whole, whatever lengths it asks for, and do all packets mean the same register by a number? | parts of 1 to 3 characters, chunks of 3 of 3 to 5 asked for, both with and without FPU; two changes of the registers, one copy of a single register at a time |
| `startup` | Is the jar intact, the driver the right one, and the command line split right, whatever was installed before? | TOS jars of 0, 3 and 4 slots, two resident programs, two extensions, three machines, every line of up to five words and spaces |
| `finding_vrun_name` | see Findings | as `startup` |

Why the bounds are enough. Two loads make every second-time situation happen: a
load request that meets an inferior, a breakpoint left over from an earlier
image, a second vRun after a kill. Nesting of two is one stop of the inferior and one
exception inside its command loop; three adds an interrupt in the entry of that
one, and a fourth loop can be started only by an interrupt in the entry of the third, in
the same way. A ring of four wraps with its position at every index and becomes
full and empty; two byte values tell an order. The table has fewer slots than
there are words, so that it runs full, and two, so that an address given two slots fills
it and shares it with another after one `z`. Two faults damage a packet and its repetition, a packet
and an answer, or make two packets run into each other; three requests let what is
left of the first meet the third, with a cut between them. An output buffer of two is full with
an acknowledgement and a reply, and the next `PutByte` waits. Two lines in each bank of the MFP, one of them the driver's,
distinguish every pair of register bits; two programs show what the first
leaves to the second. One GEMDOS handle more than slots lets the table run full
and the inferior have a file of its own. The relocation offsets 0, 2, 256, 510 and 520
give the distances 254 (no escape), 256 and 264 (one), 508 (an escape and 254) and 518 (two).
Chunks of three over parts of 2, 3, 3 and 1 begin and end on a border and inside every part, cover two
parts at once and a whole one; two changes let a register be written by one packet and
read by another, or the program run in between. A jar of three is full from the beginning, one of four after one
cookie, and two residents and an extension fill what was added. Five elements of a
line are three words, or two with two spaces between, before or behind.

Each passing run checks deadlock; a server that has ended (`Stopped`) stutters explicitly.

### Properties

- `MemoryOwnership`: base page pointer, `inferiorState` and GEMDOS agree on which image exists.
- `OneExecution`: at most one activation of `RunInferior`, which the state speaks of; who suspended what.
- `CtrlCDiscipline`: the inferior never executes deaf, no loop waits with Ctrl-C enabled.
- `CleanExit`: no image survives the server.
- `BreakMeansExecuting`: a command loop in an exception has a `RUNNING` inferior below it.
- `StartBreakKnown`: the trap at `__start` is always the planted one.
- `OnePacketPerRequest`: no packet is sent that gdb does not wait for.
- `ImplementsLifecycle`: refinement of `InferiorLifecycle`.
- `QuitEndsServer`: the quit key ends the server, from any depth.
- `MemoryMatchesTable`, `TableMatchesGdb`, `NoInstructionSkipped`: breakpoints and gdb's memory writes, apart from
  addresses that were given two slots: the program is as gdb wants it around them, and while one of them
  takes slots from others.
- `LossBounded`, `NoLostWakeup`, `ImplementsInputQueue`, `ImplementsOutputQueue`,
  `SenderReleased`: the serial driver.
- `Drains`: every byte that was accepted leaves the machine, out of the slot of the ring it is in and out of the chip,
  whether or not more are written.
- `ServerUndisturbed`: while the server executes, vectors are its own, nothing is on that was off, and its serial line is
  on, unless the inferior had changed the vector of that line.
- `InferiorSilenced`: the interrupts of the inferior are off then, also after an interrupted exit.
- `Transparent`, `GdbSeesInferior`: what was interrupted gets back what it had and what gdb wrote; gdb sees that meanwhile.
- `CleanExit` of `Context`: TOS finds the machine as it was.
- `NoHandleLeaked`, `GdbHandlesValid`: file I/O.
- `CopiesInOrder`: a file gdb copies in order through a new handle is copied without a gap and from one file, whatever else
  is opened, written, truncated or deleted meanwhile.
- `ProgramLoads`: the loader relocates what needs it and nothing else, if neither padding nor the end of the file was lost.
- `ResultIsTrue`: result 0 means that nothing `main` looks at was lost.
- `Terminates`: the prg linker ends.
- `ImplementsRemoteCall`: refinement of `RemoteCall`, exact while nothing of a cut conversation is left and in order otherwise.
- `ExecutedOnce`, `RequestsAnswered`: the packet layer.
- `QuitKeyHeard`: the key ends the server from any wait but the three that take it for a byte, and the loop of
  `PutByte`, which does not look at it and ends when gdb reads or goes.
- `DescriptionIntact`, `DescriptionArrives`: what gdb assembles from chunks is the description, all of it, and no reply is larger than its buffer.
- `ImplementsRegisterFile`: a register written by one packet is the register read by another, and no other changes.
- `JarIntact`: a walk through the jar ends inside its block and finds each cookie once, with its value.
- `DefaultDriver`, `ProgramArguments`: what the server makes of the jar and of its command line. Whether a line that names no
  program turns `--multi` on is left open, because documentation and code disagree (see Findings).

`MemoryOwnership`, `CtrlCDiscipline`, `OneExecution`, `StartBreakKnown` and `CleanExit` hold
wherever Ctrl-C falls. `BreakMeansExecuting` is false if one may fall at `report`: Ctrl-C stays
enabled after the inferior has ended until the next command loop, and one taken there
opens a command loop above nothing. `ImplementsLifecycle` is false if one may fall
inside `RunInferior` (`pre_run`, `pexec`, `unload`): there the inferior is not yet executing
or no longer, and the abstract image is. The conversation is kept when Ctrl-C falls in the
inferior, on the way back to it or inside `RunInferior` (`continuing`, `resume`, `pre_run`, `pexec`,
`unload`), and broken with `load`, `report`, `loop_end` or `enter`, where a stop is reported
that gdb has not asked for. `QuitEndsServer` is checked with the windows of `session_orderly`.

### Fairness

`Session!FairSpec` is weak fairness of the server's own steps together: the
processor keeps executing the server's code. Nothing is assumed of the inferior
(it may loop for ever), of gdb (it may never send again), of the user or of the
line. For the driver: a pending interrupt is served, the chip shifts its byte
out, a `SccBconout` that started runs to its end, and the reader polls, which
`GetByte` does in a loop while a command loop waits. For the packet layer: the
server reads and handles what arrives, and gdb, while it waits, reads what
arrives or runs into its time-out, which comes only when nothing is under way.
gdb is never assumed to send a request, the line to come back, or the key to be pressed.
`Target` assumes that gdb goes on reading the description, which it needs before anything
else, and that the server answers. `Startup` has no liveness property. `Fixup` is a sequential program that waits for
nobody: weak fairness of its next step.

## Proofs

All theorems hold for every value of the constants, as far as the assumptions on them go. Those
of the session: any number of loads, any nesting, any set of interrupt points within
`WindowsAssumption`, either kind of line, with or without `--multi`; three of them
(below) restrict the interrupt points, because the property is false without that.

Session (`Session_proofs`):

- `TypeCorrect`: `Spec => []TypeOK`. `TypeOK` alone is not inductive: returning from
  an exception needs a frame to return to. `TypeInv` adds that `pc = "resume"`
  implies a non-empty stack, and that the bottom frame does not itself resume at
  `resume`, which is what makes popping safe.
- `MemoryIsOwned`: `Spec => []MemoryOwnership`, one step per action, from the same
  type invariant.
- `OneExecutionHolds` and `CtrlCIsDisciplined`: `Spec => []OneExecution` and
  `Spec => []CtrlCDiscipline`, from the inductive `SafetyInv`: the type invariant,
  `MemoryOwnership`, `OneExecution` and `CtrlCDiscipline` together. The parts of `OneExecution`
  in `SessionInvariants` are the strengthening: a Ctrl-C just before
  `inferiorState = RUNNING` leads to a loop that can only kill
  (`PreRunIsKilled`), nothing returns into a handler that was left
  (`HandlersAreLeft`), and whoever is on the way back to the inferior has Ctrl-C
  enabled (`ReturnsAttentive`). Without them a second `RunInferior` above a
  suspended one could not be excluded.
- `ServerExitsClean` and `StartBreakIsKnown`: `CleanExit` and `StartBreakKnown`, from `SafetyInv` and
  `MainThread`: what the state is while nothing is suspended.
- `BreakHasInferior`: `BreakMeansExecuting`, if no Ctrl-C falls at `report`.
- `SessionImplementsLifecycle`: `Spec => ImplementsLifecycle`, each step of the session being one of
  `InferiorLifecycle` or a stutter, if no Ctrl-C falls at `pre_run`, `pexec` or `unload`.
- `PacketsAreAwaited`: `OnePacketPerRequest`, for any nesting, if no Ctrl-C falls at a point between two packets
  (`load`, `report`, `loop_end`, `enter`). `RequestsInv` says for each point where a packet may be
  sent that gdb waits for one. The exception is what makes it inductive: a loop that was
  interrupted on its way back and whose program was killed since comes back owing nothing, but
  then it is deaf and has no program, so that nothing is reported before gdb asks again.

Breakpoints (`Breakpoints_proofs`):

- `MemoryMatches`, `TableMatches` and `NothingIsSkipped`: the properties of `Breakpoints`, for any table,
  program and requests, repeated ones too. `BreakpointInv` adds what they rest on: gdb's breakpoints are in the table and,
  but for the one at `__start` and what is left of an address that had two slots, nothing else is (`SlotsAreGdbs`);
  while the planted one waits to be met it is in its slot and none of gdb's, unless gdb has set one beside it (`StartIsPlanted`).
  `RemoveKeeps` needs that an address takes one slot unless gdb asked for it while it had one (`UniqueSlots`), and that the
  first-fit loop finds one is the well-foundedness of `<`.

Serial driver (`Scc_proofs`), for rings of any length:

- `WakeupIsNotLost`: `TransmitSpec => []NoLostWakeup`. The
  strengthening `StatusIsFresh` speaks of the time between reading the chip's status and
  acting on it: with interrupts off, a chip that was busy either still is or has raised its interrupt.
- `LossIsBounded`: `ReceiveSpec => []LossBounded`, for any number of
  bytes under way. `RtsInv`: RTS is down exactly while the ring is full, and then the
  lost bytes and those in the line together are fewer than were under way.
- `RingImplementsQueue` and `DriverImplementsQueue`: `ReceiveSpec => ImplementsInputQueue` and
  `TransmitSpec => ImplementsOutputQueue`, each step of the driver being a `Put`, a `Take` or a
  stutter of `ByteQueue`. Both rest on the same lemmas: storing behind the last byte appends, a step of the position takes
  the tail, and an index that starts in the ring wraps once.

Packet layer (`PacketLink_proofs`), for any number of requests, faults, drops and keys and any output buffer:

- `ExecutesOnce` and `TypeCorrect`: `ExecutedOnce` and `TypeOK`. The inductive `LinkInv` has two parts. `Ordered`
  holds always: what travels, in either direction and in the driver's buffers, travels in the order of its numbers, between
  what was answered, executed and sent. `Talking`, `HandlesLast` and `TakenOnce` hold while nothing of a cut conversation is left: which
  request the bytes in the line and in the packet belong to, and what each side
  knows of the other while an acknowledgement travels.
- `LinkImplementsRemoteCall`: `Spec => ImplementsRemoteCall`, from `LinkInv`. While nothing of a cut conversation is left, a request that is
  read whole is the outstanding one, and a reply gdb takes is its answer; otherwise `Ordered` gives that
  neither goes back behind what was executed or answered before, nor beyond what was sent.

Context (`Context_proofs`), for any MFP lines, shifters, drivers, programs and changes:

- `TypeCorrect` and `MachineIsGivenBack`: `TypeOK` and `CleanExit`, from `CoreInv`: what was saved at the start
  never changes, and the saved cells not exchanged are still what they were.
- `ServerIsUndisturbed`, `InferiorIsSilenced`, `GdbSeesTheInferior` and `SwitchesAreTransparent`: the
  properties of the same names, with `Careful`, that is if gdb keeps to the
  addresses that are mapped right (see Findings for the others). `CarefulInv` adds to `CoreInv` where the server's
  vectors are at each step of an interrupted `SetServerContext`, and that the
  mask has the lines the inferior did not take, the server's own among them, and no other.

File I/O (`FileIO_proofs`), for any table, GEMDOS handles and lengths:

- `TypeCorrect`, `NothingIsLeaked`, `GdbHandlesAreItsOwn` and `CopiesAreWhole`. `TableInv`: each file of the server
  is in one slot, and each slot that gdb may use names an open file. `CopiesInOrder` is inductive with it: no handle of
  gdb's is given away, so that only gdb's own transfers move it.
  That `AddHandle` finds the first free slot is the well-foundedness of `<`.

Prg linker (`Fixup_proofs`), for any elf files that keep `ImagesAssumption`:

- `ConvertedProgramLoads`, `SuccessIsTrue` and `TypeCorrect`: `ProgramLoads`, `ResultIsTrue` and `TypeOK`. `FixupInv` has one part for each phase:
  the file has the layout of the header so far, unless padding was lost (`Laid`), and at the end (`Layout`); `relocs` has what was loaded so far, no long
  word twice (`Gathered`, `Distinct`); the order behind which the selection sort has got (`Sorted`);
  and the loader has relocated exactly what the writer has gone past, and stands `deltaFix` before the
  next one (`Encoded`). The evenness of addresses is needed: an escape leaves a distance
  of 1 from one of 255, and the loader takes that for a second escape.

What the server finds out about its machine (`Machine_proofs`):

- `CookiesAreFound` and `DriverIsRight`: `JarIntact` and `DefaultDriver` of `Startup`, for any jars, resident programs,
  extensions and command lines. `JarInv`: the slots before the end have the cookies that were
  set, each once, those behind it none; the end has the number of slots or, once an
  extension came, zero. That is why the first extension always finds room, although it
  writes no new end, and why there is none for a resident program after it.
- `ArgumentsAreSplit`: `ProgramArguments` of `Startup`, for command lines of any length. `OptionInv`:
  behind the place at which `start.s` is, the arguments are the words that start there, all of them in their
  order (`Lists`, with `WordInFront` for one more); and what `HandleOptions` has set is
  what the arguments before the one it is at say (`ReadSoFar`), whether the program was named or not yet.
- `DescriptionIsIntact`: `DescriptionIntact` of `TargetXml`, for parts and packets of any length and whatever gdb
  asks for. `XmlInv`: what gdb has is a prefix of the text, the loop is at the part the
  rest begins in (`Place`), and what is written so far leaves room for what is asked (`Fits`).
- `TargetImplementsRegisterFile`: `Spec => ImplementsRegisterFile` of `Target`. `LongsArePacked` is its core: the long
  word gdb cuts out of `g` by the widths of the description is the one the server
  numbers by register in `p`; `RegistersApart`: no two registers share one.

The assumptions are those of each module on its constants, which TLC evaluates in
each run: `BoundsAssumption`, `WindowsAssumption` and `OptionsAssumption` of `Session`;
`SizesAssumption` and `TargetsAssumption` of `Breakpoints`; `LengthAssumption` of `SccRing`,
`BytesAssumption` and `FlightAssumption` of `SccReceive`; `RequestsAssumption`, `RoomAssumption` and `FaultsAssumption` of `PacketLink`;
`BitsAssumption`, `LinesAssumption`, `ChoicesAssumption` and `BoundsAssumption` of `Context`;
`HandlesAssumption` and `LengthAssumption` of `FileIO`; `SizesAssumption` and `ImagesAssumption` of `Fixup`;
`MachinesAssumption`, `JarAssumption`, `ResidentsAssumption`, `OptionsAssumption` and `LinesAssumption` of `Startup`
(a word is of one kind, as `HandleOptions` asks for one after the other, and two words have a space between them);
`PartsAssumption` and `SizesAssumption` of `TargetXml`, `CpuAssumption` and `ChangesAssumption` of `Registers`.

Only model-checked: liveness under fairness (`Drains`, `SenderReleased`, `QuitEndsServer` and the
others), which is beyond the prover.
`TypeOK` is proved for `Session`, `PacketLink`, `Context`, `FileIO` and `Fixup`, as part of the invariants for
`Breakpoints` and the driver.

## Findings

- **vRun runs a program gdb did not name** (`finding_vrun_name`, `packet.c:389`).
  `GetHexString` writes the name over the last one and no zero behind it. After a
  longer name the new one ends with the tail of the old. The arguments, handled by
  the same function, get their zero.

Found while modelling, each by a run that is not kept, session:

- **Restart does not restart** (`server.c:624`). `R` sets `RUN`, and the branch
  for `RESTART`, which would kill first, is unreachable. With a running inferior
  the loop returns into it, and it goes on executing with Ctrl-C disabled: the
  invariant `pc = "inferior" => inferiorBasePage # replaced` of `Session` is false. This is
  why several properties except the image in `replaced`.
- **The abort code is lost** (`server.c:465`). `si_signo = GDB_SIGABRT` is
  assigned to a parameter passed by value, so that the return code -1, for which
  `server.c:526` leaves the extended protocol, never occurs.
- **gdb sees the wrong MFP registers** (`context.c:303`).
  `InferiorContextMemoryAddress` maps `fffffa11` and `fffffa13` to the bytes saved
  from `fffffa13` and `fffffa15`; `fffffa15` and the second word of `0x44e` are not
  mapped, and on machines other than the ST none of the MFP registers is.
  `GdbSeesInferior` is false with `Careful = FALSE`.

- A Ctrl-C at the entry of a command loop aborts the session (`server.c:567`): only
  the Ctrl-C path of the driver clears `CtrlC_enable` before the entry, breakpoints
  and errors come in with it set, and the interrupt level is lowered first.
- A breakpoint without an inferior (`exceptions.c:49`) reads through a NULL base page: a
  bus error in user mode, after which TOS ends the server with its vectors
  still installed (`pc = "dead"` of `Session`). The bound check (`exceptions.c:51`)
  admits the first word behind the inferior.
- With `--multi`, a load error is reported again by every later command loop,
  because only `USERCODE_REPORT` is reset (`server.c:434`), which is why
  `OnePacketPerRequest` excludes `--multi`.
- RTS is dropped by the byte that fills the ring, so that a sender with two bytes
  under way loses one (`comm_mfp_scc.s:238`; `LossBounded` bounds the loss).
- `inferior_workpath` is never written (`inferior.c:21`), so that an empty `QSetWorkingDir`
  does not reset the directory (`server.c:126`).
- A `Z` for an address that has a breakpoint takes a second slot (`exceptions.c:55-63`): the loop looks for a free one and
  not for the address. gdb sends a `Z` again when its acknowledgement was lost (`PacketLink` shows such a request executed twice). The
  second slot stores the trap; one `z` gives back the first one alone, the slot left over counts as a breakpoint that gdb
  does not know, a second `z` writes the trap back for good, and each repetition takes a slot of the table until it is discarded.
  `UniqueSlots` without `doubled` is false, and so are `TableMatchesGdb` and `MemoryMatchesTable`.
- The same happens with a `Z` for `__start` while the planted breakpoint is there, which is so if Ctrl-C or a fault stops the
  inferior before it has come to it.
- A `z` for address 0 would match a free slot (`exceptions.c:72`), and write its stored word to address 0. gdb sends none, because a `Z` for it is refused.
- An `M` over a word that holds a breakpoint changes the trap and not the word in
  the table: the breakpoint is gone at once, and the write when it is cleared (`packet.c:665`).

Packet layer and registers:

- A quit key taken where a checksum or an acknowledgement is expected is lost, and
  has to be pressed again (`packet.c:168-169`, `235`).
- A line that drops while the server waits for an acknowledgement, transmits or waits for a
  connection does not kill the inferior; only a drop seen by `ReceivePacket` does.
- Bytes left in the driver's buffers when a line drops are read as the next gdb's, and sent to it: `GetByte` asks the driver for a
  byte first, and looks at the connection only if there is none (`comm.c:32-45`, `113-124`, `packet.c:72-88`). A request of the last gdb can so be executed for the next
  one, which takes its acknowledgement and its answer for its own. `RemoteCall` without `cut`
  is false; that requests and answers keep their order is what is left.
- `PutByte` waits for room without a look at the quit key (`comm.c:47-52`).
- `inPacket` is filled without a look at its size (`packet.c:132`, `153`): packets whose `#` was
  damaged, one after the other, run over it.
- `G` is refused on a machine without FPU, because its length is compared with that of
  all registers (`packet.c:492`). `P` for a register the server does not have is answered `OK` and ignored;
  with an FPU beside a 68000 (SFP004) such registers are described (`target_xml.c:67`) but not
  there (`server.c:693`), which `RegInit` excludes.

Options and cookie jar:

- `comm` cannot be `AUX`, its documented default (`main.c:28`): only words that begin with `COM`
  are taken for it (`main.c:105`), and those fit no driver, so that the server does not start.
- `main.c:29` says of `prog`: "Default if missing: turns on option --multi". `HandleOptions` sets `option_multi` for the word
  `--multi` only (`main.c:66-96`, `112-120`); a server without a program ends with its first connection, unless gdb asks for the extended protocol (`server.c:753`). `ProgramArguments` demands
  neither: it says nothing of `option_multi` for a line without a program.
- A command line that begins with a space has an empty first argument, which is taken
  for the name of the program (`start.s:65`); `ProgramArguments` leaves it out.
- `PutCookie` overwrites the number of slots with the cookie's value and does not write it
  behind (`start.s:94-95` of the extensions), so that the next resident program that keeps the
  convention finds a jar without room and replaces it, whether it was full or not. A second
  extension finds `SDBG` and does not stay.
- On a TOS without jar (`0x5a0` is zero) the extension walks the exception vectors as if they were one.
- `vRun;` without anything behind it keeps the name and drops the arguments, although `server.c:354` says "restart previous".

Context:

- After a kill, the MFP lines the program had taken stay off, for the server and
  for the next program, until the server ends (`context.c:91`).
- `ExceptionSafeMemoryRead` and `-Write` leave the server's handler in the bus error vector,
  over one the inferior has installed (`critical.s:343`, `373`).
- A driver that does not initialise leaves the exceptions hooked (`context.c:43`,
  `server.c:705`), which `CleanExit` excludes.
- An inferior that changes a vector of the MFP driver's own lines (`0x104`, `0x130`) has the server's serial interrupt switched off
  when it is stopped: `GetMfpChangedMask` finds the vector changed (`context.c:106-119`), and the mask takes the line out of the
  server's registers (`context.c:231-234`), although `RestoreVectors` has just given the vector back. The server does not hear gdb any
  more. `ServerUndisturbed` with all of `DriverLines` is false. The vectors of the SCC (`0x180` and behind) are in no context at all:
  an inferior that takes them keeps them while the server executes.
- After an exception in its own code the server computes the mask anew, from its own vectors:
  interrupts the inferior had taken go on again.

File I/O:

- GEMDOS closes files opened during a stop when the inferior ends, the table keeps their
  slots, and a `close` for one fails and keeps it, too (`file_io.c:155`). After that a
  handle of gdb may be a file of the next inferior: `GdbHandlesValid` ends there.
- A connection that is dropped leaves its slots taken.
- A pread or pwrite at offset zero goes where the handle is and not to the beginning (`file_io.c:184`, `208`): a second pass through a
  file reads nothing, a handle opened for appending is written at its end (as it should be) and read from
  there, and a first pread that is executed again because its acknowledgement was lost reads on. `CopiesInOrder` is what is left.
- `O_CREAT | O_EXCL | O_TRUNC` truncates a file that exists (`file_io.c:105-116`).
- `VfileClose` does not look whether the handle is gdb's, `IsHandle(-1)` is true while a
  slot is free, and `VfileFstat` passes the handle to `Fgetdta`, which takes none.
- `GetFileArgs` replaces the first `,` or `:` in the data of a pwrite (`packet.c:363`).

Linker:

- Two entries for one long word, or one at address 0, would end the table early, with result 0;
  an odd distance of 255 would be written as an escape and 1, which the loader takes for two escapes.
- The result of `fclose` is not looked at (`elf-prg/main.c:585`), nor are those of the padding's `fwrite`s (`elf-prg/main.c:185-190`), so that what
  stdio still buffers, and the place of `.data` and of the table, can be lost with result 0; a failing conversion leaves its file.
- A relocation section that is not of type `SHT_RELA`, or a symbol table that is not `SHT_SYMTAB`, is passed over with
  success (`elf-prg/main.c:196`, `219`, `226`, `280`): its relocations are missing from a program that main says was converted.

## Plan

Every module has its run, and every safety property its theorem. What is left: the MFP
driver's Ctrl-C filter, and the file arguments of `vFile` packets.

## Not modelled, and why

The drivers the resident extensions bring are left out: the stub has none, and the one for
MIDI polls the BIOS. `CaptureMfpData` is left out of the contexts, and FPU registers are
values in `Registers` only. The lengths of the buffers for names, arguments and packets are
not modelled. The MFP
driver keeps its buffers in the BIOS, whose code is not part of this repository;
`Session` has its Ctrl-C and its connection state. Logging, console output,
number formatting and BIOS wrappers keep no state a property could be about. The
hardware information program, the examples and the build scripts are
demonstrations. Timing (`TimeOut`) appears as nondeterminism only.
