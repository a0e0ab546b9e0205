------------------------------- MODULE FileIO -------------------------------
(***************************************************************************)
(* Remote file operations: the table of handles of gdbserver/file_io.c,    *)
(* the vFile requests of CmdFileOperation in gdbserver/server.c, GEMDOS    *)
(* below and gdb above.                                                    *)
(*                                                                         *)
(* GEMDOS is external: it gives a file the lowest free handle, keeps a     *)
(* position for it, and closes what a process has left open when it ends.  *)
(* The command loop executes as whatever process is current, so that a     *)
(* file opened while the inferior is stopped belongs to the inferior.      *)
(*                                                                         *)
(* A file is abstracted to its length, data to how much of it there is.    *)
(***************************************************************************)
EXTENDS Naturals, Integers, FiniteSets, FiniteSetsExt, Functions

CONSTANTS NUM_HANDLES,  \* slots of fd_handles
          GemHandles,   \* the handles GEMDOS has
          Files,        \* file names
          MaxLength     \* bound of the length of a file

ASSUME HandlesAssumption == NUM_HANDLES \in Nat \ {0} /\ GemHandles \subseteq Nat
ASSUME LengthAssumption == MaxLength \in Nat

Slots == 0..(NUM_HANDLES - 1)
Flags == {"creat", "append", "excl", "trunc"}

VARIABLES
  fd_handles,  \* the table; -1 is a free slot
  length,      \* GEMDOS: the files that exist, and their lengths
  open,        \* GEMDOS: the open handles
  process,     \* GEMDOS: the current process, "server" or "inferior"
  serving,     \* the server has not ended
  gdbFds,      \* the handles gdb was given and has not closed
  \* history, only read by properties
  orphaned,    \* an inferior has ended while gdb had files open through it
  copies       \* the handles through which gdb has copied a file in order, from its
               \* beginning: which file, and how much gdb was told was transferred

vars == <<fd_handles, length, open, process, serving, gdbFds, orphaned, copies>>

Handle == [file : Files, pos : 0..MaxLength, owner : {"server", "inferior"},
           by : {"gdb", "program"}]

TypeOK == /\ fd_handles \in [Slots -> GemHandles \cup {-1}]
          /\ DOMAIN length \subseteq Files /\ \A f \in DOMAIN length : length[f] \in 0..MaxLength
          /\ DOMAIN open \subseteq GemHandles /\ \A h \in DOMAIN open : open[h] \in Handle
          /\ process \in {"server", "inferior"}
          /\ serving \in BOOLEAN
          /\ gdbFds \subseteq GemHandles
          /\ orphaned \in BOOLEAN
          /\ DOMAIN copies \subseteq gdbFds
          /\ \A fd \in DOMAIN copies : copies[fd] \in [file : Files, at : 0..MaxLength]

Init == /\ fd_handles = [i \in Slots |-> -1]
        /\ length \in UNION {[present -> {0, MaxLength}] : present \in SUBSET Files}
        /\ open = << >>
        /\ process = "server" /\ serving = TRUE
        /\ gdbFds = {} /\ orphaned = FALSE
        /\ copies = << >>

-----------------------------------------------------------------------------
(* GEMDOS *)

Free  == GemHandles \ DOMAIN open
NewFd == Min(Free)

Entry(f, pos, by) == [file |-> f, pos |-> pos, owner |-> process, by |-> by]
With(handles, h, entry) == [k \in DOMAIN handles \cup {h} |-> IF k = h THEN entry ELSE handles[k]]

-----------------------------------------------------------------------------
(* The table *)

Table == {fd_handles[i] : i \in Slots} \ {-1}
FreeSlots == {i \in Slots : fd_handles[i] = -1}

\* The table with fd in its first free slot.
AddHandle(table, fd) ==
  LET free == {i \in Slots : table[i] = -1}
  IN IF free = {} THEN table ELSE [table EXCEPT ![Min(free)] = fd]

\* Mutant of RemoveHandle: the slot is kept.
RemoveHandleNot(table, fd) == table

\* The table without the first slot that holds fd, if there is one.
RemoveHandle(table, fd) ==
  LET found == {i \in Slots : table[i] = fd}
  IN IF found = {} THEN table ELSE [table EXCEPT ![Min(found)] = -1]

IsHandle(fd) == fd \in Table

-----------------------------------------------------------------------------
(* vFile *)

\* Fopen finds the file; with O_TRUNC it is not tried.
Opens(f, flags) == "trunc" \notin flags /\ f \in DOMAIN length /\ Free # {}

\* Fopen failed, for whatever reason, and Fcreate is allowed.
Creates(f, flags) == ~Opens(f, flags) /\ flags \cap {"creat", "trunc"} # {} /\ Free # {}

\* Mutant of VfileOpen: the handle is not closed when the table is full.
VfileOpenLeaks(f, flags) ==
  /\ Opens(f, flags) /\ ~({"creat", "excl"} \subseteq flags)
  /\ open' = With(open, NewFd, Entry(f, IF "append" \in flags THEN length[f] ELSE 0, "gdb"))
  /\ fd_handles' = AddHandle(fd_handles, NewFd)
  /\ gdbFds' = IF FreeSlots = {} THEN gdbFds ELSE gdbFds \cup {NewFd}
  /\ UNCHANGED <<length, process, serving, orphaned, copies>>

\* A file that could be opened although it had to be new is closed again, and
\* so is one that cannot be positioned or has no slot; then gdb gets an error.
VfileOpen(f, flags) ==
  LET opens   == Opens(f, flags) /\ ~({"creat", "excl"} \subseteq flags)
      creates == Creates(f, flags)
      end     == IF opens THEN length[f] ELSE 0
  IN /\ length' = IF creates THEN With(length, f, 0) ELSE length
     /\ \/ /\ opens \/ creates
           /\ FreeSlots # {}
           /\ open' = With(open, NewFd, Entry(f, IF "append" \in flags THEN end ELSE 0, "gdb"))
           /\ fd_handles' = AddHandle(fd_handles, NewFd)
           /\ gdbFds' = gdbFds \cup {NewFd}
           /\ copies' = IF "append" \in flags THEN Restrict(copies, DOMAIN copies \ {NewFd})
                        ELSE With(copies, NewFd, [file |-> f, at |-> 0])
        \/ /\ (opens \/ creates) => FreeSlots = {} \/ "append" \in flags
           /\ UNCHANGED <<open, fd_handles, gdbFds, copies>>
     /\ UNCHANGED <<process, serving, orphaned>>

\* Any handle is closed, whether the table has it or not; what GEMDOS does not
\* know any more is an error, and keeps its slot.
VfileClose(fd) ==
  /\ IF fd \in DOMAIN open
       THEN /\ open' = Restrict(open, DOMAIN open \ {fd})
            /\ fd_handles' = RemoveHandle(fd_handles, fd)
       ELSE UNCHANGED <<open, fd_handles>>
  /\ gdbFds' = gdbFds \ {fd}
  /\ copies' = Restrict(copies, DOMAIN copies \ {fd})
  /\ UNCHANGED <<length, process, serving, orphaned>>

Lesser(a, b) == IF a < b THEN a ELSE b

\* Mutant of SeekPosition: Fseek from where the handle is, mode 1 instead of 0.
SeekPositionRelative(fd, offset) == open[fd].pos + offset

\* Where a pread or pwrite starts: Fseek is only called for a positive offset.
SeekPosition(fd, offset) == IF offset > 0 THEN offset ELSE open[fd].pos

MovedTo(fd, pos) == open' = [open EXCEPT ![fd].pos = pos]

\* gdb is told how much was transferred, and goes on behind it if it copies.
Answer(fd, offset, count) ==
  copies' = IF fd \in DOMAIN copies /\ copies[fd].at = offset
              THEN [copies EXCEPT ![fd].at = @ + count]
              ELSE Restrict(copies, DOMAIN copies \ {fd})

\* Fseek fails behind the end of the file, and nothing is read.  Neither is it from
\* a position that is behind the end since the file was truncated.
VfileRead(fd, offset, count) ==
  /\ IsHandle(fd) /\ fd \in DOMAIN open /\ open[fd].file \in DOMAIN length
  /\ offset <= length[open[fd].file]
  /\ LET start == SeekPosition(fd, offset)
         end   == Lesser(start + count, length[open[fd].file])
     IN /\ start <= length[open[fd].file]
        /\ MovedTo(fd, end)
        /\ Answer(fd, offset, end - start)
  /\ UNCHANGED <<fd_handles, length, process, serving, gdbFds, orphaned>>

VfileWrite(fd, offset, count) ==
  /\ IsHandle(fd) /\ fd \in DOMAIN open /\ open[fd].file \in DOMAIN length
  /\ offset <= length[open[fd].file]
  /\ LET start == SeekPosition(fd, offset)
         end   == start + count
     IN /\ end <= MaxLength
        /\ MovedTo(fd, end)
        /\ Answer(fd, offset, count)
        /\ length' = [length EXCEPT ![open[fd].file] = IF @ < end THEN end ELSE @]
  /\ UNCHANGED <<fd_handles, process, serving, gdbFds, orphaned>>

\* The handle is added and removed again; if the table is full or a slot holds the
\* same handle already, that makes a difference.
VfileStat(f) ==
  /\ f \in DOMAIN length /\ Free # {}
  /\ fd_handles' = RemoveHandle(AddHandle(fd_handles, NewFd), NewFd)
  /\ UNCHANGED <<length, open, process, serving, gdbFds, orphaned, copies>>

VfileDelete(f) ==
  /\ f \in DOMAIN length
  /\ length' = Restrict(length, DOMAIN length \ {f})
  /\ UNCHANGED <<fd_handles, open, process, serving, gdbFds, orphaned, copies>>

\* The server ends, with no inferior.
ExitFileIO ==
  /\ process = "server" /\ serving
  /\ open' = Restrict(open, DOMAIN open \ Table)
  /\ fd_handles' = [i \in Slots |-> -1]
  /\ serving' = FALSE /\ gdbFds' = {} /\ copies' = << >>
  /\ UNCHANGED <<length, process, orphaned>>

-----------------------------------------------------------------------------
(* gdb and the inferior *)

\* gdb uses the handles it was given.
Request ==
  /\ serving
  /\ \/ \E f \in Files :
          \/ \E flags \in SUBSET Flags : VfileOpen(f, flags)
          \/ VfileStat(f)
          \/ VfileDelete(f)
     \/ \E fd \in gdbFds :
          \/ VfileClose(fd)
          \/ \E offset, count \in 0..MaxLength :
               VfileRead(fd, offset, count) \/ VfileWrite(fd, offset, count)

\* The connection is dropped, and a new gdb knows no handles; the table stays.
Reconnect ==
  /\ serving /\ gdbFds # {}
  /\ gdbFds' = {} /\ copies' = << >>
  /\ UNCHANGED <<fd_handles, length, open, process, serving, orphaned>>

InferiorStarts ==
  /\ serving /\ process = "server"
  /\ process' = "inferior"
  /\ UNCHANGED <<fd_handles, length, open, serving, gdbFds, orphaned, copies>>

InferiorOpens(f) ==
  /\ process = "inferior" /\ f \in DOMAIN length /\ Free # {}
  /\ open' = With(open, NewFd, Entry(f, 0, "program"))
  /\ UNCHANGED <<fd_handles, length, process, serving, gdbFds, orphaned, copies>>

InferiorCloses(fd) ==
  /\ process = "inferior" /\ fd \in DOMAIN open /\ open[fd].by = "program"
  /\ open' = Restrict(open, DOMAIN open \ {fd})
  /\ UNCHANGED <<fd_handles, length, process, serving, gdbFds, orphaned, copies>>

\* By itself or killed.
InferiorEnds ==
  LET its == {h \in DOMAIN open : open[h].owner = "inferior"}
  IN /\ process = "inferior"
     /\ process' = "server"
     /\ open' = Restrict(open, DOMAIN open \ its)
     /\ orphaned' = (orphaned \/ \E h \in its : open[h].by = "gdb")
     /\ UNCHANGED <<fd_handles, length, serving, gdbFds, copies>>

Stopped == ~serving /\ UNCHANGED vars

Next == \/ Request \/ Reconnect \/ ExitFileIO
        \/ InferiorStarts \/ InferiorEnds
        \/ \E f \in Files : InferiorOpens(f)
        \/ \E fd \in GemHandles : InferiorCloses(fd)
        \/ Stopped

Spec == Init /\ [][Next]_vars

-----------------------------------------------------------------------------
(* Properties *)

\* A handle that was opened for gdb is in the table until it is closed, whichever
\* way VfileOpen and VfileStat leave; so ExitFileIO can close all of them, and
\* does (file_io.c:36-46, 96-151).
NoHandleLeaked ==
  \A h \in DOMAIN open : open[h].by = "gdb" => serving /\ h \in Table

\* The handles gdb has are valid, are its own and are in one slot each: it cannot
\* read, write or close a file that the inferior has opened.  This holds until
\* an inferior ends while gdb has files open that were opened during its stops:
\* GEMDOS closes them, the table keeps them, and their numbers are used again
\* (file_io.c:48-84, 153-166).
GdbHandlesValid ==
  ~orphaned => /\ \A fd \in gdbFds : fd \in Table /\ fd \in DOMAIN open /\ open[fd].by = "gdb"
               /\ \A i, j \in Slots : fd_handles[i] = fd_handles[j] => i = j \/ fd_handles[i] = -1

\* A file that gdb copies in order, from its beginning, is copied without a gap and
\* from one file: where GEMDOS goes on is where gdb goes on, whatever else is opened,
\* written or truncated meanwhile.  Offset zero is not looked for, and need not be
\* as long as the handle is new; a second pass through it, a first transfer that is
\* executed again because its acknowledgement was lost, and a handle opened for
\* appending are no such copies: they begin where the handle is
\* (file_io.c:179-217).
CopiesInOrder ==
  ~orphaned => \A fd \in DOMAIN copies : /\ fd \in DOMAIN open
                                         /\ open[fd].file = copies[fd].file
                                         /\ open[fd].pos = copies[fd].at
=============================================================================
