---------------------------- MODULE FileIO_proofs ----------------------------
(***************************************************************************)
(* Remote file operations, for a table of any length, any handles and any  *)
(* files.                                                                  *)
(***************************************************************************)
EXTENDS FileIO, WellFoundedInduction, TLAPS

\* The library's fact about < in the form SMT reads.
LessThan == {p \in Nat \X Nat : p[1] < p[2]}

\* No slot number has infinitely many below it: the search for the first free slot ends.
LEMMA LessThanWellFounded == IsWellFoundedOn(LessThan, Nat)
BY NatLessThanWellFounded, Zenon DEF OpToRel, LessThan

\* The loops of file_io.c and GEMDOS find the lowest of what there is.
LEMMA MinIsMember ==
  ASSUME NEW S \in SUBSET Nat, S # {}
  PROVE  Min(S) \in S
<1>1. PICK i \in S : \A j \in S : ~(<<j, i>> \in LessThan)
  BY LessThanWellFounded, WFMin
<1>2. \A j \in S : i <= j
  <2> TAKE j \in S
  <2>1. i \in Nat /\ j \in Nat /\ ~(j < i)
    BY <1>1 DEF LessThan
  <2> QED
    BY <2>1
<1> QED
  BY <1>2 DEF Min

\* The slots are numbered.
LEMMA SlotsAreNat == Slots \subseteq Nat
BY HandlesAssumption DEF Slots

\* AddHandle takes a free slot, if there is one.
LEMMA AddHandleTakesFreeSlot ==
  ASSUME NEW table, NEW fd
  PROVE  \/ /\ \A i \in Slots : table[i] # -1
            /\ AddHandle(table, fd) = table
         \/ \E s \in Slots : table[s] = -1 /\ AddHandle(table, fd) = [table EXCEPT ![s] = fd]
<1> DEFINE free == {i \in Slots : table[i] = -1}
<1>1. CASE free = {}
  BY <1>1 DEF AddHandle
<1>2. CASE free # {}
  <2>1. Min(free) \in free
    BY <1>2, MinIsMember, SlotsAreNat
  <2>2. AddHandle(table, fd) = [table EXCEPT ![Min(free)] = fd]
    BY <1>2 DEF AddHandle
  <2> QED
    BY <2>1, <2>2
<1> QED
  BY <1>1, <1>2

\* RemoveHandle frees a slot that holds the handle, if there is one.
LEMMA RemoveHandleFreesSlot ==
  ASSUME NEW table, NEW fd
  PROVE  \/ /\ \A i \in Slots : table[i] # fd
            /\ RemoveHandle(table, fd) = table
         \/ \E s \in Slots : table[s] = fd /\ RemoveHandle(table, fd) = [table EXCEPT ![s] = -1]
<1> DEFINE found == {i \in Slots : table[i] = fd}
<1>1. CASE found = {}
  BY <1>1 DEF RemoveHandle
<1>2. CASE found # {}
  <2>1. Min(found) \in found
    BY <1>2, MinIsMember, SlotsAreNat
  <2>2. RemoveHandle(table, fd) = [table EXCEPT ![Min(found)] = -1]
    BY <1>2 DEF RemoveHandle
  <2> QED
    BY <2>1, <2>2
<1> QED
  BY <1>1, <1>2

\* GEMDOS gives a handle that is not open.
LEMMA NewFdIsFree ==
  ASSUME Free # {}
  PROVE  NewFd \in GemHandles \ DOMAIN open /\ NewFd \in Nat
<1>1. NewFd \in Free
  BY MinIsMember, HandlesAssumption DEF NewFd, Free
<1> QED
  BY <1>1, HandlesAssumption DEF Free

\* A file that exists has a length.
LengthTypes == DOMAIN length \subseteq Files /\ \A f \in DOMAIN length : length[f] \in 0..MaxLength
OpenTypes   == DOMAIN open \subseteq GemHandles /\ \A h \in DOMAIN open : open[h] \in Handle
CopyTypes   == /\ DOMAIN copies \subseteq gdbFds
               /\ \A fd \in DOMAIN copies : copies[fd] \in [file : Files, at : 0..MaxLength]

\* What VfileOpen does to the tables: a new handle, or nothing.
Opened(f) ==
  /\ Free # {} /\ FreeSlots # {}
  /\ \E pos \in 0..MaxLength :
       /\ open' = With(open, NewFd, Entry(f, pos, "gdb"))
       /\ \/ copies' = Restrict(copies, DOMAIN copies \ {NewFd})
          \/ pos = 0 /\ copies' = With(copies, NewFd, [file |-> f, at |-> 0])
  /\ fd_handles' = AddHandle(fd_handles, NewFd)
  /\ gdbFds' = gdbFds \cup {NewFd}

\* An open request opens the file, or leaves GEMDOS and the table alone; it creates or
\* truncates the file, or leaves its length alone.
LEMMA OpenOrNothing ==
  ASSUME TypeOK, NEW f \in Files, NEW flags \in SUBSET Flags, VfileOpen(f, flags)
  PROVE  /\ Opened(f) \/ UNCHANGED <<open, fd_handles, gdbFds, copies>>
         /\ length' = length \/ length' = With(length, f, 0)
<1> DEFINE opens   == Opens(f, flags) /\ ~({"creat", "excl"} \subseteq flags)
           creates == Creates(f, flags)
           end     == IF opens THEN length[f] ELSE 0
           pos     == IF "append" \in flags THEN end ELSE 0
<1>1. length' = IF creates THEN With(length, f, 0) ELSE length
  BY Zenon DEF VfileOpen
<1>2. \/ /\ opens \/ creates
         /\ FreeSlots # {}
         /\ open' = With(open, NewFd, Entry(f, pos, "gdb"))
         /\ fd_handles' = AddHandle(fd_handles, NewFd)
         /\ gdbFds' = gdbFds \cup {NewFd}
         /\ copies' = IF "append" \in flags THEN Restrict(copies, DOMAIN copies \ {NewFd})
                      ELSE With(copies, NewFd, [file |-> f, at |-> 0])
      \/ UNCHANGED <<open, fd_handles, gdbFds, copies>>
  BY Zenon DEF VfileOpen
<1>3. opens => f \in DOMAIN length
  BY DEF Opens
<1>4. opens \/ creates => Free # {}
  BY DEF Opens, Creates
<1>5. pos \in 0..MaxLength
  BY <1>3, LengthAssumption DEF TypeOK
<1>6. "append" \notin flags => pos = 0
  OBVIOUS
<1> HIDE DEF opens, creates, end, pos
<1> QED
  BY <1>1, <1>2, <1>4, <1>5, <1>6 DEF Opened

\* A new entry is one more open handle of its type.
LEMMA WithTypes ==
  ASSUME OpenTypes, process \in {"server", "inferior"}, Free # {},
         NEW f \in Files, NEW pos \in 0..MaxLength, NEW by \in {"gdb", "program"},
         open' = With(open, NewFd, Entry(f, pos, by))
  PROVE  /\ OpenTypes'
         /\ DOMAIN open' = DOMAIN open \cup {NewFd}
         /\ \A h \in DOMAIN open : open'[h] = open[h]
         /\ open'[NewFd].by = by /\ open'[NewFd].file = f /\ open'[NewFd].pos = pos
<1> DEFINE e == Entry(f, pos, by)
<1>1. e \in Handle /\ e.by = by /\ e.file = f /\ e.pos = pos
  BY DEF Entry, Handle
<1>2. NewFd \in GemHandles \ DOMAIN open
  BY NewFdIsFree
<1>3. open' = [k \in DOMAIN open \cup {NewFd} |-> IF k = NewFd THEN e ELSE open[k]]
  BY DEF With
<1> HIDE DEF e
<1> QED
  BY <1>1, <1>2, <1>3 DEF OpenTypes

\* Closed handles do not change the others.
LEMMA RestrictTypes ==
  ASSUME OpenTypes, NEW H, open' = Restrict(open, DOMAIN open \ H)
  PROVE  /\ OpenTypes'
         /\ DOMAIN open' = DOMAIN open \ H
         /\ \A h \in DOMAIN open \ H : open'[h] = open[h]
BY DEF OpenTypes, Restrict

\* A transfer moves one handle, and nothing else.
LEMMA MovedTypes ==
  ASSUME OpenTypes, NEW fd \in DOMAIN open, NEW pos \in 0..MaxLength, MovedTo(fd, pos)
  PROVE  /\ OpenTypes' /\ DOMAIN open' = DOMAIN open
         /\ open'[fd].pos = pos /\ open'[fd].file = open[fd].file
         /\ \A h \in DOMAIN open : open'[h].by = open[h].by
         /\ \A h \in DOMAIN open \ {fd} : open'[h] = open[h]
<1>1. open[fd] \in Handle
  BY DEF OpenTypes
<1>2. open' = [open EXCEPT ![fd] = [open[fd] EXCEPT !.pos = pos]]
  BY DEF MovedTo
<1>3. /\ [open[fd] EXCEPT !.pos = pos] \in Handle
      /\ [open[fd] EXCEPT !.pos = pos].by = open[fd].by
      /\ [open[fd] EXCEPT !.pos = pos].file = open[fd].file
      /\ [open[fd] EXCEPT !.pos = pos].pos = pos
  BY <1>1 DEF Handle
<1> QED
  BY <1>2, <1>3 DEF OpenTypes

\* Where a transfer goes, if it goes anywhere.
LEMMA SeekPositionTypes ==
  ASSUME TypeOK, NEW fd \in DOMAIN open, NEW offset \in 0..MaxLength
  PROVE  SeekPosition(fd, offset) \in 0..MaxLength
BY DEF SeekPosition, TypeOK, Handle

\* gdb has no more handles in its copies than it had, but for those it has dropped.
LEMMA DropTypes ==
  ASSUME CopyTypes, NEW H, copies' = Restrict(copies, DOMAIN copies \ H), gdbFds \ H \subseteq gdbFds'
  PROVE  /\ CopyTypes'
         /\ DOMAIN copies' = DOMAIN copies \ H
         /\ \A h \in DOMAIN copies \ H : copies'[h] = copies[h]
BY DEF CopyTypes, Restrict

\* An answer moves the copy that it belongs to, or ends it.
LEMMA AnswerTypes ==
  ASSUME CopyTypes, NEW fd \in gdbFds, NEW offset \in 0..MaxLength, NEW count \in Nat,
         offset + count <= MaxLength, Answer(fd, offset, count), gdbFds' = gdbFds
  PROVE  /\ CopyTypes' /\ DOMAIN copies' \subseteq DOMAIN copies
         /\ \A h \in DOMAIN copies' \ {fd} : copies'[h] = copies[h]
         /\ fd \in DOMAIN copies' => /\ copies[fd].at = offset
                                     /\ copies'[fd].at = offset + count
                                     /\ copies'[fd].file = copies[fd].file
<1>1. CASE fd \in DOMAIN copies /\ copies[fd].at = offset
  <2>1. copies' = [copies EXCEPT ![fd] = [copies[fd] EXCEPT !.at = copies[fd].at + count]]
    BY <1>1 DEF Answer
  <2>2. copies[fd] \in [file : Files, at : 0..MaxLength]
    BY <1>1 DEF CopyTypes
  <2>3. copies[fd].at + count = offset + count /\ offset + count \in 0..MaxLength
    BY <1>1, LengthAssumption
  <2>4. /\ [copies[fd] EXCEPT !.at = copies[fd].at + count] \in [file : Files, at : 0..MaxLength]
        /\ [copies[fd] EXCEPT !.at = copies[fd].at + count].at = offset + count
        /\ [copies[fd] EXCEPT !.at = copies[fd].at + count].file = copies[fd].file
    BY <2>2, <2>3
  <2> QED
    BY <1>1, <2>1, <2>4 DEF CopyTypes
<1>2. CASE ~(fd \in DOMAIN copies /\ copies[fd].at = offset)
  <2>1. copies' = Restrict(copies, DOMAIN copies \ {fd})
    BY <1>2, Zenon DEF Answer
  <2> QED
    BY <2>1, DropTypes
<1> QED
  BY <1>1, <1>2

\* What a transfer does to the handles and to gdb's copies.
Transferred(fd, offset, start, count) ==
  /\ fd \in DOMAIN open
  /\ MovedTo(fd, start + count)
  /\ Answer(fd, offset, count)
  /\ UNCHANGED <<fd_handles, process, serving, gdbFds, orphaned>>

\* A transfer stays in the file, from where the handle is or gdb asked for.
LEMMA TransferFacts ==
  ASSUME TypeOK, NEW fd \in gdbFds, NEW offset \in 0..MaxLength, NEW count \in 0..MaxLength,
         VfileRead(fd, offset, count) \/ VfileWrite(fd, offset, count)
  PROVE  /\ LengthTypes'
         /\ fd \in DOMAIN open
         /\ SeekPosition(fd, offset) \in 0..MaxLength
         /\ \E n \in Nat : /\ SeekPosition(fd, offset) + n <= MaxLength
                           /\ offset + n <= MaxLength
                           /\ Transferred(fd, offset, SeekPosition(fd, offset), n)
<1> DEFINE start == SeekPosition(fd, offset)
<1>a. LengthTypes /\ fd \in DOMAIN open /\ open[fd].file \in DOMAIN length
  BY DEF TypeOK, LengthTypes, VfileRead, VfileWrite
<1>b. start \in 0..MaxLength /\ offset <= start
  BY <1>a, SeekPositionTypes DEF SeekPosition
<1>1. CASE VfileRead(fd, offset, count)
  <2> DEFINE end == Lesser(start + count, length[open[fd].file])
  <2>1. start <= length[open[fd].file]
    BY <1>1 DEF VfileRead
  <2>2. end \in start..MaxLength
    BY <1>a, <1>b, <2>1, LengthAssumption DEF Lesser, LengthTypes
  <2>3. /\ MovedTo(fd, end) /\ Answer(fd, offset, end - start)
        /\ UNCHANGED <<fd_handles, length, process, serving, gdbFds, orphaned>>
    BY <1>1 DEF VfileRead
  <2> HIDE DEF start, end
  <2>4. end - start \in Nat /\ start + (end - start) = end /\ offset + (end - start) <= MaxLength
    BY <1>b, <2>2, LengthAssumption
  <2>5. LengthTypes'
    BY <1>a, <2>3 DEF LengthTypes
  <2>6. Transferred(fd, offset, start, end - start)
    BY <1>a, <2>3, <2>4 DEF Transferred
  <2>7. start + (end - start) <= MaxLength
    BY <2>2, <2>4, LengthAssumption
  <2> QED
    BY <1>a, <1>b, <2>4, <2>5, <2>6, <2>7 DEF start
<1>2. CASE VfileWrite(fd, offset, count)
  <2>1. start + count <= MaxLength
    BY <1>2 DEF VfileWrite
  <2>2. /\ MovedTo(fd, start + count) /\ Answer(fd, offset, count)
        /\ length' = [length EXCEPT ![open[fd].file] =
                         IF length[open[fd].file] < start + count THEN start + count
                         ELSE length[open[fd].file]]
        /\ UNCHANGED <<fd_handles, process, serving, gdbFds, orphaned>>
    BY <1>2 DEF VfileWrite
  <2> HIDE DEF start
  <2>3. start + count \in 0..MaxLength /\ offset + count <= MaxLength /\ count \in Nat
    BY <1>b, <2>1, LengthAssumption
  <2>4. LengthTypes'
    BY <1>a, <2>2, <2>3 DEF LengthTypes
  <2>5. Transferred(fd, offset, start, count)
    BY <1>a, <2>2 DEF Transferred
  <2> QED
    BY <1>a, <1>b, <2>1, <2>3, <2>4, <2>5 DEF start
<1> QED
  BY <1>1, <1>2

\* No file is open at first.
LEMMA InitTypeOK == Init => TypeOK
<1> SUFFICES ASSUME Init PROVE TypeOK
  OBVIOUS
<1>1. fd_handles \in [Slots -> GemHandles \cup {-1}]
  BY DEF Init
<1>2. DOMAIN length \subseteq Files /\ \A f \in DOMAIN length : length[f] \in 0..MaxLength
  BY LengthAssumption DEF Init
<1>3. DOMAIN open = {} /\ DOMAIN copies = {}
  BY DEF Init
<1>4. serving \in BOOLEAN /\ orphaned \in BOOLEAN
  BY Zenon DEF Init
<1> QED
  BY <1>1, <1>2, <1>3, <1>4 DEF Init, TypeOK

\* The table stays one.
LEMMA TableTypes ==
  ASSUME NEW table \in [Slots -> GemHandles \cup {-1}], NEW fd \in GemHandles
  PROVE  /\ AddHandle(table, fd) \in [Slots -> GemHandles \cup {-1}]
         /\ RemoveHandle(table, fd) \in [Slots -> GemHandles \cup {-1}]
<1>1. AddHandle(table, fd) \in [Slots -> GemHandles \cup {-1}]
  BY AddHandleTakesFreeSlot
<1>2. RemoveHandle(table, fd) \in [Slots -> GemHandles \cup {-1}]
  BY RemoveHandleFreesSlot
<1> QED
  BY <1>1, <1>2

\* Each step preserves the types.
LEMMA StepTypeOK == TypeOK /\ [Next]_vars => TypeOK'
<1> SUFFICES ASSUME TypeOK, [Next]_vars PROVE TypeOK'
  OBVIOUS
<1>a. /\ OpenTypes /\ LengthTypes /\ CopyTypes
      /\ process \in {"server", "inferior"}
      /\ fd_handles \in [Slots -> GemHandles \cup {-1}] /\ gdbFds \in SUBSET GemHandles
  BY DEF TypeOK, OpenTypes, LengthTypes, CopyTypes
\* What has to be shown of the open handles, the files, the rest.
<1> DEFINE Opens1  == OpenTypes'
           Tables1 == /\ fd_handles' \in [Slots -> GemHandles \cup {-1}]
                      /\ gdbFds' \in SUBSET GemHandles
<1>b. ASSUME Opens1, Tables1, LengthTypes', CopyTypes', UNCHANGED <<process, serving, orphaned>>
      PROVE  TypeOK'
  BY <1>a, <1>b DEF TypeOK, OpenTypes, LengthTypes, CopyTypes
<1>c. UNCHANGED open => Opens1
  BY <1>a DEF OpenTypes
<1>d. UNCHANGED length => LengthTypes'
  BY <1>a DEF LengthTypes
<1>e. UNCHANGED <<fd_handles, gdbFds>> => Tables1
  BY <1>a
<1>f. ASSUME NEW H, open' = Restrict(open, DOMAIN open \ H) PROVE Opens1
  BY <1>a, <1>f, RestrictTypes
<1>g. UNCHANGED copies /\ gdbFds \subseteq gdbFds' => CopyTypes'
  BY <1>a DEF CopyTypes
<1>1. ASSUME NEW f \in Files, NEW flags \in SUBSET Flags, VfileOpen(f, flags)
      PROVE  TypeOK'
  <2>1. /\ Opened(f) \/ UNCHANGED <<open, fd_handles, gdbFds, copies>>
        /\ length' = length \/ length' = With(length, f, 0)
    BY <1>1, OpenOrNothing
  <2>2. LengthTypes'
    BY <1>a, <2>1, LengthAssumption DEF LengthTypes, With
  <2>3. Opens1 /\ Tables1 /\ CopyTypes'
    <3>1. CASE Opened(f)
      <4>1. PICK pos \in 0..MaxLength :
              /\ open' = With(open, NewFd, Entry(f, pos, "gdb"))
              /\ \/ copies' = Restrict(copies, DOMAIN copies \ {NewFd})
                 \/ pos = 0 /\ copies' = With(copies, NewFd, [file |-> f, at |-> 0])
        BY <3>1 DEF Opened
      <4>2. Opens1
        BY <1>a, <3>1, <4>1, WithTypes DEF Opened
      <4>3. NewFd \in GemHandles
        BY <3>1, NewFdIsFree DEF Opened
      <4>4. Tables1
        BY <1>a, <3>1, <4>3, TableTypes DEF Opened
      <4>5. gdbFds' = gdbFds \cup {NewFd}
        BY <3>1 DEF Opened
      <4>6. CopyTypes'
        <5>1. CASE copies' = Restrict(copies, DOMAIN copies \ {NewFd})
          BY <1>a, <4>5, <5>1, DropTypes
        <5>2. CASE copies' = With(copies, NewFd, [file |-> f, at |-> 0])
          <6>1. [file |-> f, at |-> 0] \in [file : Files, at : 0..MaxLength]
            BY LengthAssumption
          <6> QED
            BY <1>a, <4>5, <5>2, <6>1 DEF CopyTypes, With
        <5> QED
          BY <4>1, <5>1, <5>2
      <4> QED
        BY <4>2, <4>4, <4>6
    <3>2. CASE UNCHANGED <<open, fd_handles, gdbFds, copies>>
      BY <3>2, <1>c, <1>e, <1>g
    <3> QED
      BY <2>1, <3>1, <3>2
  <2>4. UNCHANGED <<process, serving, orphaned>>
    BY <1>1, Zenon DEF VfileOpen
  <2> QED
    BY <1>b, <2>2, <2>3, <2>4
<1>2. ASSUME NEW f \in Files, VfileStat(f) PROVE TypeOK'
  <2>1. NewFd \in GemHandles
    BY <1>2, NewFdIsFree DEF VfileStat
  <2>2. Tables1
    BY <1>2, <1>a, <2>1, TableTypes DEF VfileStat
  <2> QED
    BY <1>2, <1>b, <1>c, <1>d, <1>g, <2>2 DEF VfileStat
<1>3. ASSUME NEW f \in Files, VfileDelete(f) PROVE TypeOK'
  <2>1. LengthTypes'
    BY <1>3, <1>a DEF VfileDelete, LengthTypes, Restrict
  <2> QED
    BY <1>3, <1>b, <1>c, <1>e, <1>g, <2>1 DEF VfileDelete
<1>4. ASSUME NEW fd \in gdbFds, VfileClose(fd) PROVE TypeOK'
  <2>1. Opens1
    <3>1. CASE fd \in DOMAIN open
      <4>1. open' = Restrict(open, DOMAIN open \ {fd})
        BY <1>4, <3>1, Zenon DEF VfileClose
      <4> QED
        BY <1>f, <4>1
    <3>2. CASE fd \notin DOMAIN open
      BY <1>4, <1>c, <3>2 DEF VfileClose
    <3> QED
      BY <3>1, <3>2
  <2>2. Tables1
    BY <1>4, <1>a, TableTypes DEF VfileClose
  <2>3. CopyTypes'
    <3>1. copies' = Restrict(copies, DOMAIN copies \ {fd}) /\ gdbFds' = gdbFds \ {fd}
      BY <1>4, Zenon DEF VfileClose
    <3> QED
      BY <1>a, <3>1, DropTypes
  <2> QED
    BY <1>4, <1>b, <1>d, <2>1, <2>2, <2>3 DEF VfileClose
<1>5. ASSUME NEW fd \in gdbFds, NEW offset \in 0..MaxLength, NEW count \in 0..MaxLength,
             VfileRead(fd, offset, count) \/ VfileWrite(fd, offset, count)
      PROVE  TypeOK'
  <2> DEFINE start == SeekPosition(fd, offset)
  <2>1. LengthTypes' /\ fd \in DOMAIN open /\ start \in 0..MaxLength
    BY <1>5, TransferFacts
  <2>2. PICK n \in Nat : /\ start + n <= MaxLength /\ offset + n <= MaxLength
                        /\ Transferred(fd, offset, start, n)
    BY <1>5, TransferFacts
  <2> HIDE DEF start
  <2>3. start + n \in 0..MaxLength
    BY <2>1, <2>2, LengthAssumption
  <2>4. Opens1
    BY <1>a, <2>1, <2>2, <2>3, MovedTypes DEF Transferred
  <2>5. CopyTypes'
    BY <1>a, <2>2, AnswerTypes DEF Transferred
  <2> QED
    BY <1>b, <1>e, <2>1, <2>2, <2>4, <2>5 DEF Transferred
<1>h. copies' = << >> => CopyTypes'
  BY DEF CopyTypes
<1>7. CASE Reconnect
  BY <1>7, <1>a, <1>b, <1>c, <1>d, <1>h DEF Reconnect
<1>8. CASE ExitFileIO
  <2>1. Opens1
    <3>1. open' = Restrict(open, DOMAIN open \ Table)
      BY <1>8, Zenon DEF ExitFileIO
    <3> HIDE DEF Opens1
    <3> QED
      BY <1>f, <3>1, Zenon
  <2>2. Tables1 /\ serving' \in BOOLEAN
    BY <1>8, <1>a, Zenon DEF ExitFileIO
  <2>3. CopyTypes'
    BY <1>8, <1>h DEF ExitFileIO
  <2> QED
    BY <1>8, <1>a, <1>d, <2>1, <2>2, <2>3
    DEF ExitFileIO, TypeOK, OpenTypes, LengthTypes, CopyTypes
<1>9. CASE InferiorStarts
  BY <1>9, <1>a, <1>c, <1>d, <1>g
  DEF InferiorStarts, TypeOK, OpenTypes, LengthTypes, CopyTypes
<1>10. CASE InferiorEnds
  <2>1. Opens1
    <3>1. open' = Restrict(open, DOMAIN open \ {h \in DOMAIN open : open[h].owner = "inferior"})
      BY <1>10, Zenon DEF InferiorEnds
    <3> HIDE DEF Opens1
    <3> QED
      BY <1>f, <3>1, Zenon
  <2>2. orphaned' \in BOOLEAN
    BY <1>10, Zenon DEF InferiorEnds
  <2> QED
    BY <1>10, <1>a, <1>d, <1>g, <2>1, <2>2
    DEF InferiorEnds, TypeOK, OpenTypes, LengthTypes, CopyTypes
<1>11. ASSUME NEW f \in Files, InferiorOpens(f) PROVE TypeOK'
  <2>1. Opens1
    BY <1>11, <1>a, WithTypes, LengthAssumption DEF InferiorOpens, TypeOK
  <2> QED
    BY <1>11, <1>b, <1>d, <1>e, <1>g, <2>1 DEF InferiorOpens
<1>12. ASSUME NEW fd \in GemHandles, InferiorCloses(fd) PROVE TypeOK'
  <2>1. Opens1
    <3>1. open' = Restrict(open, DOMAIN open \ {fd})
      BY <1>12, Zenon DEF InferiorCloses
    <3> HIDE DEF Opens1
    <3> QED
      BY <1>f, <3>1, Zenon
  <2> QED
    BY <1>12, <1>b, <1>d, <1>e, <1>g, <2>1 DEF InferiorCloses
<1>13. CASE UNCHANGED vars
  BY <1>13, <1>a, <1>b, <1>c, <1>d, <1>e, <1>g DEF vars
<1> QED
  BY <1>1, <1>2, <1>3, <1>4, <1>5, <1>7, <1>8, <1>9, <1>10, <1>11, <1>12, <1>13
  DEF Next, Request, Stopped

-----------------------------------------------------------------------------
(* The table *)

\* A handle takes one slot.
OneSlotEach ==
  \A i, j \in Slots : fd_handles[i] = fd_handles[j] => i = j \/ fd_handles[i] = -1

\* Until a file is closed under the table, the table has nothing but open files
\* of gdb, each in one slot, and gdb's handles are among them.
TableIsOpen ==
  ~orphaned => /\ \A fd \in Table : fd \in DOMAIN open /\ open[fd].by = "gdb"
               /\ OneSlotEach
               /\ gdbFds \subseteq Table

TableInv == NoHandleLeaked /\ TableIsOpen

\* AddHandle adds the handle, to one slot that was free.
LEMMA AddHandleKeeps ==
  ASSUME fd_handles \in [Slots -> GemHandles \cup {-1}], FreeSlots # {}, NEW fd \in Nat,
         fd_handles' = AddHandle(fd_handles, fd)
  PROVE  /\ Table' = Table \cup {fd}
         /\ OneSlotEach /\ fd \notin Table => OneSlotEach'
<1>1. PICK s \in Slots : fd_handles[s] = -1 /\ fd_handles' = [fd_handles EXCEPT ![s] = fd]
  BY AddHandleTakesFreeSlot DEF FreeSlots
<1>2. \A i \in Slots : fd_handles'[i] = IF i = s THEN fd ELSE fd_handles[i]
  BY <1>1
<1>3. fd # -1
  OBVIOUS
<1>4. ASSUME NEW h PROVE h \in Table' <=> h \in Table \cup {fd}
  BY <1>1, <1>2, <1>3 DEF Table
<1>5. OneSlotEach /\ fd \notin Table => OneSlotEach'
  BY <1>1, <1>2, <1>3 DEF Table, OneSlotEach
<1> QED
  BY <1>4, <1>5

\* RemoveHandle removes no other handle, and the handle itself if it has one slot.
LEMMA RemoveHandleKeeps ==
  ASSUME fd_handles \in [Slots -> GemHandles \cup {-1}], NEW fd \in Nat,
         fd_handles' = RemoveHandle(fd_handles, fd)
  PROVE  /\ Table \ {fd} \subseteq Table' /\ Table' \subseteq Table
         /\ OneSlotEach => OneSlotEach' /\ fd \notin Table'
<1>1. CASE \A i \in Slots : fd_handles[i] # fd
  <2>1. UNCHANGED fd_handles
    BY <1>1, RemoveHandleFreesSlot
  <2> QED
    BY <1>1, <2>1 DEF Table, OneSlotEach
<1>2. CASE ~(\A i \in Slots : fd_handles[i] # fd)
  <2>1. PICK s \in Slots : fd_handles[s] = fd /\ fd_handles' = [fd_handles EXCEPT ![s] = -1]
    BY <1>2, RemoveHandleFreesSlot
  <2>2. \A i \in Slots : fd_handles'[i] = IF i = s THEN -1 ELSE fd_handles[i]
    BY <2>1
  <2>3. ASSUME NEW h
        PROVE  (h \in Table \ {fd} => h \in Table') /\ (h \in Table' => h \in Table)
    BY <2>1, <2>2 DEF Table
  <2>4. OneSlotEach => OneSlotEach' /\ fd \notin Table'
    BY <2>1, <2>2 DEF Table, OneSlotEach
  <2> QED
    BY <2>3, <2>4
<1> QED
  BY <1>1, <1>2

\* VfileStat leaves the table as it was, or without one slot of a handle that is
\* not open.
LEMMA AddAndRemoveKeeps ==
  ASSUME fd_handles \in [Slots -> GemHandles \cup {-1}], NEW fd \in Nat,
         fd_handles' = RemoveHandle(AddHandle(fd_handles, fd), fd)
  PROVE  /\ Table \ {fd} \subseteq Table'
         /\ fd \notin Table => UNCHANGED fd_handles
<1> DEFINE added == AddHandle(fd_handles, fd)
<1>0. fd # -1
  OBVIOUS
<1>2. \/ added = fd_handles
      \/ \E s \in Slots : fd_handles[s] = -1 /\ added = [fd_handles EXCEPT ![s] = fd]
  BY AddHandleTakesFreeSlot
<1>3. \/ /\ \A i \in Slots : added[i] # fd
         /\ fd_handles' = added
      \/ \E s \in Slots : added[s] = fd /\ fd_handles' = [added EXCEPT ![s] = -1]
  BY RemoveHandleFreesSlot
<1> HIDE DEF added
<1>4. CASE added = fd_handles
  BY <1>0, <1>3, <1>4 DEF Table
<1>5. CASE \E s \in Slots : fd_handles[s] = -1 /\ added = [fd_handles EXCEPT ![s] = fd]
  <2>1. PICK s \in Slots : fd_handles[s] = -1 /\ added = [fd_handles EXCEPT ![s] = fd]
    BY <1>5
  <2>2. PICK t \in Slots : added[t] = fd /\ fd_handles' = [added EXCEPT ![t] = -1]
    BY <1>3, <2>1
  <2>3. \A i \in Slots : fd_handles'[i] = IF i = t THEN -1 ELSE IF i = s THEN fd ELSE fd_handles[i]
    BY <2>1, <2>2
  <2>4. s = t \/ fd_handles[t] = fd
    BY <2>1, <2>2
  <2>5. ASSUME NEW h \in Table \ {fd} PROVE h \in Table'
    BY <2>1, <2>3, <2>4 DEF Table
  <2>6. fd \notin Table => UNCHANGED fd_handles
    BY <1>0, <2>1, <2>2, <2>4 DEF Table
  <2> QED
    BY <2>5, <2>6
<1> QED
  BY <1>2, <1>4, <1>5

\* Each step preserves what the table says of the open files.
LEMMA StepTableInv == TypeOK /\ TableInv /\ [Next]_vars => TableInv'
<1> SUFFICES ASSUME TypeOK, TableInv, [Next]_vars PROVE TableInv'
  OBVIOUS
<1>a. /\ OpenTypes /\ DOMAIN open \subseteq Nat /\ gdbFds \subseteq Nat
      /\ process \in {"server", "inferior"}
      /\ fd_handles \in [Slots -> GemHandles \cup {-1}]
  BY HandlesAssumption DEF TypeOK, OpenTypes
<1>b. /\ \A h \in DOMAIN open : open[h].by = "gdb" => serving /\ h \in Table
      /\ TableIsOpen
  BY DEF TableInv, NoHandleLeaked
<1>c. UNCHANGED fd_handles => UNCHANGED Table /\ (OneSlotEach' <=> OneSlotEach)
  BY DEF Table, OneSlotEach
\* Handles that are closed without the table: none of them may be gdb's.
<1>d. ASSUME NEW H, open' = Restrict(open, DOMAIN open \ H)
      PROVE  /\ DOMAIN open' = DOMAIN open \ H
             /\ \A h \in DOMAIN open \ H : open'[h] = open[h]
  BY <1>a, <1>d, RestrictTypes
<1> USE DEF TableInv, NoHandleLeaked, TableIsOpen
<1>1. ASSUME serving, NEW f \in Files, NEW flags \in SUBSET Flags, VfileOpen(f, flags)
      PROVE  TableInv'
  <2>1. UNCHANGED <<serving, orphaned>>
    BY <1>1, Zenon DEF VfileOpen
  <2>2. CASE Opened(f)
    <3>1. /\ NewFd \in Nat /\ NewFd \notin DOMAIN open
          /\ FreeSlots # {} /\ fd_handles' = AddHandle(fd_handles, NewFd)
          /\ gdbFds' = gdbFds \cup {NewFd}
      BY <2>2, NewFdIsFree DEF Opened
    <3>2. /\ DOMAIN open' = DOMAIN open \cup {NewFd}
          /\ \A h \in DOMAIN open : open'[h] = open[h]
          /\ open'[NewFd].by = "gdb"
      BY <1>a, <2>2, WithTypes DEF Opened
    <3>3. /\ Table' = Table \cup {NewFd}
          /\ OneSlotEach /\ NewFd \notin Table => OneSlotEach'
      BY <1>a, <3>1, AddHandleKeeps
    <3> QED
      BY <1>1, <1>b, <2>1, <3>1, <3>2, <3>3
  <2>3. CASE UNCHANGED <<open, fd_handles, gdbFds, copies>>
    BY <1>b, <1>c, <2>1, <2>3
  <2> QED
    BY <1>1, <1>a, <2>2, <2>3, OpenOrNothing
<1>2. ASSUME NEW f \in Files, VfileStat(f) PROVE TableInv'
  <2>1. NewFd \in Nat /\ NewFd \notin DOMAIN open
    BY <1>2, NewFdIsFree DEF VfileStat
  <2>2. /\ Table \ {NewFd} \subseteq Table'
        /\ NewFd \notin Table => UNCHANGED fd_handles
    BY <1>2, <1>a, <2>1, AddAndRemoveKeeps DEF VfileStat
  <2>3. UNCHANGED <<open, serving, gdbFds, orphaned>>
    BY <1>2 DEF VfileStat
  <2> QED
    BY <1>b, <1>c, <2>1, <2>2, <2>3
<1>3. ASSUME NEW f \in Files, VfileDelete(f) PROVE TableInv'
  BY <1>3, <1>b, <1>c DEF VfileDelete
<1>4. ASSUME NEW fd \in gdbFds, VfileClose(fd) PROVE TableInv'
  <2>1. UNCHANGED <<serving, orphaned>> /\ gdbFds' = gdbFds \ {fd}
    BY <1>4 DEF VfileClose
  <2>2. CASE fd \in DOMAIN open
    <3>1. /\ open' = Restrict(open, DOMAIN open \ {fd})
          /\ fd_handles' = RemoveHandle(fd_handles, fd)
      BY <1>4, <2>2, Zenon DEF VfileClose
    <3>2. /\ DOMAIN open' = DOMAIN open \ {fd}
          /\ \A h \in DOMAIN open \ {fd} : open'[h] = open[h]
      BY <1>d, <3>1, Zenon
    <3>3. /\ Table \ {fd} \subseteq Table' /\ Table' \subseteq Table
          /\ OneSlotEach => OneSlotEach' /\ fd \notin Table'
      BY <1>a, <3>1, RemoveHandleKeeps
    <3> QED
      BY <1>b, <2>1, <3>2, <3>3
  <2>3. CASE fd \notin DOMAIN open
    <3>1. UNCHANGED <<open, fd_handles>>
      BY <1>4, <2>3 DEF VfileClose
    <3> QED
      BY <1>b, <1>c, <2>1, <3>1
  <2> QED
    BY <2>2, <2>3
<1>5. ASSUME NEW fd, NEW pos, fd \in DOMAIN open, MovedTo(fd, pos),
             UNCHANGED <<fd_handles, serving, gdbFds, orphaned>>
      PROVE  TableInv'
  <2>1. DOMAIN open' = DOMAIN open /\ \A h \in DOMAIN open : open'[h].by = open[h].by
    BY <1>a, <1>5 DEF MovedTo, OpenTypes, Handle
  <2> QED
    BY <1>b, <1>c, <1>5, <2>1
<1>6. ASSUME NEW fd \in gdbFds, NEW offset \in 0..MaxLength, NEW count \in 0..MaxLength,
             VfileRead(fd, offset, count) \/ VfileWrite(fd, offset, count)
      PROVE  TableInv'
  <2>1. /\ fd \in DOMAIN open /\ \E pos : MovedTo(fd, pos)
        /\ UNCHANGED <<fd_handles, serving, gdbFds, orphaned>>
    BY <1>6 DEF VfileRead, VfileWrite
  <2> QED
    BY <1>5, <2>1
<1>7. CASE Reconnect
  BY <1>7, <1>b, <1>c DEF Reconnect
<1>8. CASE ExitFileIO
  <2>1. open' = Restrict(open, DOMAIN open \ Table)
    BY <1>8, Zenon DEF ExitFileIO
  <2>2. /\ DOMAIN open' = DOMAIN open \ Table
        /\ \A h \in DOMAIN open \ Table : open'[h] = open[h]
    BY <1>d, <2>1, Zenon
  <2>3. fd_handles' = [i \in Slots |-> -1] /\ gdbFds' = {}
    BY <1>8 DEF ExitFileIO
  <2>4. Table' = {} /\ OneSlotEach'
    BY <2>3 DEF Table, OneSlotEach
  <2> QED
    BY <1>b, <2>2, <2>3, <2>4
<1>9. CASE InferiorStarts
  BY <1>9, <1>b, <1>c DEF InferiorStarts
<1>10. CASE InferiorEnds
  <2> DEFINE its == {h \in DOMAIN open : open[h].owner = "inferior"}
  <2>1. open' = Restrict(open, DOMAIN open \ its)
        /\ orphaned' = (orphaned \/ \E h \in its : open[h].by = "gdb")
        /\ UNCHANGED <<fd_handles, serving, gdbFds>>
    BY <1>10, Zenon DEF InferiorEnds
  <2> HIDE DEF its
  <2>2. /\ DOMAIN open' = DOMAIN open \ its
        /\ \A h \in DOMAIN open \ its : open'[h] = open[h]
    BY <1>d, <2>1, Zenon
  <2>3. ~orphaned' => ~orphaned /\ \A h \in its : open[h].by # "gdb"
    BY <2>1
  <2> QED
    BY <1>b, <1>c, <2>1, <2>2, <2>3
<1>11. ASSUME NEW f \in Files, InferiorOpens(f) PROVE TableInv'
  <2>1. /\ open' = With(open, NewFd, Entry(f, 0, "program")) /\ Free # {}
        /\ UNCHANGED <<fd_handles, serving, gdbFds, orphaned>>
    BY <1>11 DEF InferiorOpens
  <2>2. /\ DOMAIN open' = DOMAIN open \cup {NewFd} /\ NewFd \notin DOMAIN open
        /\ \A h \in DOMAIN open : open'[h] = open[h]
        /\ open'[NewFd].by = "program"
    <3>1. 0 \in 0..MaxLength /\ "program" \in {"gdb", "program"}
      BY LengthAssumption
    <3>2. NewFd \notin DOMAIN open
      BY <2>1, NewFdIsFree
    <3> QED
      BY <1>a, <2>1, <3>1, <3>2, WithTypes
  <2> QED
    BY <1>b, <1>c, <2>1, <2>2
<1>12. ASSUME NEW fd \in GemHandles, InferiorCloses(fd) PROVE TableInv'
  <2>1. /\ fd \in DOMAIN open /\ open[fd].by = "program"
        /\ open' = Restrict(open, DOMAIN open \ {fd})
        /\ UNCHANGED <<fd_handles, serving, gdbFds, orphaned>>
    BY <1>12 DEF InferiorCloses
  <2>2. /\ DOMAIN open' = DOMAIN open \ {fd}
        /\ \A h \in DOMAIN open \ {fd} : open'[h] = open[h]
    BY <1>d, <2>1, Zenon
  <2> QED
    BY <1>b, <1>c, <2>1, <2>2
<1>13. CASE UNCHANGED vars
  BY <1>13, <1>b, <1>c DEF vars
<1> QED
  BY <1>1, <1>2, <1>3, <1>4, <1>6, <1>7, <1>8, <1>9, <1>10, <1>11, <1>12, <1>13
  DEF Next, Request, Stopped

-----------------------------------------------------------------------------
(* Copies *)

\* Each step keeps gdb's copies where GEMDOS is.
LEMMA StepCopies == TypeOK /\ TableInv /\ CopiesInOrder /\ [Next]_vars => CopiesInOrder'
<1> SUFFICES ASSUME TypeOK, TableInv, CopiesInOrder, [Next]_vars, ~orphaned'
             PROVE  CopiesInOrder'
  BY DEF CopiesInOrder
<1>a. /\ OpenTypes /\ CopyTypes /\ process \in {"server", "inferior"}
  BY DEF TypeOK, OpenTypes, CopyTypes
<1>b. ~orphaned
  BY Zenon DEF Next, Request, Stopped, vars, VfileOpen, VfileStat, VfileDelete, VfileClose,
    VfileRead, VfileWrite, Reconnect, ExitFileIO, InferiorStarts, InferiorEnds, InferiorOpens,
    InferiorCloses
<1>c. /\ \A fd \in DOMAIN copies : /\ fd \in DOMAIN open /\ open[fd].by = "gdb"
                                 /\ open[fd].file = copies[fd].file
                                 /\ open[fd].pos = copies[fd].at
  BY <1>a, <1>b DEF TableInv, TableIsOpen, CopiesInOrder, CopyTypes
\* Handles that gdb does not copy through may come, go and move.
<1>d. ASSUME \A fd \in DOMAIN copies' : /\ fd \in DOMAIN copies /\ copies'[fd] = copies[fd]
                                      /\ fd \in DOMAIN open' /\ open'[fd] = open[fd]
      PROVE  CopiesInOrder'
  BY <1>c, <1>d DEF CopiesInOrder
<1>1. ASSUME NEW f \in Files, NEW flags \in SUBSET Flags, VfileOpen(f, flags)
      PROVE  CopiesInOrder'
  <2>1. CASE Opened(f)
    <3>1. PICK pos \in 0..MaxLength :
            /\ open' = With(open, NewFd, Entry(f, pos, "gdb"))
            /\ \/ copies' = Restrict(copies, DOMAIN copies \ {NewFd})
               \/ pos = 0 /\ copies' = With(copies, NewFd, [file |-> f, at |-> 0])
      BY <2>1 DEF Opened
    <3>2. /\ DOMAIN open' = DOMAIN open \cup {NewFd} /\ NewFd \notin DOMAIN open
          /\ \A h \in DOMAIN open : open'[h] = open[h]
          /\ open'[NewFd].file = f /\ open'[NewFd].pos = pos
      BY <1>a, <2>1, <3>1, WithTypes, NewFdIsFree DEF Opened
    <3>3. CASE copies' = Restrict(copies, DOMAIN copies \ {NewFd})
      BY <1>c, <1>d, <3>2, <3>3 DEF Restrict
    <3>4. CASE pos = 0 /\ copies' = With(copies, NewFd, [file |-> f, at |-> 0])
      BY <1>c, <3>2, <3>4 DEF With, CopiesInOrder
    <3> QED
      BY <3>1, <3>3, <3>4
  <2>2. CASE UNCHANGED <<open, fd_handles, gdbFds, copies>>
    BY <1>c, <1>d, <2>2
  <2> QED
    BY <1>1, <2>1, <2>2, OpenOrNothing
<1>2. ASSUME NEW f \in Files, VfileStat(f) \/ VfileDelete(f) PROVE CopiesInOrder'
  BY <1>2, <1>c, <1>d DEF VfileStat, VfileDelete
<1>3. ASSUME NEW fd \in gdbFds, VfileClose(fd) PROVE CopiesInOrder'
  <2>1. copies' = Restrict(copies, DOMAIN copies \ {fd})
    BY <1>3, Zenon DEF VfileClose
  <2>2. \A h \in DOMAIN open \ {fd} : h \in DOMAIN open' /\ open'[h] = open[h]
    BY <1>3, <1>a, RestrictTypes DEF VfileClose
  <2> QED
    BY <1>c, <1>d, <2>1, <2>2 DEF Restrict
<1>4. ASSUME NEW fd \in gdbFds, NEW offset \in 0..MaxLength, NEW count \in 0..MaxLength,
             VfileRead(fd, offset, count) \/ VfileWrite(fd, offset, count)
      PROVE  CopiesInOrder'
  <2>1. fd \in DOMAIN open /\ SeekPosition(fd, offset) \in 0..MaxLength
    BY <1>4, TransferFacts
  <2>2. PICK n \in Nat : /\ SeekPosition(fd, offset) + n <= MaxLength /\ offset + n <= MaxLength
                        /\ Transferred(fd, offset, SeekPosition(fd, offset), n)
    BY <1>4, TransferFacts
  <2>3. SeekPosition(fd, offset) + n \in 0..MaxLength
    BY <2>1, <2>2, LengthAssumption
  <2>4. /\ DOMAIN open' = DOMAIN open
        /\ open'[fd].pos = SeekPosition(fd, offset) + n /\ open'[fd].file = open[fd].file
        /\ \A h \in DOMAIN open \ {fd} : open'[h] = open[h]
    BY <1>a, <2>1, <2>2, <2>3, MovedTypes DEF Transferred
  <2>5. /\ DOMAIN copies' \subseteq DOMAIN copies
        /\ \A h \in DOMAIN copies' \ {fd} : copies'[h] = copies[h]
        /\ fd \in DOMAIN copies' => /\ copies[fd].at = offset
                                    /\ copies'[fd].at = offset + n
                                    /\ copies'[fd].file = copies[fd].file
    BY <1>a, <2>2, AnswerTypes DEF Transferred
  \* The position that offset zero leaves alone is zero.
  <2>6. fd \in DOMAIN copies' => SeekPosition(fd, offset) = offset
    <3>1. fd \in DOMAIN copies' => open[fd].pos = offset
      BY <1>c, <2>5
    <3> QED
      BY <3>1 DEF SeekPosition
  <2> QED
    BY <1>c, <2>4, <2>5, <2>6 DEF CopiesInOrder
<1>5. CASE Reconnect \/ ExitFileIO
  <2>1. copies' = << >>
    BY <1>5 DEF Reconnect, ExitFileIO
  <2> QED
    BY <2>1 DEF CopiesInOrder
<1>6. CASE InferiorStarts
  BY <1>6, <1>c, <1>d DEF InferiorStarts
<1>7. CASE InferiorEnds
  <2> DEFINE its == {h \in DOMAIN open : open[h].owner = "inferior"}
  <2>1. /\ open' = Restrict(open, DOMAIN open \ its)
        /\ orphaned' = (orphaned \/ \E h \in its : open[h].by = "gdb")
        /\ UNCHANGED copies
    BY <1>7, Zenon DEF InferiorEnds
  <2>2. \A h \in its : open[h].by # "gdb"
    BY <2>1
  <2> HIDE DEF its
  <2>3. \A h \in DOMAIN open \ its : h \in DOMAIN open' /\ open'[h] = open[h]
    BY <1>a, <2>1, RestrictTypes
  <2>4. copies' = copies /\ DOMAIN copies \subseteq DOMAIN open \ its
    BY <1>c, <2>1, <2>2
  <2>5. ASSUME NEW fd \in DOMAIN copies'
        PROVE  /\ fd \in DOMAIN copies /\ copies'[fd] = copies[fd]
               /\ fd \in DOMAIN open' /\ open'[fd] = open[fd]
    BY <2>3, <2>4
  <2> QED
    BY <1>d, <2>5
<1>8. ASSUME NEW f \in Files, InferiorOpens(f) PROVE CopiesInOrder'
  <2>1. /\ open' = With(open, NewFd, Entry(f, 0, "program")) /\ Free # {} /\ UNCHANGED copies
    BY <1>8 DEF InferiorOpens
  <2>2. \A h \in DOMAIN open : h \in DOMAIN open' /\ open'[h] = open[h]
    BY <1>a, <2>1, WithTypes, LengthAssumption
  <2> QED
    BY <1>c, <1>d, <2>1, <2>2
<1>9. ASSUME NEW fd \in GemHandles, InferiorCloses(fd) PROVE CopiesInOrder'
  <2>1. /\ open[fd].by = "program" /\ open' = Restrict(open, DOMAIN open \ {fd})
        /\ UNCHANGED copies
    BY <1>9 DEF InferiorCloses
  <2>2. \A h \in DOMAIN open \ {fd} : h \in DOMAIN open' /\ open'[h] = open[h]
    BY <1>a, <2>1, RestrictTypes
  <2> QED
    BY <1>c, <1>d, <2>1, <2>2
<1>10. CASE UNCHANGED vars
  BY <1>10, <1>c, <1>d DEF vars
<1> QED
  BY <1>1, <1>2, <1>3, <1>4, <1>5, <1>6, <1>7, <1>8, <1>9, <1>10 DEF Next, Request, Stopped

-----------------------------------------------------------------------------
(* The properties *)

FileInv == TypeOK /\ TableInv /\ CopiesInOrder

\* All of it holds in every state.
LEMMA FileInvariance == Spec => []FileInv
<1>1. Init => FileInv
  <2> SUFFICES ASSUME Init PROVE FileInv
    OBVIOUS
  <2>1. DOMAIN open = {} /\ gdbFds = {} /\ Table = {} /\ OneSlotEach /\ DOMAIN copies = {}
    BY DEF Init, Table, OneSlotEach
  <2> QED
    BY <2>1, InitTypeOK DEF FileInv, TableInv, NoHandleLeaked, TableIsOpen, CopiesInOrder
<1>2. FileInv /\ [Next]_vars => FileInv'
  BY StepTypeOK, StepTableInv, StepCopies DEF FileInv
<1> QED
  BY <1>1, <1>2, PTL DEF Spec

\* The table has handles of GEMDOS, files have lengths, and a position is one in
\* a file of any length there is.
THEOREM TypeCorrect == Spec => []TypeOK
<1>1. FileInv => TypeOK
  BY DEF FileInv
<1> QED
  BY <1>1, FileInvariance, PTL

\* Whatever VfileOpen and VfileStat are asked for and however full the table is,
\* a file that was opened for gdb is in it, and is closed when the server ends.
THEOREM NothingIsLeaked == Spec => []NoHandleLeaked
<1>1. FileInv => NoHandleLeaked
  BY DEF FileInv, TableInv
<1> QED
  BY <1>1, FileInvariance, PTL

\* As long as no inferior ends with gdb's files open, gdb's handles are its own.
THEOREM GdbHandlesAreItsOwn == Spec => []GdbHandlesValid
<1>1. FileInv => GdbHandlesValid
  BY DEF FileInv, TableInv, TableIsOpen, OneSlotEach, GdbHandlesValid
<1> QED
  BY <1>1, FileInvariance, PTL

\* A file that gdb copies in order through a new handle is copied without a gap,
\* whatever other handles, programs and files do meanwhile.
THEOREM CopiesAreWhole == Spec => []CopiesInOrder
<1>1. FileInv => CopiesInOrder
  BY DEF FileInv
<1> QED
  BY <1>1, FileInvariance, PTL
=============================================================================
