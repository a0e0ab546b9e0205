-------------------------- MODULE Breakpoints_proofs --------------------------
(***************************************************************************)
(* Breakpoints, for a table of any length, a program of any size and any   *)
(* addresses that gdb may ask for.                                         *)
(***************************************************************************)
EXTENDS Breakpoints, WellFoundedInduction, TLAPS

\* An address takes one slot, unless gdb asked for it while it had one.
UniqueSlots ==
  \A i, j \in Slots :
    mempoints[i].addr = mempoints[j].addr => i = j \/ mempoints[i].addr \in {0} \cup doubled

\* The word at an address is the program's, or in the slot of the address.
Matches(a) ==
  IF Holds(a) THEN /\ memory[a] = "BREAKPOINT"
                   /\ \A i \in Slots : mempoints[i].addr = a => mempoints[i].store = program[a]
              ELSE memory[a] = program[a]

WordsMatch == \A a \in Code \ doubled : program[a] # "unknown" => Matches(a)

\* Where gdb believes it has a breakpoint there is one, and elsewhere none but
\* that at __start and what is left of an address that had two slots.
SlotsAreGdbs ==
  state # "gone" =>
    /\ \A a \in inserted \ doubled : Holds(a)
    /\ \A i \in Slots :
         mempoints[i].addr \in {0, __start_Breakpoint} \cup inserted \cup doubled

\* As long as the planted breakpoint waits to be met it is in its slot and none of
\* gdb's, unless gdb has set one beside it.
StartIsPlanted ==
  /\ state = "gone" => /\ inserted = {} /\ doubled = {} /\ program = Loaded
                       /\ \A i \in Slots : mempoints[i].addr = 0
  /\ state # "gone" /\ __start_Breakpoint # 0 =>
       /\ __start_Breakpoint = TextStart
       /\ TextStart \notin doubled => Holds(TextStart) /\ TextStart \notin inserted

TableInv == UniqueSlots /\ WordsMatch /\ SlotsAreGdbs /\ StartIsPlanted

BreakpointInv == TypeOK /\ TableInv

-----------------------------------------------------------------------------
(* Words and slots *)

\* No word of the inferior is at address 0, which marks a free slot.
LEMMA WordsArePositive == \A a \in Words : a \in Nat \ {0}
BY SizesAssumption DEF Words, Code

\* __start is a word of the program that a breakpoint may be stored in.
LEMMA StartIsCode == TextStart \in Code /\ TextStart \in Words /\ InsertAllowed(TextStart)
BY SizesAssumption DEF Words, Code, InsertAllowed

\* The sanity check admits words only, the first one behind the inferior included.
LEMMA AllowedAreWords == ASSUME NEW a \in Nat, InsertAllowed(a) PROVE a \in Words
<1>1. a \in Nat /\ TextStart \in Nat /\ BssEnd \in Nat
  BY SizesAssumption
<1>2. a >= TextStart /\ a <= BssEnd /\ a % 2 = 0
  BY <1>1 DEF InsertAllowed
<1>3. CASE a = BssEnd
  BY <1>2, <1>3 DEF Words
<1>4. CASE a # BssEnd
  <2>1. a \in TextStart..(BssEnd - 1)
    BY <1>1, <1>2, <1>4
  <2> QED
    BY <1>2, <2>1 DEF Words, Code
<1> QED
  BY <1>3, <1>4

\* The library's fact about < in the form SMT reads.
LessThan == {p \in Nat \X Nat : p[1] < p[2]}

\* No slot number has infinitely many below it: the search for the first free slot ends.
LEMMA LessThanWellFounded == IsWellFoundedOn(LessThan, Nat)
BY NatLessThanWellFounded, Zenon DEF OpToRel, LessThan

\* The loops of exceptions.c find a slot if there is one.
LEMMA SlotIsFound ==
  ASSUME NEW a, Holds(a)
  PROVE  SlotOf(a) \in Slots /\ mempoints[SlotOf(a)].addr = a
<1> DEFINE T == {i \in Slots : mempoints[i].addr = a}
<1>1. T \subseteq Nat /\ T # {}
  BY SizesAssumption DEF Holds, Slots
<1>2. PICK i \in T : \A j \in T : ~(<<j, i>> \in LessThan)
  <2> HIDE DEF T
  <2> QED
    BY <1>1, LessThanWellFounded, WFMin
<1>3. \A j \in T : i <= j
  <2> TAKE j \in T
  <2>1. i \in Nat /\ j \in Nat /\ ~(j < i)
    BY <1>1, <1>2 DEF LessThan
  <2> QED
    BY <2>1
<1>4. i \in Slots /\ mempoints[i].addr = a /\ \A j \in Slots : mempoints[j].addr = a => i <= j
  BY <1>3
<1> QED
  BY <1>4 DEF SlotOf

\* Each word of a program that was just loaded is of a known kind.
LEMMA LoadedTypes == Loaded \in [Words -> Contents]
BY DEF Loaded, Contents

\* A breakpoint that is inserted takes one more slot, and the slot the word.
LEMMA InsertKeeps ==
  ASSUME TypeOK, UniqueSlots, WordsMatch, program' = program,
         NEW addr \in Words, Holds(0), InsertMemoryBreakpoint(addr),
         doubled' = IF Holds(addr) THEN doubled \cup {addr} ELSE doubled
  PROVE  /\ mempoints' \in [Slots -> MemBreak] /\ memory' \in [Words -> Contents]
         /\ UniqueSlots' /\ WordsMatch'
         /\ \A a : a # 0 => (Holds(a)' <=> Holds(a) \/ a = addr)
         /\ \A i \in Slots : mempoints'[i].addr \in {mempoints[i].addr, addr}
<1> DEFINE s == SlotOf(0)
<1>1. s \in Slots /\ mempoints[s].addr = 0
  BY SlotIsFound
<1>2. addr \in Nat \ {0}
  BY WordsArePositive
<1> HIDE DEF s
<1>3. /\ mempoints \in [Slots -> MemBreak] /\ memory \in [Words -> Contents]
      /\ memory[addr] \in Contents /\ "BREAKPOINT" \in Contents
  BY DEF TypeOK, Contents
<1>4. [addr |-> addr, store |-> memory[addr]] \in MemBreak
  BY <1>3 DEF MemBreak
<1>5. /\ mempoints' = [mempoints EXCEPT ![s] = [addr |-> addr, store |-> memory[addr]]]
      /\ memory' = [memory EXCEPT ![addr] = "BREAKPOINT"]
  BY DEF InsertMemoryBreakpoint, s
<1>6. mempoints' \in [Slots -> MemBreak] /\ memory' \in [Words -> Contents]
  BY <1>3, <1>4, <1>5
<1>7. /\ mempoints'[s].addr = addr /\ mempoints'[s].store = memory[addr]
      /\ \A i \in Slots : i # s => mempoints'[i] = mempoints[i]
      /\ memory'[addr] = "BREAKPOINT"
      /\ \A a \in Words : a # addr => memory'[a] = memory[a]
  BY <1>1, <1>3, <1>5
<1>8. \A a : a # 0 => (Holds(a)' <=> Holds(a) \/ a = addr)
  BY <1>1, <1>7 DEF Holds
<1>d. /\ doubled \subseteq doubled' /\ (Holds(addr) => addr \in doubled')
      /\ \A a \in doubled' : a \notin doubled => a = addr
  OBVIOUS
<1>9. UniqueSlots'
  <2> SUFFICES ASSUME NEW i \in Slots, NEW j \in Slots, i # j,
                      mempoints'[i].addr = mempoints'[j].addr
               PROVE  mempoints'[i].addr \in {0} \cup doubled'
    BY DEF UniqueSlots
  <2>1. CASE i = s \/ j = s
    <3>1. mempoints'[i].addr = addr /\ Holds(addr)
      BY <1>7, <2>1 DEF Holds
    <3> QED
      BY <1>d, <3>1
  <2>2. CASE i # s /\ j # s
    <3>1. mempoints'[i] = mempoints[i] /\ mempoints'[j] = mempoints[j]
      BY <1>7, <2>2
    <3> QED
      BY <1>d, <3>1 DEF UniqueSlots
  <2> QED
    BY <2>1, <2>2
<1>10. ASSUME NEW a \in Code \ doubled', program[a] # "unknown" PROVE Matches(a)'
  <2>1. Matches(a) /\ a # 0 /\ a \in Words
    BY <1>10, <1>d, WordsArePositive DEF WordsMatch, Words
  <2>2. CASE a = addr
    <3>0. ~Holds(addr)
      BY <1>d, <1>10, <2>2
    <3>1. memory[a] = program[a]
      BY <2>1, <2>2, <3>0 DEF Matches
    <3>2. \A i \in Slots : mempoints'[i].addr = a => i = s
      BY <1>7, <2>2, <3>0 DEF Holds
    <3> QED
      BY <1>7, <1>8, <2>1, <2>2, <3>1, <3>2 DEF Matches
  <2>3. CASE a # addr
    <3>1. Holds(a)' <=> Holds(a)
      BY <1>8, <2>1, <2>3
    <3>2. memory'[a] = memory[a]
      BY <1>7, <2>1, <2>3
    <3>3. \A i \in Slots : mempoints'[i].addr = a => i # s /\ mempoints[i] = mempoints'[i]
      BY <1>7, <2>3
    <3> QED
      BY <2>1, <3>1, <3>2, <3>3 DEF Matches
  <2> QED
    BY <2>2, <2>3
<1>11. WordsMatch'
  BY <1>10 DEF WordsMatch
<1>12. \A i \in Slots : mempoints'[i].addr \in {mempoints[i].addr, addr}
  BY <1>7
<1> QED
  BY <1>6, <1>8, <1>9, <1>11, <1>12

\* A breakpoint that is removed gives its slot back, and the word to the program
\* if it had that slot alone.
LEMMA RemoveKeeps ==
  ASSUME TypeOK, UniqueSlots, WordsMatch, program' = program, doubled' = doubled,
         NEW addr \in Words, Holds(addr), RemoveMemoryBreakpoint(addr)
  PROVE  /\ mempoints' \in [Slots -> MemBreak] /\ memory' \in [Words -> Contents]
         /\ UniqueSlots' /\ WordsMatch'
         /\ \A a : a \notin {0, addr} => (Holds(a)' <=> Holds(a))
         /\ \A i \in Slots : mempoints'[i].addr \in {mempoints[i].addr, 0}
         /\ addr \notin doubled => \A i \in Slots : mempoints'[i].addr # addr
<1> DEFINE s == SlotOf(addr)
<1>1. s \in Slots /\ mempoints[s].addr = addr
  BY SlotIsFound
<1>2. addr \in Nat \ {0}
  BY WordsArePositive
<1> HIDE DEF s
<1>3. addr \notin doubled => \A i \in Slots : mempoints[i].addr = addr => i = s
  BY <1>1, <1>2 DEF UniqueSlots
<1>4. /\ mempoints \in [Slots -> MemBreak] /\ memory \in [Words -> Contents]
      /\ mempoints[s] \in MemBreak
  BY <1>1 DEF TypeOK
<1>5. /\ mempoints' = [mempoints EXCEPT ![s].addr = 0]
      /\ memory' = [memory EXCEPT ![addr] = mempoints[s].store]
  BY DEF RemoveMemoryBreakpoint, s
<1>6. mempoints' \in [Slots -> MemBreak] /\ memory' \in [Words -> Contents]
  BY <1>1, <1>4, <1>5 DEF MemBreak
<1>7. /\ mempoints'[s].addr = 0
      /\ \A i \in Slots : i # s => mempoints'[i] = mempoints[i]
      /\ memory'[addr] = mempoints[s].store
      /\ \A a \in Words : a # addr => memory'[a] = memory[a]
  BY <1>1, <1>4, <1>5 DEF MemBreak
<1>8. \A a : a \notin {0, addr} => (Holds(a)' <=> Holds(a))
  BY <1>1, <1>7 DEF Holds
<1>8a. addr \notin doubled => ~Holds(addr)'
  BY <1>2, <1>3, <1>7 DEF Holds
<1>9. UniqueSlots'
  BY <1>1, <1>2, <1>7 DEF UniqueSlots
<1>10. ASSUME NEW a \in Code \ doubled, program[a] # "unknown" PROVE Matches(a)'
  <2>1. Matches(a) /\ a # 0 /\ a \in Words
    BY <1>10, WordsArePositive DEF WordsMatch, Words
  <2>2. CASE a = addr
    <3>1. mempoints[s].store = program[a]
      BY <1>1, <2>1, <2>2 DEF Matches, Holds
    <3>2. ~Holds(a)'
      BY <1>8a, <1>10, <2>2
    <3> QED
      BY <1>7, <2>2, <3>1, <3>2 DEF Matches
  <2>3. CASE a # addr
    <3>1. Holds(a)' <=> Holds(a)
      BY <1>8, <2>1, <2>3
    <3>2. memory'[a] = memory[a]
      BY <1>7, <2>1, <2>3
    <3>3. \A i \in Slots : mempoints'[i].addr = a => i # s /\ mempoints[i] = mempoints'[i]
      BY <1>7, <2>1
    <3> QED
      BY <2>1, <3>1, <3>2, <3>3 DEF Matches
  <2> QED
    BY <2>2, <2>3
<1>11. WordsMatch'
  BY <1>10 DEF WordsMatch
<1>12. \A i \in Slots : mempoints'[i].addr \in {mempoints[i].addr, 0}
  BY <1>7
<1>13. addr \notin doubled => \A i \in Slots : mempoints'[i].addr # addr
  BY <1>8a DEF Holds
<1> QED
  BY <1>6, <1>8, <1>9, <1>11, <1>12, <1>13

-----------------------------------------------------------------------------
(* The steps *)

\* The image that was loaded has no word gdb has written.
LEMMA LoadedIsKnown == \A a \in Words : Loaded[a] # "unknown"
BY LoadedTypes DEF Contents

\* Before anything has been loaded the table is empty.
LEMMA InitBreakpoints == Init => BreakpointInv
<1> SUFFICES ASSUME Init PROVE BreakpointInv
  OBVIOUS
<1>1. Free \in MemBreak /\ Free.addr = 0
  BY DEF Free, MemBreak, Contents
<1>2. mempoints \in [Slots -> MemBreak] /\ \A i \in Slots : mempoints[i].addr = 0
  BY <1>1 DEF Init
<1>3. trace \in BOOLEAN
  BY Zenon DEF Init
<1>4. TypeOK
  BY <1>2, <1>3, LoadedTypes, SizesAssumption DEF Init, TypeOK
<1>5. \A a \in Code : ~Holds(a)
  BY <1>2, WordsArePositive DEF Holds, Words
<1>6. UniqueSlots /\ WordsMatch /\ SlotsAreGdbs /\ StartIsPlanted
  BY <1>2, <1>5 DEF Init, UniqueSlots, WordsMatch, Matches, SlotsAreGdbs, StartIsPlanted
<1> QED
  BY <1>4, <1>6 DEF BreakpointInv, TableInv

\* An image is loaded into an empty table, which has room for the breakpoint at
\* __start, and the sanity check lets it pass.
LEMMA LoadKeeps == BreakpointInv /\ LoadInferior => BreakpointInv'
<1> SUFFICES ASSUME BreakpointInv, LoadInferior PROVE BreakpointInv'
  OBVIOUS
<1>1. /\ TypeOK /\ UniqueSlots /\ WordsMatch
      /\ inserted = {} /\ doubled = {} /\ program = Loaded
      /\ \A i \in Slots : mempoints[i].addr = 0
  BY DEF BreakpointInv, TableInv, StartIsPlanted, LoadInferior
<1>2. 1 \in Slots
  BY SizesAssumption DEF Slots
<1>3. Holds(0) /\ ~Holds(TextStart) /\ TextStart # 0
  BY <1>1, <1>2, StartIsCode, WordsArePositive DEF Holds
<1>4. CanInsert(TextStart)
  BY <1>3, StartIsCode DEF CanInsert
<1>5. /\ InsertMemoryBreakpoint(TextStart) /\ __start_Breakpoint' = TextStart
      /\ state' = "loaded" /\ pc' = TextStart /\ trace' = FALSE
      /\ inserted' = inserted /\ program' = program /\ doubled' = doubled
  BY <1>4 DEF LoadInferior
<1>6. /\ mempoints' \in [Slots -> MemBreak] /\ memory' \in [Words -> Contents]
      /\ UniqueSlots' /\ WordsMatch'
      /\ \A a : a # 0 => (Holds(a)' <=> Holds(a) \/ a = TextStart)
      /\ \A i \in Slots : mempoints'[i].addr \in {mempoints[i].addr, TextStart}
  BY <1>1, <1>3, <1>5, StartIsCode, InsertKeeps
<1>7. trace' \in BOOLEAN
  BY <1>5, Zenon
<1>8. TypeOK'
  BY <1>1, <1>5, <1>6, <1>7, StartIsCode, SizesAssumption DEF TypeOK
<1>9. SlotsAreGdbs' /\ StartIsPlanted'
  BY <1>1, <1>3, <1>5, <1>6 DEF SlotsAreGdbs, StartIsPlanted
<1> QED
  BY <1>6, <1>8, <1>9 DEF BreakpointInv, TableInv

\* DiscardAllBreakpoints empties the table, and the next image is fresh.
LEMMA UnloadKeeps == BreakpointInv /\ Unload => BreakpointInv'
<1> SUFFICES ASSUME BreakpointInv, Unload PROVE BreakpointInv'
  OBVIOUS
<1>1. mempoints \in [Slots -> MemBreak] /\ memory \in [Words -> Contents]
  BY DEF BreakpointInv, TypeOK
<1>2. \A i \in Slots : [mempoints[i] EXCEPT !.addr = 0] = [addr |-> 0, store |-> mempoints[i].store]
  BY <1>1 DEF MemBreak
<1>3. mempoints' = [i \in Slots |-> [addr |-> 0, store |-> mempoints[i].store]]
  BY <1>2, Zenon DEF Unload, DiscardAllBreakpoints
<1>4. mempoints' \in [Slots -> MemBreak] /\ \A i \in Slots : mempoints'[i].addr = 0
  BY <1>1, <1>3 DEF MemBreak
<1>5. memory' \in [Words -> Contents] /\ \A a \in Code : memory'[a] = Loaded[a]
  BY <1>1, LoadedTypes DEF Unload, Words
<1>6. /\ state' = "gone" /\ inserted' = {} /\ program' = Loaded /\ doubled' = {}
      /\ UNCHANGED <<__start_Breakpoint, pc, trace>>
  BY DEF Unload
<1>7. TypeOK'
  BY <1>4, <1>5, <1>6, LoadedTypes DEF BreakpointInv, TypeOK
<1>8. \A a \in Code : ~Holds(a)'
  BY <1>4, WordsArePositive DEF Holds, Words
<1>9. UniqueSlots' /\ WordsMatch' /\ SlotsAreGdbs' /\ StartIsPlanted'
  BY <1>4, <1>5, <1>6, <1>8
     DEF UniqueSlots, WordsMatch, Matches, SlotsAreGdbs, StartIsPlanted
<1> QED
  BY <1>7, <1>9 DEF BreakpointInv, TableInv

\* An instruction or an interrupt leaves table and memory alone.
LEMMA ExecuteKeeps == BreakpointInv /\ (Execute \/ Interrupt) => BreakpointInv'
<1> SUFFICES ASSUME BreakpointInv, Execute \/ Interrupt PROVE BreakpointInv'
  OBVIOUS
<1>1. /\ UNCHANGED <<mempoints, memory, __start_Breakpoint, trace, inserted, program, doubled>>
      /\ state' \in {"stopped", "executing"} /\ state = "executing"
  BY DEF Execute, Interrupt
<1>2. pc' \in Nat
  BY SizesAssumption DEF BreakpointInv, TypeOK, Execute, Interrupt, Code
<1>3. TypeOK'
  BY <1>1, <1>2 DEF BreakpointInv, TypeOK
<1>4. UniqueSlots' /\ WordsMatch' /\ SlotsAreGdbs' /\ StartIsPlanted'
  BY <1>1
     DEF BreakpointInv, TableInv, UniqueSlots, WordsMatch, Matches, Holds, SlotsAreGdbs,
         StartIsPlanted
<1> QED
  BY <1>3, <1>4 DEF BreakpointInv, TableInv

\* A trap stops the program; the breakpoint at __start is removed then, and no other.
LEMMA ExceptionKeeps == BreakpointInv /\ BreakpointException => BreakpointInv'
<1> SUFFICES ASSUME BreakpointInv, BreakpointException PROVE BreakpointInv'
  OBVIOUS
<1>0. /\ TypeOK /\ UniqueSlots /\ WordsMatch /\ SlotsAreGdbs /\ StartIsPlanted
      /\ state = "executing" /\ state' = "stopped" /\ pc \in Code /\ pc \in Nat \ {0}
      /\ UNCHANGED <<trace, inserted, program, doubled>>
  BY WordsArePositive DEF BreakpointInv, TableInv, BreakpointException, Words
<1>1. pc' \in {pc, pc + 2}
  BY DEF BreakpointException
<1>2. pc' \in Nat \ {0}
  BY <1>0, <1>1
<1>3. CASE ~(pc' = __start_Breakpoint /\ Holds(__start_Breakpoint))
  <2>1. UNCHANGED <<mempoints, memory, __start_Breakpoint>>
    BY <1>3 DEF BreakpointException
  <2>2. TypeOK'
    BY <1>0, <1>2, <2>1 DEF TypeOK
  <2>3. UniqueSlots' /\ WordsMatch' /\ SlotsAreGdbs' /\ StartIsPlanted'
    BY <1>0, <2>1
       DEF UniqueSlots, WordsMatch, Matches, Holds, SlotsAreGdbs, StartIsPlanted
  <2> QED
    BY <2>2, <2>3 DEF BreakpointInv, TableInv
<1>4. CASE pc' = __start_Breakpoint /\ Holds(__start_Breakpoint)
  <2>1. /\ __start_Breakpoint = TextStart /\ Holds(TextStart)
        /\ TextStart \notin doubled => TextStart \notin inserted
    BY <1>0, <1>2, <1>4 DEF StartIsPlanted
  <2>2. RemoveMemoryBreakpoint(TextStart) /\ __start_Breakpoint' = 0
    BY <1>4, <2>1 DEF BreakpointException
  <2>3. /\ mempoints' \in [Slots -> MemBreak] /\ memory' \in [Words -> Contents]
        /\ UniqueSlots' /\ WordsMatch'
        /\ \A a : a \notin {0, TextStart} => (Holds(a)' <=> Holds(a))
        /\ \A i \in Slots : mempoints'[i].addr \in {mempoints[i].addr, 0}
        /\ TextStart \notin doubled => \A i \in Slots : mempoints'[i].addr # TextStart
    BY <1>0, <2>1, <2>2, StartIsCode, RemoveKeeps
  <2>4. TypeOK'
    BY <1>0, <1>2, <2>2, <2>3 DEF TypeOK
  <2>5. \A a \in inserted \ doubled : a \notin {0, TextStart} /\ Holds(a)
    BY <1>0, <2>1, WordsArePositive DEF SlotsAreGdbs, TypeOK
  <2>6. SlotsAreGdbs'
    BY <1>0, <2>1, <2>2, <2>3, <2>5 DEF SlotsAreGdbs
  <2>7. StartIsPlanted'
    BY <1>0, <2>2 DEF StartIsPlanted
  <2> QED
    BY <2>3, <2>4, <2>6, <2>7 DEF BreakpointInv, TableInv
<1> QED
  BY <1>3, <1>4

\* gdb inserts a breakpoint; where there is one already the address counts as doubled.
LEMMA SetKeeps ==
  ASSUME BreakpointInv, NEW addr \in Targets, SetBreakpoint(addr)
  PROVE  BreakpointInv'
<1>0. /\ TypeOK /\ UniqueSlots /\ WordsMatch /\ SlotsAreGdbs /\ StartIsPlanted
      /\ state = "stopped" /\ Holds(0) /\ InsertMemoryBreakpoint(addr)
      /\ inserted' = inserted \cup {addr}
      /\ doubled' = IF Holds(addr) THEN doubled \cup {addr} ELSE doubled
      /\ UNCHANGED <<__start_Breakpoint, pc, trace, state, program>>
  BY DEF BreakpointInv, TableInv, SetBreakpoint, Listening, CanInsert
<1>1. addr \in Words /\ addr # 0
  <2>1. addr \in Nat
    BY TargetsAssumption
  <2>2. InsertAllowed(addr)
    BY DEF SetBreakpoint, CanInsert
  <2> QED
    BY <2>1, <2>2, AllowedAreWords, WordsArePositive
<1>2. /\ doubled \subseteq doubled' /\ doubled' \subseteq doubled \cup {addr}
      /\ Holds(addr) => addr \in doubled'
  BY <1>0
<1>3. /\ mempoints' \in [Slots -> MemBreak] /\ memory' \in [Words -> Contents]
      /\ UniqueSlots' /\ WordsMatch'
      /\ \A a : a # 0 => (Holds(a)' <=> Holds(a) \/ a = addr)
      /\ \A i \in Slots : mempoints'[i].addr \in {mempoints[i].addr, addr}
  BY <1>0, <1>1, InsertKeeps
<1>4. TypeOK'
  BY <1>0, <1>1, <1>2, <1>3 DEF TypeOK
<1>5. \A a \in inserted' : a # 0
  BY <1>0, <1>1, WordsArePositive DEF TypeOK
<1>6. SlotsAreGdbs'
  BY <1>0, <1>2, <1>3, <1>5 DEF SlotsAreGdbs
<1>7. ASSUME __start_Breakpoint # 0, TextStart \notin doubled'
      PROVE  Holds(TextStart)' /\ TextStart \notin inserted'
  <2>1. TextStart \notin doubled /\ Holds(TextStart) /\ TextStart \notin inserted
    BY <1>0, <1>2, <1>7 DEF StartIsPlanted
  <2>2. addr # TextStart
    BY <1>2, <1>7, <2>1
  <2>3. Holds(TextStart)'
    BY <1>3, <2>1, StartIsCode, WordsArePositive
  <2> QED
    BY <1>0, <2>1, <2>2, <2>3
<1>8. StartIsPlanted'
  BY <1>0, <1>7 DEF StartIsPlanted
<1> QED
  BY <1>3, <1>4, <1>6, <1>8 DEF BreakpointInv, TableInv

\* gdb clears a breakpoint, or asks for it again when there is none any more.
LEMMA ClearKeeps ==
  ASSUME BreakpointInv, NEW addr \in Targets, ClearBreakpoint(addr)
  PROVE  BreakpointInv'
<1>0. /\ TypeOK /\ UniqueSlots /\ WordsMatch /\ SlotsAreGdbs /\ StartIsPlanted
      /\ state = "stopped" /\ inserted' = inserted \ {addr}
      /\ addr = __start_Breakpoint => addr \in inserted \cup doubled
      /\ UNCHANGED <<__start_Breakpoint, pc, trace, state, program, doubled>>
  BY DEF BreakpointInv, TableInv, ClearBreakpoint, Listening
<1>1. CASE ~Holds(addr)
  <2>1. UNCHANGED <<mempoints, memory>>
    BY <1>1 DEF ClearBreakpoint
  <2>2. TypeOK'
    BY <1>0, <2>1 DEF TypeOK
  <2>3. UniqueSlots' /\ WordsMatch' /\ StartIsPlanted'
    BY <1>0, <2>1 DEF UniqueSlots, WordsMatch, Matches, Holds, StartIsPlanted
  <2>4. \A i \in Slots : mempoints[i].addr # addr
    BY <1>1 DEF Holds
  <2>5. SlotsAreGdbs'
    BY <1>0, <2>1, <2>4 DEF SlotsAreGdbs, Holds
  <2> QED
    BY <2>2, <2>3, <2>5 DEF BreakpointInv, TableInv
<1>2. CASE Holds(addr)
  <2>0. addr \in Words /\ addr # 0
    <3>1. PICK i \in Slots : mempoints[i].addr = addr
      BY <1>2 DEF Holds
    <3>2. mempoints[i] \in MemBreak /\ addr # 0
      BY <1>0, TargetsAssumption DEF TypeOK
    <3> QED
      BY <3>1, <3>2 DEF MemBreak
  <2>1. RemoveMemoryBreakpoint(addr)
    BY <1>2 DEF ClearBreakpoint
  <2>2. /\ mempoints' \in [Slots -> MemBreak] /\ memory' \in [Words -> Contents]
        /\ UniqueSlots' /\ WordsMatch'
        /\ \A a : a \notin {0, addr} => (Holds(a)' <=> Holds(a))
        /\ \A i \in Slots : mempoints'[i].addr \in {mempoints[i].addr, 0}
        /\ addr \notin doubled => \A i \in Slots : mempoints'[i].addr # addr
    BY <1>0, <1>2, <2>0, <2>1, RemoveKeeps
  <2>3. TypeOK'
    BY <1>0, <2>2 DEF TypeOK
  <2>4. \A a \in inserted : a # 0
    BY <1>0, WordsArePositive DEF TypeOK
  <2>5. SlotsAreGdbs'
    BY <1>0, <2>2, <2>4 DEF SlotsAreGdbs
  <2>6. ASSUME __start_Breakpoint # 0, TextStart \notin doubled
        PROVE  Holds(TextStart)' /\ TextStart \notin inserted'
    <3>1. __start_Breakpoint = TextStart /\ Holds(TextStart) /\ TextStart \notin inserted
      BY <1>0, <2>6 DEF StartIsPlanted
    <3>2. addr # TextStart /\ TextStart # 0
      BY <1>0, <2>6, <3>1, StartIsCode, WordsArePositive
    <3> QED
      BY <1>0, <2>2, <3>1, <3>2
  <2>7. StartIsPlanted'
    BY <1>0, <2>6 DEF StartIsPlanted
  <2> QED
    BY <2>2, <2>3, <2>5, <2>7 DEF BreakpointInv, TableInv
<1> QED
  BY <1>1, <1>2

\* A word gdb writes is the program's, unless there is a breakpoint in its place.
LEMMA WriteKeeps ==
  ASSUME BreakpointInv, NEW addr \in Writable, WriteMemory(addr)
  PROVE  BreakpointInv'
<1>0. /\ TypeOK /\ UniqueSlots /\ WordsMatch /\ SlotsAreGdbs /\ StartIsPlanted
      /\ state = "stopped" /\ addr \in Code /\ addr \in Words
      /\ UNCHANGED <<mempoints, __start_Breakpoint, pc, trace, state, inserted, doubled>>
  BY DEF BreakpointInv, TableInv, WriteMemory, Listening, Words
<1>1. /\ memory' = [memory EXCEPT ![addr] = "written"]
      /\ program' = [program EXCEPT ![addr] = IF Holds(addr) THEN "unknown" ELSE "written"]
  BY DEF WriteMemory
<1>2. memory' \in [Words -> Contents] /\ program' \in [Words -> Contents \cup {"unknown"}]
  BY <1>0, <1>1 DEF TypeOK, Contents
<1>3. TypeOK'
  BY <1>0, <1>2 DEF TypeOK
<1>4. UniqueSlots' /\ SlotsAreGdbs' /\ StartIsPlanted'
  BY <1>0 DEF UniqueSlots, SlotsAreGdbs, StartIsPlanted, Holds
<1>5. ASSUME NEW a \in Code \ doubled, program'[a] # "unknown" PROVE Matches(a)'
  <2>1. a \in Words /\ (Holds(a)' <=> Holds(a))
    BY <1>0 DEF Words, Holds
  <2>2. CASE a = addr
    BY <1>0, <1>1, <1>5, <2>1, <2>2 DEF TypeOK, Matches
  <2>3. CASE a # addr
    <3>1. memory'[a] = memory[a] /\ program'[a] = program[a]
      BY <1>0, <1>1, <2>1, <2>3 DEF TypeOK
    <3>2. Matches(a)
      BY <1>0, <1>5, <3>1 DEF WordsMatch
    <3> QED
      BY <1>0, <2>1, <3>1, <3>2 DEF Matches
  <2> QED
    BY <2>2, <2>3
<1> QED
  BY <1>0, <1>3, <1>4, <1>5 DEF BreakpointInv, TableInv, WordsMatch

\* The inferior begins, or goes on.
LEMMA ResumeKeeps ==
  ASSUME BreakpointInv, RunInferior \/ \E step \in BOOLEAN : CmdContinue(step)
  PROVE  BreakpointInv'
<1>0. /\ TypeOK /\ UniqueSlots /\ WordsMatch /\ SlotsAreGdbs /\ StartIsPlanted
      /\ UNCHANGED <<mempoints, memory, __start_Breakpoint, inserted, program, doubled>>
      /\ state' = "executing" /\ state \in {"loaded", "stopped"}
  BY DEF BreakpointInv, TableInv, RunInferior, CmdContinue
<1>1. trace' \in BOOLEAN /\ pc' \in Nat
  BY <1>0, SizesAssumption DEF RunInferior, CmdContinue, TypeOK, Code
<1>2. TypeOK'
  BY <1>0, <1>1 DEF TypeOK
<1>3. UniqueSlots' /\ WordsMatch' /\ SlotsAreGdbs' /\ StartIsPlanted'
  BY <1>0 DEF UniqueSlots, WordsMatch, Matches, Holds, SlotsAreGdbs, StartIsPlanted
<1> QED
  BY <1>2, <1>3 DEF BreakpointInv, TableInv

\* Each step preserves the invariant.
LEMMA StepBreakpoints == BreakpointInv /\ [Next]_vars => BreakpointInv'
<1> SUFFICES ASSUME BreakpointInv, [Next]_vars PROVE BreakpointInv'
  OBVIOUS
<1>1. CASE UNCHANGED vars
  BY <1>1
     DEF vars, BreakpointInv, TypeOK, TableInv, UniqueSlots, WordsMatch, Matches, Holds,
         SlotsAreGdbs, StartIsPlanted
<1> QED
  BY <1>1, LoadKeeps, UnloadKeeps, ExecuteKeeps, ExceptionKeeps, SetKeeps, ClearKeeps,
     WriteKeeps, ResumeKeeps DEF Next

-----------------------------------------------------------------------------
(* The theorems *)

\* The memory of the program is the program with gdb's writes and with a trap
\* where the table has a slot, which holds the word that belongs there, for every
\* order of loads, requests, writes and stops (exceptions.c:45-80).
THEOREM MemoryMatches == Spec => []MemoryMatchesTable
<1>1. BreakpointInv => MemoryMatchesTable
  <2> SUFFICES ASSUME BreakpointInv, NEW a \in Code \ doubled, program[a] # "unknown"
               PROVE  IF Holds(a) THEN /\ memory[a] = "BREAKPOINT"
                                       /\ mempoints[SlotOf(a)].store = program[a]
                                  ELSE memory[a] = program[a]
    BY DEF MemoryMatchesTable
  <2>1. Matches(a)
    BY DEF BreakpointInv, TableInv, WordsMatch
  <2>2. Holds(a) => SlotOf(a) \in Slots /\ mempoints[SlotOf(a)].addr = a
    BY SlotIsFound
  <2> QED
    BY <2>1, <2>2 DEF Matches
<1> QED
  BY InitBreakpoints, StepBreakpoints, <1>1, PTL DEF Spec

\* gdb and the server agree where breakpoints are, apart from the one planted at
\* __start and from addresses given two slots (server.c:182-214, exceptions.c:45-80).
THEOREM TableMatches == Spec => []TableMatchesGdb
<1>1. ASSUME BreakpointInv, state # "gone"
      PROVE  LET Apart == {0, __start_Breakpoint} \cup doubled
             IN  {mempoints[i].addr : i \in Slots} \ Apart = inserted \ Apart
  <2> DEFINE Apart == {0, __start_Breakpoint} \cup doubled
  <2>1. \A i \in Slots : mempoints[i].addr \in Apart \cup inserted
    BY <1>1 DEF BreakpointInv, TableInv, SlotsAreGdbs
  <2>2. \A a \in inserted \ Apart : \E i \in Slots : mempoints[i].addr = a
    BY <1>1 DEF BreakpointInv, TableInv, SlotsAreGdbs, Holds
  <2> HIDE DEF Apart
  <2>3. {mempoints[i].addr : i \in Slots} \ Apart = inserted \ Apart
    BY <2>1, <2>2
  <2> QED
    BY <2>3 DEF Apart
<1>2. BreakpointInv => TableMatchesGdb
  BY <1>1 DEF TableMatchesGdb
<1> QED
  BY InitBreakpoints, StepBreakpoints, <1>2, PTL DEF Spec

\* A stop at a breakpoint is on the replaced instruction, and one at a trap #0 of
\* the program behind it (exceptions.c:142-157).
THEOREM NothingIsSkipped == Spec => NoInstructionSkipped
<1> DEFINE Rewound == pc' = IF pc \in inserted \cup {__start_Breakpoint} THEN pc ELSE pc + 2
<1>1. ASSUME BreakpointInv, BreakpointException, pc \notin doubled PROVE Rewound
  <2>1. pc # 0 /\ pc \in Words
    BY <1>1, WordsArePositive DEF Words, BreakpointException
  <2>2. Holds(pc) => pc \in inserted \cup {__start_Breakpoint}
    BY <1>1, <2>1 DEF BreakpointInv, TableInv, SlotsAreGdbs, Holds, BreakpointException
  <2>3. pc \in inserted => Holds(pc)
    BY <1>1 DEF BreakpointInv, TableInv, SlotsAreGdbs, BreakpointException
  <2>4. pc = __start_Breakpoint => Holds(pc)
    BY <1>1, <2>1 DEF BreakpointInv, TableInv, StartIsPlanted, BreakpointException
  <2> QED
    BY <1>1, <2>2, <2>3, <2>4 DEF BreakpointException, IsBreakpoint
<1>2. BreakpointInv /\ [Next]_vars
        => [BreakpointException /\ pc \notin doubled => Rewound]_vars
  BY <1>1
<1> QED
  BY InitBreakpoints, StepBreakpoints, <1>2, PTL DEF Spec, NoInstructionSkipped
==============================================================================
