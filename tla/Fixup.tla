------------------------------- MODULE Fixup -------------------------------
(***************************************************************************)
(* The prg linker, elf-prg/main.c: it copies the sections of a linked elf  *)
(* file to a prg file, loads the relocations of .text and .data, sorts     *)
(* them and writes them as a fixup table of distances, one byte each.      *)
(*                                                                         *)
(* The table is read by the loader of TOS (external): a long word, then    *)
(* bytes, where 1 moves on by MaxFix without relocating and 0 ends it.     *)
(* The loader reads along while the table is written.                      *)
(*                                                                         *)
(* The content of a section is abstracted to its size.  relaText and       *)
(* relaData are what LoadRelocs finds: the entries of a section of type    *)
(* SHT_RELA, and nothing in one that is missing or has another type.       *)
(***************************************************************************)
EXTENDS Integers, Sequences, Functions

CONSTANTS HeaderSize,  \* size of the prg header, 0x1c
          MaxFix,      \* the greatest distance of a byte, 254
          Images       \* the elf files

Kinds == {"abs", "pc", "unknown"}
Reloc == [offset : Nat, kind : Kinds, weak : BOOLEAN]  \* weak: to an undefined weak symbol
Needed(r) == r.kind = "abs" /\ ~r.weak

\* The linker scripts put .text at 0 and code in front of it, so that no long word
\* is relocated at 0, and none is relocated twice.  Long words are at even addresses,
\* where the compiler puts them and a 68000 needs them.
ASSUME SizesAssumption ==
  HeaderSize \in Nat /\ MaxFix \in Nat /\ MaxFix > 1 /\ MaxFix % 2 = 0
ASSUME ImagesAssumption ==
  \A im \in Images :
     /\ im.text \in Nat /\ im.data \in Nat /\ im.dataAddr \in Nat /\ im.bssAddr \in Nat
     /\ im.relaText \in Seq(Reloc) /\ im.relaData \in Seq(Reloc)
     /\ LET all == im.relaText \o im.relaData
        IN \A a, b \in DOMAIN all :
             Needed(all[a]) /\ Needed(all[b]) =>
               /\ all[a].offset > 0 /\ all[a].offset % 2 = 0
               /\ all[a].offset = all[b].offset => a = b

VARIABLES
  pc,          \* where main is
  image,       \* the elf file
  pos,         \* length of the prg file without its table
  dataAt,      \* where .data begins in it
  lost,        \* which writes have failed: those that main looks at, "checked", the
               \* padding, or what fclose writes of the stream's buffer, "flush"
  relocs,      \* the relocations, relocnum of them
  i, j,        \* the loops of LoadRelocs, SortRelocs and WriteFixup
  lastOffset, deltaFix, status,
  result,      \* of main
  loader       \* the loader of TOS

table == <<i, j, lastOffset, deltaFix, status>>
vars  == <<pc, image, pos, dataAt, lost, relocs, table, result, loader>>

Losses == {"checked", "padding", "flush"}

Points == {"header", "text", "alignData", "data", "alignBss", "relaText", "relaData",
           "sort", "fixup", "chain", "close", "done", "failed"}

TypeOK == /\ pc \in Points
          /\ pos \in Nat /\ dataAt \in Nat
          /\ lost \subseteq Losses
          /\ relocs \in Seq(Reloc)
          /\ i \in Nat /\ j \in Nat
          /\ lastOffset \in Nat /\ deltaFix \in Nat /\ status \in BOOLEAN
          /\ result \in {-1, 0}
          /\ loader \in [addr : Nat, relocated : SUBSET Nat, mode : {"first", "more", "ended"}]

Init == /\ pc = "header" /\ image \in Images
        /\ pos = 0 /\ dataAt = 0 /\ lost = {}
        /\ relocs = << >> /\ i = 1 /\ j = 2
        /\ lastOffset = 0 /\ deltaFix = 0 /\ status = TRUE
        /\ result = -1
        /\ loader = [addr |-> 0, relocated |-> {}, mode |-> "first"]

-----------------------------------------------------------------------------
(* The loader of TOS *)

LoadLong(l, v) ==
  IF v = 0 THEN [l EXCEPT !.mode = "ended"]
           ELSE [addr |-> v, relocated |-> {v}, mode |-> "more"]

LoadByte(l, b) ==
  IF l.mode # "more" THEN l
  ELSE CASE b = 0 -> [l EXCEPT !.mode = "ended"]
         [] b = 1 -> [l EXCEPT !.addr = @ + MaxFix]
         [] OTHER -> [l EXCEPT !.addr = @ + b, !.relocated = @ \cup {l.addr + b}]

-----------------------------------------------------------------------------
(* Sections *)

\* OutputSectionProgbits: copies a section, or fails.
Output(from, size, to) ==
  /\ pc = from
  /\ \/ pos' = pos + size /\ pc' = to /\ UNCHANGED lost
     \/ /\ size > 0
        /\ lost' = lost \cup {"checked"} /\ pc' = "failed" /\ UNCHANGED pos
  /\ UNCHANGED <<image, relocs, table, result, loader>>

\* AlignToSectionAddress: writes zeros, and does not look which of them it could.
Align(from, address, to) ==
  /\ pc = from
  /\ \/ /\ pos > HeaderSize + address
        /\ pc' = "failed" /\ UNCHANGED <<pos, lost>>
     \/ /\ pos <= HeaderSize + address
        /\ pos' = HeaderSize + address /\ pc' = to /\ UNCHANGED lost
     \/ /\ \E missing \in 1..(HeaderSize + address - pos) : pos' = HeaderSize + address - missing
        /\ lost' = lost \cup {"padding"} /\ pc' = to
  /\ UNCHANGED <<image, dataAt, relocs, table, result, loader>>

OutputHeader == Output("header", HeaderSize, "text") /\ UNCHANGED dataAt
OutputText   == Output("text", image.text, "alignData") /\ UNCHANGED dataAt
AlignData    == Align("alignData", image.dataAddr, "data")
OutputData   == Output("data", image.data, "alignBss") /\ dataAt' = pos
AlignBss     == Align("alignBss", image.bssAddr, "relaText")

-----------------------------------------------------------------------------
(* Relocations *)

\* LoadRelocs: appends the next one, unless it is to an undefined weak symbol.
LoadReloc(rela) ==
  /\ i <= Len(rela)
  /\ relocs' = IF rela[i].weak THEN relocs ELSE Append(relocs, rela[i])
  /\ i' = i + 1
  /\ UNCHANGED <<pc, image, pos, dataAt, lost, j, lastOffset, deltaFix, status, result, loader>>

LoadEnds(rela, to) ==
  /\ i > Len(rela)
  /\ pc' = to /\ i' = 1
  /\ UNCHANGED <<image, pos, dataAt, lost, relocs, j, lastOffset, deltaFix, status, result, loader>>

LoadRelaText ==
  pc = "relaText" /\ (LoadReloc(image.relaText) \/ LoadEnds(image.relaText, "relaData"))

LoadRelaData ==
  pc = "relaData" /\ (LoadReloc(image.relaData) \/ LoadEnds(image.relaData, "sort"))

\* A section of the elf file that is missing, cannot be read or, of those that are
\* copied, has the wrong type.
InputFails ==
  /\ pc \in {"header", "text", "data", "relaText", "relaData"}
  /\ pc' = "failed"
  /\ UNCHANGED <<image, pos, dataAt, lost, relocs, table, result, loader>>

Swapped(a, b) == [relocs EXCEPT ![a] = relocs[b], ![b] = relocs[a]]

\* SortRelocs: the inner loop, the outer loop, and its end.
SortInner ==
  /\ pc = "sort" /\ i < Len(relocs) /\ j <= Len(relocs)
  /\ relocs' = IF relocs[i].offset > relocs[j].offset THEN Swapped(i, j) ELSE relocs
  /\ j' = j + 1
  /\ UNCHANGED <<pc, image, pos, dataAt, lost, i, lastOffset, deltaFix, status, result, loader>>

SortOuter ==
  /\ pc = "sort" /\ i < Len(relocs) /\ j > Len(relocs)
  /\ i' = i + 1 /\ j' = i + 2
  /\ UNCHANGED <<pc, image, pos, dataAt, lost, relocs, lastOffset, deltaFix, status, result, loader>>

SortEnds ==
  /\ pc = "sort" /\ i >= Len(relocs)
  /\ pc' = "fixup" /\ i' = 1
  /\ UNCHANGED <<image, pos, dataAt, lost, relocs, j, lastOffset, deltaFix, status, result, loader>>

-----------------------------------------------------------------------------
(* WriteFixup *)

\* fwrite of a byte, or of a long word: what the loader makes of it while there has
\* been no error, or a failure.
Emit(loaded) ==
  \/ loader' = (IF status THEN loaded ELSE loader) /\ UNCHANGED <<lost, status>>
  \/ lost' = lost \cup {"checked"} /\ status' = FALSE /\ UNCHANGED loader

AtReloc(kind) == pc = "fixup" /\ status /\ i <= Len(relocs) /\ relocs[i].kind = kind

FirstFix ==
  /\ AtReloc("abs") /\ lastOffset = 0
  /\ Emit(LoadLong(loader, relocs[i].offset))
  /\ lastOffset' = relocs[i].offset /\ i' = i + 1
  /\ UNCHANGED <<pc, image, pos, dataAt, relocs, j, deltaFix, result>>

Distance(from, to) == to - from

NextFix ==
  /\ AtReloc("abs") /\ lastOffset # 0
  /\ deltaFix' = Distance(lastOffset, relocs[i].offset) /\ pc' = "chain"
  /\ UNCHANGED <<image, pos, dataAt, lost, relocs, i, j, lastOffset, status, result, loader>>

\* Mutants: a distance of 254 gets an escape, too; escapes never get it down.
TooFarEarly(delta) == delta >= MaxFix
TooFar(delta) == delta > MaxFix
WithoutEscapeStuck(delta) == delta
WithoutEscape(delta) == delta - MaxFix

Escape ==
  /\ pc = "chain" /\ TooFar(deltaFix)
  /\ Emit(LoadByte(loader, 1))
  /\ deltaFix' = WithoutEscape(deltaFix)
  /\ UNCHANGED <<pc, image, pos, dataAt, relocs, i, j, lastOffset, result>>

LastByte ==
  /\ pc = "chain" /\ ~TooFar(deltaFix)
  /\ Emit(LoadByte(loader, deltaFix))
  /\ lastOffset' = relocs[i].offset /\ i' = i + 1 /\ pc' = "fixup"
  /\ UNCHANGED <<image, pos, dataAt, relocs, j, deltaFix, result>>

NoFix ==
  /\ AtReloc("pc") /\ i' = i + 1
  /\ UNCHANGED <<pc, image, pos, dataAt, lost, relocs, j, lastOffset, deltaFix, status, result, loader>>

UnknownType ==
  /\ AtReloc("unknown") /\ status' = FALSE /\ i' = i + 1
  /\ UNCHANGED <<pc, image, pos, dataAt, lost, relocs, j, lastOffset, deltaFix, result, loader>>

\* Mutant of EndFixup: main overlooks the status.
EndFixupForgets ==
  /\ pc = "fixup" /\ (~status \/ i > Len(relocs))
  /\ Emit(IF lastOffset = 0 THEN LoadLong(loader, 0) ELSE LoadByte(loader, 0))
  /\ pc' = "close" /\ result' = 0
  /\ UNCHANGED <<image, pos, dataAt, relocs, i, j, lastOffset, deltaFix>>

\* The end of the table, which is written after an error, too.
EndFixup ==
  /\ pc = "fixup" /\ (~status \/ i > Len(relocs))
  /\ Emit(IF lastOffset = 0 THEN LoadLong(loader, 0) ELSE LoadByte(loader, 0))
  /\ pc' = IF status' THEN "close" ELSE "failed"
  /\ result' = IF status' THEN 0 ELSE -1
  /\ UNCHANGED <<image, pos, dataAt, relocs, i, j, lastOffset, deltaFix>>

\* The end of main.  fclose writes what is left in the buffer of the stream; nobody
\* looks whether it could.
Close ==
  /\ pc = "close" /\ pc' = "done"
  /\ lost' \in {lost, lost \cup {"flush"}}
  /\ UNCHANGED <<image, pos, dataAt, relocs, table, result, loader>>

Finished == pc \in {"done", "failed"} /\ UNCHANGED vars

Next == \/ OutputHeader \/ OutputText \/ AlignData \/ OutputData \/ AlignBss
        \/ LoadRelaText \/ LoadRelaData \/ InputFails
        \/ SortInner \/ SortOuter \/ SortEnds
        \/ FirstFix \/ NextFix \/ Escape \/ LastByte \/ NoFix \/ UnknownType \/ EndFixup
        \/ Close \/ Finished

\* The program is sequential and waits for nobody.
Spec == Init /\ [][Next]_vars /\ WF_vars(Next)

-----------------------------------------------------------------------------
(* Properties *)

Loaded == {r \in Range(image.relaText) \cup Range(image.relaData) : ~r.weak}
Wanted == {r.offset : r \in {x \in Loaded : Needed(x)}}

\* What is converted with result 0, nothing having been lost where main does not look,
\* is loaded right: the loader finds the data, and the table behind it, where the
\* header says, relocates every long word that needs it and no other, and gets to
\* the end of the table (main.c:176-191, 303-364).
ProgramLoads ==
  pc = "done" /\ lost = {} =>
    /\ dataAt = HeaderSize + image.dataAddr
    /\ pos = HeaderSize + image.bssAddr
    /\ loader.mode = "ended" /\ loader.relocated = Wanted

\* main reports success only if every fwrite of the sections and of the table succeeded
\* and every type was known (main.c:344-363, 547-555).  It says nothing of the
\* padding and of what fclose writes: main looks at neither.
ResultIsTrue ==
  result = 0 => "checked" \notin lost /\ \A r \in Loaded : r.kind \in {"abs", "pc"}

\* The conversion ends, with all its loops (main.c:288-300, 308-350).
Terminates == <>(pc \in {"done", "failed"})
=============================================================================
