----------------------------- MODULE Fixup_proofs -----------------------------
(***************************************************************************)
(* The prg linker, for any elf files: what is converted with result 0 is   *)
(* loaded right unless something was lost where main does not look, and    *)
(* result 0 is reported for nothing else.                                  *)
(***************************************************************************)
EXTENDS Fixup, SequenceTheorems, TLAPS

\* A relocation of a long word.
Abs(k) == relocs[k].kind = "abs"

\* While .text and .data are copied nothing else has happened.
Early   == {"header", "text", "alignData", "data", "alignBss"}
Loading == {"relaText", "relaData"}
Late    == {"sort", "fixup", "chain"}

\* The file has the layout of the header, or padding has been lost.
Laid ==
  /\ pc = "data" => "padding" \in lost \/ pos = HeaderSize + image.dataAddr
  /\ pc \in {"alignBss"} \cup Loading \cup Late => "padding" \in lost \/ dataAt = HeaderSize + image.dataAddr
  /\ pc \in Loading \cup Late => "padding" \in lost \/ pos = HeaderSize + image.bssAddr

\* The first n of a section's relocations, without the weak ones.
Taken(rela, n) == {rela[k] : k \in {m \in 1..n : ~rela[m].weak}}

\* What is loaded is in relocs, no long word twice.
Gathered ==
  /\ pc \in Early => relocs = << >> /\ i = 1
  /\ pc = "relaText" => /\ i \in 1..(Len(image.relaText) + 1)
                        /\ Range(relocs) = Taken(image.relaText, i - 1)
  /\ pc = "relaData" => /\ i \in 1..(Len(image.relaData) + 1)
                        /\ Range(relocs) = Taken(image.relaText, Len(image.relaText))
                                           \cup Taken(image.relaData, i - 1)
  /\ pc \in Late => Range(relocs) = Loaded

Distinct ==
  \A a, b \in DOMAIN relocs : Abs(a) /\ Abs(b) /\ relocs[a].offset = relocs[b].offset => a = b

\* The order so far.
Sorted ==
  /\ pc \in Early \cup Loading => j = 2
  /\ pc = "sort" =>
       /\ i \in Nat \ {0} /\ j > i
       /\ \A a, b \in DOMAIN relocs :
            a < b /\ (a < i \/ (a = i /\ b < j)) => relocs[a].offset <= relocs[b].offset
  /\ pc \in {"fixup", "chain"} =>
       \A a, b \in DOMAIN relocs : a < b => relocs[a].offset <= relocs[b].offset

\* What the loader has relocated is what the writer has gone past, and it stands
\* where the writer was last.
Written ==
  /\ "checked" \notin lost
  /\ \A k \in 1..(i - 1) : relocs[k].kind # "unknown"
  /\ loader.relocated = {relocs[k].offset : k \in {m \in 1..(i - 1) : Abs(m)}}
  /\ \/ lastOffset = 0 /\ loader.mode = "first" /\ loader.relocated = {}
     \/ lastOffset # 0 /\ loader.mode = "more" /\ lastOffset \in loader.relocated

Encoded ==
  /\ pc \in Early \cup Loading \cup {"sort"} =>
       /\ status /\ "checked" \notin lost
       /\ lastOffset = 0 /\ loader.mode = "first" /\ loader.relocated = {}
  /\ pc \in {"fixup", "chain"} => i \in 1..(Len(relocs) + 1)
  /\ pc \in {"fixup", "chain"} /\ status => Written
  /\ pc = "fixup" /\ status /\ lastOffset # 0 => loader.addr = lastOffset
  /\ pc = "chain" =>
       /\ i \in DOMAIN relocs /\ Abs(i) /\ lastOffset # 0
       /\ deltaFix > 0 /\ deltaFix % 2 = 0
       /\ status => loader.addr + deltaFix = relocs[i].offset

\* What the loader finds in the file that is complete but for what main overlooks.
Layout ==
  /\ "padding" \in lost \/ dataAt = HeaderSize + image.dataAddr
  /\ "padding" \in lost \/ pos = HeaderSize + image.bssAddr
  /\ loader.mode = "ended" /\ loader.relocated = Wanted

\* Success is reported at the end, and is true.
Reported ==
  /\ result = 0 => pc \in {"close", "done"}
  /\ pc \in {"close", "done"} =>
       /\ "checked" \notin lost /\ Layout
       /\ \A r \in Loaded : r.kind \in {"abs", "pc"}

FixupInv == /\ TypeOK /\ image \in Images
            /\ Laid /\ Gathered /\ Distinct /\ Sorted /\ Encoded /\ Reported

-----------------------------------------------------------------------------
(* The elf files *)

\* What ImagesAssumption says of the file at hand.
LEMMA ImageTypes ==
  ASSUME image \in Images
  PROVE  /\ image.text \in Nat /\ image.data \in Nat
         /\ image.dataAddr \in Nat /\ image.bssAddr \in Nat
         /\ image.relaText \in Seq(Reloc) /\ image.relaData \in Seq(Reloc)
BY ImagesAssumption

\* No two relocations that the loader needs are for one long word, and none is for address 0.
LEMMA ImageOffsets ==
  ASSUME image \in Images
  PROVE  LET all == image.relaText \o image.relaData
         IN \A a, b \in DOMAIN all :
              Needed(all[a]) /\ Needed(all[b]) =>
                /\ all[a].offset > 0 /\ all[a].offset % 2 = 0
                /\ all[a].offset = all[b].offset => a = b
BY ImagesAssumption

\* No long word is relocated twice, in a section or in both.
LEMMA ImageDistinct ==
  ASSUME image \in Images
  PROVE  /\ \A a, b \in DOMAIN image.relaText :
              /\ Needed(image.relaText[a]) /\ Needed(image.relaText[b])
              /\ image.relaText[a].offset = image.relaText[b].offset
              => a = b
         /\ \A a, b \in DOMAIN image.relaData :
              /\ Needed(image.relaData[a]) /\ Needed(image.relaData[b])
              /\ image.relaData[a].offset = image.relaData[b].offset
              => a = b
         /\ \A a \in DOMAIN image.relaText, b \in DOMAIN image.relaData :
              Needed(image.relaText[a]) /\ Needed(image.relaData[b]) =>
                image.relaText[a].offset # image.relaData[b].offset
         /\ \A r \in Range(image.relaText) \cup Range(image.relaData) :
              Needed(r) => r.offset > 0 /\ r.offset % 2 = 0
<1> DEFINE t   == image.relaText
           d   == image.relaData
           all == t \o d
<1>1. t \in Seq(Reloc) /\ d \in Seq(Reloc)
  BY ImageTypes
<1>2. \A a, b \in DOMAIN all :
        Needed(all[a]) /\ Needed(all[b]) =>
          /\ all[a].offset > 0 /\ all[a].offset % 2 = 0
          /\ all[a].offset = all[b].offset => a = b
  BY ImageOffsets
<1> HIDE DEF t, d
<1>3. /\ Len(t) \in Nat /\ Len(d) \in Nat /\ DOMAIN t = 1..Len(t) /\ DOMAIN d = 1..Len(d)
      /\ DOMAIN all = 1..(Len(t) + Len(d))
      /\ \A k \in 1..(Len(t) + Len(d)) : all[k] = IF k <= Len(t) THEN t[k] ELSE d[k - Len(t)]
  <2>1. all \in Seq(Reloc) /\ Len(all) = Len(t) + Len(d)
        /\ \A k \in 1..(Len(t) + Len(d)) : all[k] = IF k <= Len(t) THEN t[k] ELSE d[k - Len(t)]
    BY <1>1, ConcatProperties
  <2> HIDE DEF all
  <2> QED
    BY <1>1, <2>1, LenProperties
<1> HIDE DEF all
<1>4. \A k \in DOMAIN t : k \in DOMAIN all /\ all[k] = t[k]
  BY <1>3
<1>5. \A k \in DOMAIN d : Len(t) + k \in DOMAIN all /\ all[Len(t) + k] = d[k]
  BY <1>3
<1>6. ASSUME NEW a \in DOMAIN t, NEW b \in DOMAIN t,
             Needed(t[a]), Needed(t[b]), t[a].offset = t[b].offset
      PROVE  a = b
  BY <1>2, <1>4, <1>6
<1>7. ASSUME NEW a \in DOMAIN d, NEW b \in DOMAIN d,
             Needed(d[a]), Needed(d[b]), d[a].offset = d[b].offset
      PROVE  a = b
  <2>1. Len(t) + a = Len(t) + b
    BY <1>2, <1>5, <1>7
  <2> QED
    BY <1>3, <2>1
<1>8. ASSUME NEW a \in DOMAIN t, NEW b \in DOMAIN d, Needed(t[a]), Needed(d[b])
      PROVE  t[a].offset # d[b].offset
  <2>1. a # Len(t) + b
    BY <1>3
  <2> QED
    BY <1>2, <1>4, <1>5, <1>8, <2>1
<1>9. ASSUME NEW r \in Range(t) \cup Range(d), Needed(r)
      PROVE  r.offset > 0 /\ r.offset % 2 = 0
  <2>1. \E k \in DOMAIN all : r = all[k]
    BY <1>4, <1>5 DEF Range
  <2> QED
    BY <1>2, <1>9, <2>1
<1> QED
  BY <1>6, <1>7, <1>8, <1>9 DEF t, d

-----------------------------------------------------------------------------
(* Sequences of relocations *)

\* Each entry that is read adds its relocation, unless it is weak.
LEMMA TakenMore ==
  ASSUME NEW rela \in Seq(Reloc), NEW n \in Nat, n < Len(rela)
  PROVE  Taken(rela, n + 1) = Taken(rela, n) \cup (IF rela[n + 1].weak THEN {} ELSE {rela[n + 1]})
<1>1. 1..(n + 1) = 1..n \cup {n + 1}
  OBVIOUS
<1> QED
  BY <1>1 DEF Taken

\* Before the first entry nothing is taken.
LEMMA TakenNone == ASSUME NEW rela PROVE Taken(rela, 0) = {}
BY DEF Taken

\* Both sections, read to their ends, are what the linker loads.
LEMMA TakenAll ==
  ASSUME image \in Images
  PROVE  Taken(image.relaText, Len(image.relaText)) \cup Taken(image.relaData, Len(image.relaData))
           = Loaded
<1>1. /\ DOMAIN image.relaText = 1..Len(image.relaText)
      /\ DOMAIN image.relaData = 1..Len(image.relaData)
  BY ImageTypes, LenProperties
<1> QED
  BY <1>1 DEF Taken, Loaded, Range

\* A relocation is appended.
LEMMA AppendOne ==
  ASSUME NEW s \in Seq(Reloc), NEW e \in Reloc
  PROVE  /\ Append(s, e) \in Seq(Reloc) /\ Len(s) \in Nat
         /\ DOMAIN Append(s, e) = 1..(Len(s) + 1) /\ DOMAIN s = 1..Len(s)
         /\ \A k \in DOMAIN s : Append(s, e)[k] = s[k]
         /\ Append(s, e)[Len(s) + 1] = e
         /\ Range(Append(s, e)) = Range(s) \cup {e}
<1>1. /\ Append(s, e) \in Seq(Reloc) /\ Len(Append(s, e)) = Len(s) + 1 /\ Len(s) \in Nat
      /\ \A k \in 1..Len(s) : Append(s, e)[k] = s[k]
      /\ Append(s, e)[Len(s) + 1] = e
  BY AppendProperties, LenProperties
<1>2. DOMAIN Append(s, e) = 1..(Len(s) + 1) /\ DOMAIN s = 1..Len(s)
  BY <1>1, LenProperties
<1>3. 1..(Len(s) + 1) = 1..Len(s) \cup {Len(s) + 1}
  BY <1>1
<1>4. Range(Append(s, e)) = Range(s) \cup {e}
  BY <1>1, <1>2, <1>3 DEF Range
<1> QED
  BY <1>1, <1>2, <1>4

\* Two relocations change places.
LEMMA SwapTwo ==
  ASSUME relocs \in Seq(Reloc), NEW a \in DOMAIN relocs, NEW b \in DOMAIN relocs, a # b
  PROVE  /\ Swapped(a, b) \in Seq(Reloc) /\ Len(Swapped(a, b)) = Len(relocs)
         /\ DOMAIN Swapped(a, b) = DOMAIN relocs
         /\ Swapped(a, b)[a] = relocs[b] /\ Swapped(a, b)[b] = relocs[a]
         /\ \A k \in DOMAIN relocs : k # a /\ k # b => Swapped(a, b)[k] = relocs[k]
         /\ Range(Swapped(a, b)) = Range(relocs)
<1>1. /\ DOMAIN relocs = 1..Len(relocs) /\ Len(relocs) \in Nat
      /\ \A k \in DOMAIN relocs : relocs[k] \in Reloc
  BY LenProperties, ElementOfSeq
<1>2. /\ DOMAIN Swapped(a, b) = DOMAIN relocs
      /\ Swapped(a, b)[a] = relocs[b] /\ Swapped(a, b)[b] = relocs[a]
      /\ \A k \in DOMAIN relocs : k # a /\ k # b => Swapped(a, b)[k] = relocs[k]
  BY <1>1 DEF Swapped
<1>3. \A k \in DOMAIN relocs : Swapped(a, b)[k] \in Reloc
  BY <1>1, <1>2
<1>4. Swapped(a, b) \in [1..Len(relocs) -> Reloc]
  BY <1>1, <1>2, <1>3 DEF Swapped
<1>5. Swapped(a, b) \in Seq(Reloc)
  BY <1>1, <1>4, SeqDef
<1>6. Len(Swapped(a, b)) = Len(relocs)
  BY <1>1, <1>2, <1>5, LenProperties
<1>7. Range(Swapped(a, b)) = Range(relocs)
  <2>1. ASSUME NEW r \in Range(relocs) PROVE r \in Range(Swapped(a, b))
    BY <1>2 DEF Range
  <2>2. ASSUME NEW r \in Range(Swapped(a, b)) PROVE r \in Range(relocs)
    BY <1>2 DEF Range
  <2> QED
    BY <2>1, <2>2
<1> QED
  BY <1>2, <1>5, <1>6, <1>7
-----------------------------------------------------------------------------
(* Copying and loading *)

USE DEF Early, Loading, Late

\* The invariant holds before the header is written.
LEMMA InitFixup == Init => FixupInv
<1> SUFFICES ASSUME Init PROVE FixupInv
  OBVIOUS
<1>1. /\ pc = "header" /\ image \in Images /\ pos = 0 /\ dataAt = 0
      /\ relocs = << >> /\ i = 1 /\ j = 2
      /\ lastOffset = 0 /\ deltaFix = 0 /\ status = TRUE /\ result = -1
      /\ loader = [addr |-> 0, relocated |-> {}, mode |-> "first"]
  BY DEF Init, table
<1>2. lost \subseteq Losses /\ lost = {} /\ status \in BOOLEAN
  BY Zenon DEF Init, Losses
<1>3. relocs \in Seq(Reloc) /\ DOMAIN relocs = {}
  BY <1>1, EmptySeq
<1>4. TypeOK
  BY <1>1, <1>2, <1>3 DEF TypeOK, Points
<1>5. Laid /\ Gathered /\ Sorted /\ Encoded /\ Reported
  BY <1>1, <1>2 DEF Laid, Gathered, Sorted, Encoded, Reported
<1>6. Distinct
  BY <1>3 DEF Distinct
<1> QED
  BY <1>1, <1>4, <1>5, <1>6 DEF FixupInv

\* Where main goes while it copies sections, neither relocations nor table change.
LEMMA EarlyKeeps ==
  ASSUME FixupInv, pc \in Early, TypeOK', Laid',
         UNCHANGED <<image, relocs, i, j, lastOffset, deltaFix, status, result, loader>>,
         pc' \in Early \cup {"relaText", "failed"},
         pc' = "failed" \/ lost' \subseteq lost \cup {"padding"}
  PROVE  FixupInv'
<1>1. relocs = << >> /\ i = 1 /\ j = 2 /\ status /\ lastOffset = 0
      /\ loader.mode = "first" /\ loader.relocated = {} /\ result # 0
      /\ "checked" \notin lost
  BY DEF FixupInv, Gathered, Sorted, Encoded, Reported
<1>2. image.relaText \in Seq(Reloc) /\ Len(image.relaText) \in Nat
  BY ImageTypes, LenProperties DEF FixupInv
<1>3. Range(relocs') = {} /\ DOMAIN relocs' = {}
  BY <1>1 DEF Range
<1>4. Gathered'
  <2>1. Taken(image.relaText, 0) = {}
    BY TakenNone
  <2>2. i' = 1 /\ i' - 1 = 0 /\ image' = image /\ relocs' = << >>
    BY <1>1
  <2>3. Taken(image.relaText, i' - 1) = {}
    BY <2>1, <2>2
  <2>4. pc' = "relaText" => i' \in 1..(Len(image'.relaText) + 1)
    BY <1>2, <2>2
  <2>5. pc' = "relaText" => Range(relocs') = Taken(image'.relaText, i' - 1)
    BY <1>3, <2>2, <2>3
  <2> QED
    BY <2>2, <2>4, <2>5 DEF Gathered
<1>5. Distinct'
  BY <1>3 DEF Distinct
<1>6. Sorted' /\ Reported'
  BY <1>1 DEF Sorted, Reported
<1>7. Encoded'
  <2>1. pc' = "failed" \/ "checked" \notin lost'
    BY <1>1
  <2> QED
    BY <1>1, <2>1 DEF Encoded
<1> QED
  BY <1>4, <1>5, <1>6, <1>7 DEF FixupInv

\* Writing leaves the position a number.
LEMMA OutputTypes ==
  ASSUME FixupInv, NEW from, NEW size \in Nat, NEW to \in Points, Output(from, size, to)
  PROVE  pos' \in Nat /\ lost' \subseteq Losses /\ pc' \in Points
<1>1. pos \in Nat /\ lost \subseteq Losses /\ "failed" \in Points
  BY DEF FixupInv, TypeOK, Points
<1>2. lost' \subseteq Losses
  <2>1. lost' = lost \/ lost' = lost \cup {"checked"}
    BY Zenon DEF Output
  <2> QED
    BY <1>1, <2>1 DEF Losses
<1> QED
  BY <1>1, <1>2 DEF Output

\* Filling up to an address leaves the position a number.
LEMMA AlignTypes ==
  ASSUME FixupInv, NEW from, NEW address \in Nat, NEW to \in Points, Align(from, address, to)
  PROVE  pos' \in Nat /\ lost' \subseteq Losses /\ pc' \in Points
<1>1. pos \in Nat /\ lost \subseteq Losses /\ "failed" \in Points
  BY DEF FixupInv, TypeOK, Points
<1>2. lost' \subseteq Losses
  <2>1. lost' = lost \/ lost' = lost \cup {"padding"}
    BY Zenon DEF Align
  <2> QED
    BY <1>1, <2>1 DEF Losses
<1> QED
  BY <1>1, <1>2, SizesAssumption DEF Align

\* The sections and the padding between them.
LEMMA SectionsKeep ==
  ASSUME FixupInv, OutputHeader \/ OutputText \/ AlignData \/ OutputData \/ AlignBss
  PROVE  FixupInv'
<1>0. /\ TypeOK /\ Laid /\ HeaderSize \in Nat
      /\ image.text \in Nat /\ image.data \in Nat
      /\ image.dataAddr \in Nat /\ image.bssAddr \in Nat
  BY ImageTypes, SizesAssumption DEF FixupInv
<1>1. CASE OutputHeader
  <2>1. /\ pc = "header" /\ pc' \in {"text", "failed"}
        /\ UNCHANGED <<image, dataAt, relocs, i, j, lastOffset, deltaFix, status, result, loader>>
        /\ pc' = "failed" \/ lost' = lost \/ lost' = lost \cup {"padding"}
    BY <1>1 DEF OutputHeader, Output, table
  <2>2. pos' \in Nat /\ lost' \subseteq Losses /\ pc' \in Points
    BY <1>0, <1>1, OutputTypes DEF OutputHeader, Points
  <2>3. TypeOK'
    BY <1>0, <2>1, <2>2 DEF TypeOK
  <2>4. Laid'
    BY <2>1 DEF Laid
  <2> QED
    BY <2>1, <2>3, <2>4, EarlyKeeps
<1>2. CASE OutputText
  <2>1. /\ pc = "text" /\ pc' \in {"alignData", "failed"}
        /\ UNCHANGED <<image, dataAt, relocs, i, j, lastOffset, deltaFix, status, result, loader>>
        /\ pc' = "failed" \/ lost' = lost \/ lost' = lost \cup {"padding"}
    BY <1>2 DEF OutputText, Output, table
  <2>2. pos' \in Nat /\ lost' \subseteq Losses /\ pc' \in Points
    BY <1>0, <1>2, OutputTypes DEF OutputText, Points
  <2>3. TypeOK'
    BY <1>0, <2>1, <2>2 DEF TypeOK
  <2>4. Laid'
    BY <2>1 DEF Laid
  <2> QED
    BY <2>1, <2>3, <2>4, EarlyKeeps
<1>3. CASE AlignData
  <2>1. /\ pc = "alignData" /\ pc' \in {"data", "failed"}
        /\ UNCHANGED <<image, dataAt, relocs, i, j, lastOffset, deltaFix, status, result, loader>>
        /\ pc' = "failed" \/ lost' = lost \/ lost' = lost \cup {"padding"}
    BY <1>3 DEF AlignData, Align, table
  <2>2. pos' \in Nat /\ lost' \subseteq Losses /\ pc' \in Points
    BY <1>0, <1>3, AlignTypes DEF AlignData, Points
  <2>3. TypeOK'
    BY <1>0, <2>1, <2>2 DEF TypeOK
  <2>4. pc' = "data" => "padding" \in lost' \/ pos' = HeaderSize + image.dataAddr
    BY <1>3 DEF AlignData, Align
  <2>5. Laid'
    BY <2>1, <2>4 DEF Laid
  <2> QED
    BY <2>1, <2>3, <2>5, EarlyKeeps
<1>4. CASE OutputData
  <2>1. /\ pc = "data" /\ pc' \in {"alignBss", "failed"} /\ dataAt' = pos
        /\ UNCHANGED <<image, relocs, i, j, lastOffset, deltaFix, status, result, loader>>
        /\ pc' = "failed" \/ lost' = lost \/ lost' = lost \cup {"padding"}
    BY <1>4 DEF OutputData, Output, table
  <2>2. pos' \in Nat /\ lost' \subseteq Losses /\ pc' \in Points
    BY <1>0, <1>4, OutputTypes DEF OutputData, Points
  <2>3. TypeOK'
    BY <1>0, <2>1, <2>2 DEF TypeOK
  <2>4. pc' = "alignBss" => "padding" \in lost' \/ dataAt' = HeaderSize + image.dataAddr
    <3>1. "padding" \in lost \/ pos = HeaderSize + image.dataAddr
      BY <1>0, <2>1 DEF Laid
    <3>2. "padding" \in lost => "padding" \in lost'
      BY <1>4 DEF OutputData, Output
    <3> QED
      BY <2>1, <3>1, <3>2
  <2>5. Laid'
    BY <2>1, <2>4 DEF Laid
  <2> QED
    BY <2>1, <2>3, <2>5, EarlyKeeps
<1>5. CASE AlignBss
  <2>1. /\ pc = "alignBss" /\ pc' \in {"relaText", "failed"}
        /\ UNCHANGED <<image, dataAt, relocs, i, j, lastOffset, deltaFix, status, result, loader>>
        /\ pc' = "failed" \/ lost' = lost \/ lost' = lost \cup {"padding"}
    BY <1>5 DEF AlignBss, Align, table
  <2>2. pos' \in Nat /\ lost' \subseteq Losses /\ pc' \in Points
    BY <1>0, <1>5, AlignTypes DEF AlignBss, Points
  <2>3. TypeOK'
    BY <1>0, <2>1, <2>2 DEF TypeOK
  <2>4. pc' = "relaText" => "padding" \in lost' \/ pos' = HeaderSize + image.bssAddr
    BY <1>5 DEF AlignBss, Align
  <2>5. "padding" \in lost \/ dataAt = HeaderSize + image.dataAddr
    BY <1>0, <2>1 DEF Laid
  <2>6. "padding" \in lost => "padding" \in lost'
    BY <1>5 DEF AlignBss, Align
  <2>7. Laid'
    BY <2>1, <2>4, <2>5, <2>6 DEF Laid
  <2> QED
    BY <2>1, <2>3, <2>7, EarlyKeeps
<1> QED
  BY <1>1, <1>2, <1>3, <1>4, <1>5

\* A relocation that is appended does not double one that is there.
LEMMA AppendKeepsDistinct ==
  ASSUME relocs \in Seq(Reloc), Distinct, NEW e \in Reloc, relocs' = Append(relocs, e),
         \A r \in Range(relocs) : Needed(e) /\ r.kind = "abs" => r.offset # e.offset,
         ~e.weak
  PROVE  Distinct'
<1>1. /\ DOMAIN relocs' = 1..(Len(relocs) + 1) /\ DOMAIN relocs = 1..Len(relocs)
      /\ \A k \in DOMAIN relocs : relocs'[k] = relocs[k]
      /\ relocs'[Len(relocs) + 1] = e /\ Len(relocs) \in Nat
  BY AppendOne
<1> SUFFICES ASSUME NEW a \in DOMAIN relocs', NEW b \in DOMAIN relocs',
                    relocs'[a].kind = "abs", relocs'[b].kind = "abs",
                    relocs'[a].offset = relocs'[b].offset
             PROVE  a = b
  BY DEF Distinct, Abs
<1>2. CASE a \in DOMAIN relocs /\ b \in DOMAIN relocs
  BY <1>1, <1>2 DEF Distinct, Abs
<1>3. CASE a = Len(relocs) + 1 /\ b = Len(relocs) + 1
  BY <1>3
<1>4. CASE a = Len(relocs) + 1 /\ b \in DOMAIN relocs
  BY <1>1, <1>4 DEF Range, Needed
<1>5. CASE a \in DOMAIN relocs /\ b = Len(relocs) + 1
  BY <1>1, <1>5 DEF Range, Needed
<1>6. \A k \in DOMAIN relocs' : k \in DOMAIN relocs \/ k = Len(relocs) + 1
  BY <1>1
<1> QED
  BY <1>2, <1>3, <1>4, <1>5, <1>6

\* While relocations are loaded nothing else changes.
LEMMA LoadingKeeps ==
  ASSUME FixupInv, pc \in Loading, pc' \in Loading \cup {"sort"}, pc' = "sort" => i' = 1,
         UNCHANGED <<image, pos, dataAt, lost, j, lastOffset, deltaFix, status, result, loader>>,
         relocs' \in Seq(Reloc), i' \in Nat, Gathered', Distinct'
  PROVE  FixupInv'
<1>1. TypeOK'
  BY DEF FixupInv, TypeOK, Points
<1>2. Laid'
  BY DEF FixupInv, Laid
<1>3. Sorted'
  <2>1. j' = 2
    BY DEF FixupInv, Sorted
  <2>2. \A a \in DOMAIN relocs' : a \in Nat \ {0}
    BY LenProperties
  <2> QED
    BY <2>1, <2>2 DEF Sorted
<1>4. Encoded'
  BY DEF FixupInv, Encoded
<1>5. Reported'
  BY DEF FixupInv, Reported
<1> QED
  BY <1>1, <1>2, <1>3, <1>4, <1>5 DEF FixupInv

\* One relocation of a section that has been loaded up to there, behind others.
LEMMA LoadOne ==
  ASSUME FixupInv, NEW rela \in Seq(Reloc), NEW others, i \in 1..(Len(rela) + 1),
         Range(relocs) = others \cup Taken(rela, i - 1), LoadReloc(rela),
         \A a, b \in DOMAIN rela :
           Needed(rela[a]) /\ Needed(rela[b]) /\ rela[a].offset = rela[b].offset => a = b,
         \A r \in others : r.kind = "abs" =>
           \A b \in DOMAIN rela : Needed(rela[b]) => r.offset # rela[b].offset
  PROVE  /\ relocs' \in Seq(Reloc) /\ i' \in 1..(Len(rela) + 1) /\ Distinct'
         /\ Range(relocs') = others \cup Taken(rela, i' - 1)
<1>0. /\ Len(rela) \in Nat /\ DOMAIN rela = 1..Len(rela)
      /\ i \in DOMAIN rela /\ rela[i] \in Reloc /\ i - 1 \in Nat /\ i - 1 < Len(rela)
      /\ (i - 1) + 1 = i
      /\ i' = i + 1 /\ relocs' = IF rela[i].weak THEN relocs ELSE Append(relocs, rela[i])
      /\ relocs \in Seq(Reloc) /\ Distinct
  BY LenProperties, ElementOfSeq DEF LoadReloc, FixupInv, TypeOK
<1>1. i' \in 1..(Len(rela) + 1) /\ i' - 1 = i
  BY <1>0
<1>2. Taken(rela, i) = Taken(rela, i - 1) \cup (IF rela[i].weak THEN {} ELSE {rela[i]})
  <2> DEFINE n == i - 1
  <2>1. n \in Nat /\ n < Len(rela) /\ n + 1 = i
    BY <1>0
  <2> HIDE DEF n
  <2>2. Taken(rela, n + 1) = Taken(rela, n) \cup (IF rela[n + 1].weak THEN {} ELSE {rela[n + 1]})
    BY <2>1, TakenMore
  <2> QED
    BY <2>1, <2>2 DEF n
<1>3. CASE rela[i].weak
  <2>1. relocs' = relocs
    BY <1>0, <1>3
  <2>2. Distinct'
    BY <1>0, <2>1 DEF Distinct, Abs
  <2> QED
    BY <1>0, <1>1, <1>2, <1>3, <2>1, <2>2
<1>4. CASE ~rela[i].weak
  <2>1. relocs' = Append(relocs, rela[i])
    BY <1>0, <1>4
  <2>2. relocs' \in Seq(Reloc) /\ Range(relocs') = Range(relocs) \cup {rela[i]}
    BY <1>0, <2>1, AppendOne
  <2>3. ASSUME NEW r \in Range(relocs), Needed(rela[i]), r.kind = "abs"
        PROVE  r.offset # rela[i].offset
    <3>1. CASE r \in others
      BY <1>0, <2>3, <3>1
    <3>2. CASE r \in Taken(rela, i - 1)
      <4>1. PICK k \in 1..(i - 1) : ~rela[k].weak /\ r = rela[k]
        BY <3>2 DEF Taken
      <4>2. k \in DOMAIN rela /\ k # i /\ Needed(rela[k])
        BY <1>0, <2>3, <4>1 DEF Needed
      <4> QED
        BY <1>0, <2>3, <4>1, <4>2
    <3> QED
      BY <3>1, <3>2
  <2>4. Distinct'
    BY <1>0, <1>4, <2>1, <2>3, AppendKeepsDistinct
  <2> QED
    BY <1>1, <1>2, <1>4, <2>2, <2>4
<1> QED
  BY <1>3, <1>4

\* Reading an entry of a relocation section preserves the invariant.
LEMMA LoadKeeps == ASSUME FixupInv, LoadRelaText \/ LoadRelaData PROVE FixupInv'
<1> DEFINE t == image.relaText
           d == image.relaData
<1>0. /\ t \in Seq(Reloc) /\ d \in Seq(Reloc) /\ Len(t) \in Nat /\ Len(d) \in Nat
      /\ DOMAIN t = 1..Len(t) /\ DOMAIN d = 1..Len(d)
      /\ relocs \in Seq(Reloc) /\ Distinct /\ Gathered /\ image \in Images
  BY ImageTypes, LenProperties DEF FixupInv, TypeOK
<1>1. /\ \A a, b \in DOMAIN t : Needed(t[a]) /\ Needed(t[b]) /\ t[a].offset = t[b].offset => a = b
      /\ \A a, b \in DOMAIN d : Needed(d[a]) /\ Needed(d[b]) /\ d[a].offset = d[b].offset => a = b
      /\ \A a \in DOMAIN t, b \in DOMAIN d :
           Needed(t[a]) /\ Needed(d[b]) => t[a].offset # d[b].offset
  BY <1>0, ImageDistinct
<1> HIDE DEF t, d
<1>2. CASE LoadRelaText
  <2>1. pc = "relaText" /\ i \in 1..(Len(t) + 1) /\ Range(relocs) = Taken(t, i - 1)
    BY <1>0, <1>2 DEF LoadRelaText, Gathered, t
  <2>2. CASE LoadReloc(t)
    <3>1. /\ relocs' \in Seq(Reloc) /\ i' \in 1..(Len(t) + 1) /\ Distinct'
          /\ Range(relocs') = {} \cup Taken(t, i' - 1)
      <4>1. Range(relocs) = {} \cup Taken(t, i - 1)
        BY <2>1
      <4> QED
        BY <1>0, <1>1, <2>1, <2>2, <4>1, LoadOne
    <3>2. UNCHANGED <<pc, image, pos, dataAt, lost, j, lastOffset, deltaFix, status, result, loader>>
      BY <2>2 DEF LoadReloc
    <3>3. Gathered'
      BY <2>1, <3>1, <3>2 DEF Gathered, t
    <3> QED
      BY <1>0, <2>1, <3>1, <3>2, <3>3, LoadingKeeps
  <2>3. CASE LoadEnds(t, "relaData")
    <3>1. /\ pc' = "relaData" /\ i' = 1 /\ i > Len(t)
          /\ UNCHANGED <<image, pos, dataAt, lost, relocs, j, lastOffset, deltaFix, status, result, loader>>
      BY <2>3 DEF LoadEnds
    <3>2. i - 1 = Len(t) /\ i' - 1 = 0 /\ 1 \in 1..(Len(d) + 1)
      BY <1>0, <2>1, <3>1
    <3>3. Range(relocs') = Taken(t, Len(t)) \cup Taken(d, i' - 1)
      BY <2>1, <3>1, <3>2, TakenNone
    <3>4. Gathered'
      BY <3>1, <3>2, <3>3 DEF Gathered, t, d
    <3>5. Distinct'
      BY <1>0, <3>1 DEF Distinct, Abs
    <3> QED
      BY <1>0, <2>1, <3>1, <3>4, <3>5, LoadingKeeps
  <2> QED
    BY <1>2, <2>2, <2>3 DEF LoadRelaText, t
<1>3. CASE LoadRelaData
  <2>1. /\ pc = "relaData" /\ i \in 1..(Len(d) + 1)
        /\ Range(relocs) = Taken(t, Len(t)) \cup Taken(d, i - 1)
    BY <1>0, <1>3 DEF LoadRelaData, Gathered, t, d
  <2>2. CASE LoadReloc(d)
    <3>1. ASSUME NEW r \in Taken(t, Len(t)), r.kind = "abs", NEW b \in DOMAIN d, Needed(d[b])
          PROVE  r.offset # d[b].offset
      <4>1. PICK k \in 1..Len(t) : ~t[k].weak /\ r = t[k]
        BY <3>1 DEF Taken
      <4>2. Needed(t[k])
        BY <3>1, <4>1 DEF Needed
      <4> QED
        BY <1>0, <1>1, <3>1, <4>1, <4>2
    <3>2. /\ relocs' \in Seq(Reloc) /\ i' \in 1..(Len(d) + 1) /\ Distinct'
          /\ Range(relocs') = Taken(t, Len(t)) \cup Taken(d, i' - 1)
      BY <1>0, <1>1, <2>1, <2>2, <3>1, LoadOne
    <3>3. UNCHANGED <<pc, image, pos, dataAt, lost, j, lastOffset, deltaFix, status, result, loader>>
      BY <2>2 DEF LoadReloc
    <3>4. Gathered'
      BY <2>1, <3>2, <3>3 DEF Gathered, t, d
    <3> QED
      BY <1>0, <2>1, <3>2, <3>3, <3>4, LoadingKeeps
  <2>3. CASE LoadEnds(d, "sort")
    <3>1. /\ pc' = "sort" /\ i' = 1 /\ i > Len(d)
          /\ UNCHANGED <<image, pos, dataAt, lost, relocs, j, lastOffset, deltaFix, status, result, loader>>
      BY <2>3 DEF LoadEnds
    <3>2. i - 1 = Len(d)
      BY <1>0, <2>1, <3>1
    <3>3. Range(relocs) = Loaded
      <4>1. Taken(t, Len(t)) \cup Taken(d, Len(d)) = Loaded
        BY <1>0, TakenAll DEF t, d
      <4> QED
        BY <2>1, <3>2, <4>1
    <3>4. Loaded' = Loaded
      BY <3>1 DEF Loaded
    <3>5. Gathered'
      BY <3>1, <3>3, <3>4 DEF Gathered
    <3>6. Distinct'
      BY <1>0, <3>1 DEF Distinct, Abs
    <3> QED
      BY <1>0, <2>1, <3>1, <3>5, <3>6, LoadingKeeps
  <2> QED
    BY <1>3, <2>2, <2>3 DEF LoadRelaData, d
<1> QED
  BY <1>2, <1>3

-----------------------------------------------------------------------------
(* Sorting *)

\* Offsets can be compared.
LEMMA OffsetTypes ==
  ASSUME TypeOK
  PROVE  /\ Len(relocs) \in Nat /\ DOMAIN relocs = 1..Len(relocs)
         /\ \A k \in DOMAIN relocs : relocs[k] \in Reloc /\ relocs[k].offset \in Nat
<1>1. relocs \in Seq(Reloc)
  BY DEF TypeOK
<1>2. \A k \in 1..Len(relocs) : relocs[k] \in Reloc
  BY <1>1, ElementOfSeq
<1> QED
  BY <1>1, <1>2, LenProperties DEF Reloc

\* Relocations that change places stay distinct.
LEMMA SwapKeepsDistinct ==
  ASSUME relocs \in Seq(Reloc), Distinct,
         NEW a \in DOMAIN relocs, NEW b \in DOMAIN relocs, a # b, relocs' = Swapped(a, b)
  PROVE  Distinct'
<1> DEFINE Back(k) == IF k = a THEN b ELSE IF k = b THEN a ELSE k
<1>1. DOMAIN relocs' = DOMAIN relocs
  BY SwapTwo
<1>2. \A k \in DOMAIN relocs : Back(k) \in DOMAIN relocs /\ relocs'[k] = relocs[Back(k)]
  BY SwapTwo
<1>3. \A k, m \in DOMAIN relocs : Back(k) = Back(m) => k = m
  OBVIOUS
<1> HIDE DEF Back
<1> QED
  BY <1>1, <1>2, <1>3 DEF Distinct, Abs

\* Comparing and swapping two entries preserves the invariant.
LEMMA SortInnerKeeps == ASSUME FixupInv, SortInner PROVE FixupInv'
<1>0. /\ TypeOK /\ Laid /\ Gathered /\ Distinct /\ Sorted /\ Encoded /\ Reported
      /\ relocs \in Seq(Reloc) /\ image \in Images
  BY DEF FixupInv, TypeOK
<1>1. /\ pc = "sort" /\ i < Len(relocs) /\ j <= Len(relocs) /\ j' = j + 1
      /\ relocs' = IF relocs[i].offset > relocs[j].offset THEN Swapped(i, j) ELSE relocs
      /\ UNCHANGED <<pc, image, pos, dataAt, lost, i, lastOffset, deltaFix, status, result, loader>>
  BY DEF SortInner
<1>2. /\ i \in Nat \ {0} /\ j \in Nat /\ j > i
      /\ \A a, b \in DOMAIN relocs :
           a < b /\ (a < i \/ (a = i /\ b < j)) => relocs[a].offset <= relocs[b].offset
  BY <1>0, <1>1 DEF Sorted, TypeOK
<1>3. /\ Len(relocs) \in Nat /\ DOMAIN relocs = 1..Len(relocs)
      /\ \A k \in DOMAIN relocs : relocs[k].offset \in Nat
      /\ i \in DOMAIN relocs /\ j \in DOMAIN relocs /\ i # j
  BY <1>0, <1>1, <1>2, OffsetTypes
<1>4. CASE relocs[i].offset > relocs[j].offset
  <2>1. relocs' = Swapped(i, j)
    BY <1>1, <1>4
  <2>2. /\ relocs' \in Seq(Reloc) /\ DOMAIN relocs' = DOMAIN relocs
        /\ relocs'[i] = relocs[j] /\ relocs'[j] = relocs[i]
        /\ \A k \in DOMAIN relocs : k # i /\ k # j => relocs'[k] = relocs[k]
        /\ Range(relocs') = Range(relocs)
    BY <1>0, <1>3, <2>1, SwapTwo
  <2>3. Distinct'
    BY <1>0, <1>3, <2>1, SwapKeepsDistinct
  <2>4. ASSUME NEW a \in DOMAIN relocs, NEW b \in DOMAIN relocs,
               a < b, a < i \/ (a = i /\ b < j + 1)
        PROVE  relocs'[a].offset <= relocs'[b].offset
    <3>1. CASE a < i
      <4>1. relocs'[a] = relocs[a] /\ a < j
        BY <1>2, <1>3, <2>2, <3>1
      <4>2. relocs[a].offset <= relocs[b].offset /\ relocs[a].offset <= relocs[i].offset
            /\ relocs[a].offset <= relocs[j].offset
        BY <1>2, <1>3, <2>4, <3>1, <4>1
      <4>3. relocs'[b] \in {relocs[b], relocs[i], relocs[j]}
        BY <2>2
      <4> QED
        BY <4>1, <4>2, <4>3
    <3>2. CASE a = i /\ b < j
      <4>1. relocs'[a] = relocs[j] /\ relocs'[b] = relocs[b]
        BY <1>2, <1>3, <2>2, <2>4, <3>2
      <4>2. relocs[i].offset <= relocs[b].offset
        BY <1>2, <1>3, <2>4, <3>2
      <4> QED
        BY <1>3, <1>4, <4>1, <4>2
    <3>3. CASE a = i /\ b = j
      BY <1>3, <1>4, <2>2, <3>3
    <3> QED
      BY <1>2, <1>3, <2>4, <3>1, <3>2, <3>3
  <2>5. TypeOK'
    BY <1>0, <1>1, <1>2, <2>2 DEF TypeOK
  <2>6. Sorted'
    BY <1>1, <1>2, <2>2, <2>4 DEF Sorted
  <2>7. Loaded' = Loaded
    BY <1>1 DEF Loaded
  <2>8. Gathered'
    BY <1>0, <1>1, <2>2, <2>7 DEF Gathered
  <2>9. Laid' /\ Encoded' /\ Reported'
    BY <1>0, <1>1 DEF Laid, Encoded, Reported
  <2> QED
    BY <1>0, <1>1, <2>3, <2>5, <2>6, <2>8, <2>9 DEF FixupInv
<1>5. CASE ~(relocs[i].offset > relocs[j].offset)
  <2>1. relocs' = relocs
    BY <1>1, <1>5
  <2>2. TypeOK'
    BY <1>0, <1>1, <1>2, <2>1 DEF TypeOK
  <2>3. ASSUME NEW a \in DOMAIN relocs, NEW b \in DOMAIN relocs,
               a < b, a < i \/ (a = i /\ b < j + 1)
        PROVE  relocs[a].offset <= relocs[b].offset
    <3>1. CASE a = i /\ b = j
      BY <1>3, <1>5, <3>1
    <3>2. CASE a < i \/ (a = i /\ b < j)
      BY <1>2, <2>3, <3>2
    <3> QED
      BY <1>2, <1>3, <2>3, <3>1, <3>2
  <2>4. Sorted'
    BY <1>1, <1>2, <2>1, <2>3 DEF Sorted
  <2>5. Loaded' = Loaded
    BY <1>1 DEF Loaded
  <2>6. Gathered' /\ Distinct'
    BY <1>0, <1>1, <2>1, <2>5 DEF Gathered, Distinct, Abs
  <2>7. Laid' /\ Encoded' /\ Reported'
    BY <1>0, <1>1 DEF Laid, Encoded, Reported
  <2> QED
    BY <1>0, <1>1, <2>2, <2>4, <2>6, <2>7 DEF FixupInv
<1> QED
  BY <1>4, <1>5

\* Going on to the next place of the selection sort preserves the invariant.
LEMMA SortOuterKeeps == ASSUME FixupInv, SortOuter PROVE FixupInv'
<1>0. TypeOK /\ Laid /\ Gathered /\ Distinct /\ Sorted /\ Encoded /\ Reported /\ image \in Images
  BY DEF FixupInv
<1>1. /\ pc = "sort" /\ i < Len(relocs) /\ j > Len(relocs) /\ i' = i + 1 /\ j' = i + 2
      /\ UNCHANGED <<pc, image, pos, dataAt, lost, relocs, lastOffset, deltaFix, status, result, loader>>
  BY DEF SortOuter
<1>2. /\ i \in Nat \ {0} /\ j \in Nat
      /\ \A a, b \in DOMAIN relocs :
           a < b /\ (a < i \/ (a = i /\ b < j)) => relocs[a].offset <= relocs[b].offset
  BY <1>0, <1>1 DEF Sorted, TypeOK
<1>3. Len(relocs) \in Nat /\ DOMAIN relocs = 1..Len(relocs)
  BY <1>0, OffsetTypes
<1>4. ASSUME NEW a \in DOMAIN relocs, NEW b \in DOMAIN relocs,
             a < b, a < i + 1 \/ (a = i + 1 /\ b < i + 2)
      PROVE  relocs[a].offset <= relocs[b].offset
  BY <1>1, <1>2, <1>3, <1>4
<1>5. Sorted'
  BY <1>1, <1>2, <1>4 DEF Sorted
<1>6. TypeOK'
  BY <1>0, <1>1, <1>2 DEF TypeOK
<1>7. Loaded' = Loaded
  BY <1>1 DEF Loaded
<1>8. Laid' /\ Gathered' /\ Distinct' /\ Encoded' /\ Reported'
  BY <1>0, <1>1, <1>7 DEF Laid, Gathered, Distinct, Abs, Encoded, Reported
<1> QED
  BY <1>0, <1>1, <1>5, <1>6, <1>8 DEF FixupInv

\* Behind the loops everything is in order, and the table is begun.
LEMMA SortEndsKeeps == ASSUME FixupInv, SortEnds PROVE FixupInv'
<1>0. TypeOK /\ Laid /\ Gathered /\ Distinct /\ Sorted /\ Encoded /\ Reported /\ image \in Images
  BY DEF FixupInv
<1>1. /\ pc = "sort" /\ i >= Len(relocs) /\ i' = 1 /\ pc' = "fixup"
      /\ UNCHANGED <<image, pos, dataAt, lost, relocs, j, lastOffset, deltaFix, status, result, loader>>
  BY DEF SortEnds
<1>2. /\ i \in Nat
      /\ \A a, b \in DOMAIN relocs :
           a < b /\ (a < i \/ (a = i /\ b < j)) => relocs[a].offset <= relocs[b].offset
  BY <1>0, <1>1 DEF Sorted, TypeOK
<1>3. Len(relocs) \in Nat /\ DOMAIN relocs = 1..Len(relocs)
  BY <1>0, OffsetTypes
<1>4. ASSUME NEW a \in DOMAIN relocs, NEW b \in DOMAIN relocs, a < b
      PROVE  relocs[a].offset <= relocs[b].offset
  BY <1>1, <1>2, <1>3, <1>4
<1>5. Sorted'
  BY <1>1, <1>4 DEF Sorted
<1>6. TypeOK'
  BY <1>0, <1>1 DEF TypeOK, Points
<1>7. Loaded' = Loaded
  BY <1>1 DEF Loaded
<1>8. Laid' /\ Gathered' /\ Distinct' /\ Reported'
  BY <1>0, <1>1, <1>7 DEF Laid, Gathered, Distinct, Abs, Reported
<1>9. Encoded'
  <2>1. /\ status /\ "checked" \notin lost
        /\ lastOffset = 0 /\ loader.mode = "first" /\ loader.relocated = {}
    BY <1>0, <1>1 DEF Encoded
  <2>2. 1..(i' - 1) = {}
    BY <1>1
  <2>3. Written'
    BY <1>1, <2>1, <2>2 DEF Written
  <2> QED
    BY <1>1, <1>3, <2>1, <2>3 DEF Encoded
<1> QED
  BY <1>0, <1>1, <1>5, <1>6, <1>8, <1>9 DEF FixupInv

-----------------------------------------------------------------------------
(* The table *)

Loaders == [addr : Nat, relocated : SUBSET Nat, mode : {"first", "more", "ended"}]

\* What the loader makes of a long word and of a byte.
LEMMA LoaderReads ==
  ASSUME NEW l \in Loaders, NEW v \in Nat
  PROVE  /\ LoadLong(l, v) \in Loaders /\ LoadByte(l, v) \in Loaders
         /\ v = 0 => LoadLong(l, v) = [l EXCEPT !.mode = "ended"]
         /\ v # 0 => LoadLong(l, v) = [addr |-> v, relocated |-> {v}, mode |-> "more"]
         /\ l.mode = "more" =>
              LoadByte(l, v) =
                IF v = 0 THEN [l EXCEPT !.mode = "ended"]
                ELSE IF v = 1 THEN [l EXCEPT !.addr = @ + MaxFix]
                ELSE [l EXCEPT !.addr = @ + v, !.relocated = @ \cup {l.addr + v}]
<1>1. LoadLong(l, v) \in Loaders
  BY DEF LoadLong, Loaders
<1>2. l.mode = "more" =>
        LoadByte(l, v) =
          IF v = 0 THEN [l EXCEPT !.mode = "ended"]
          ELSE IF v = 1 THEN [l EXCEPT !.addr = @ + MaxFix]
          ELSE [l EXCEPT !.addr = @ + v, !.relocated = @ \cup {l.addr + v}]
  BY DEF LoadByte
<1>3. l.mode # "more" => LoadByte(l, v) = l
  BY DEF LoadByte
<1>4. LoadByte(l, v) \in Loaders
  <2>1. [l EXCEPT !.mode = "ended"] \in Loaders
    BY DEF Loaders
  <2>2. [l EXCEPT !.addr = @ + MaxFix] \in Loaders
    BY SizesAssumption DEF Loaders
  <2>3. l.addr + v \in Nat
    BY DEF Loaders
  <2>4. [l EXCEPT !.addr = @ + v, !.relocated = @ \cup {l.addr + v}] \in Loaders
    BY <2>3 DEF Loaders
  <2>5. CASE l.mode = "more"
    BY <1>2, <2>1, <2>2, <2>4, <2>5, Zenon
  <2>6. CASE l.mode # "more"
    BY <1>3, <2>6, Zenon
  <2> QED
    BY <2>5, <2>6
<1>5. /\ v = 0 => LoadLong(l, v) = [l EXCEPT !.mode = "ended"]
      /\ v # 0 => LoadLong(l, v) = [addr |-> v, relocated |-> {v}, mode |-> "more"]
  BY DEF LoadLong
<1> QED
  BY <1>1, <1>2, <1>4, <1>5

\* A write that fails is remembered, and leaves the status false.
LEMMA EmitTypes ==
  ASSUME TypeOK, NEW loaded \in Loaders, Emit(loaded)
  PROVE  loader' \in Loaders /\ lost' \subseteq Losses /\ status' \in BOOLEAN /\ lost \subseteq lost'
<1>1. loader \in Loaders /\ lost \subseteq Losses
  BY DEF TypeOK, Loaders
<1>2. status \in BOOLEAN
  BY DEF TypeOK
<1>3. loader' \in Loaders
  <2>1. loader' = loaded \/ loader' = loader
    BY Zenon DEF Emit
  <2> QED
    BY <1>1, <2>1
<1>4. lost' = lost \/ lost' = lost \cup {"checked"}
  BY Zenon DEF Emit
<1>5. lost' \subseteq Losses /\ lost \subseteq lost'
  BY <1>1, <1>4 DEF Losses
<1>6. status' \in BOOLEAN
  BY <1>2, Zenon DEF Emit
<1> QED
  BY <1>3, <1>5, <1>6

\* A write that leaves the status true has been read by the loader.
LEMMA EmitSucceeds ==
  ASSUME TypeOK, NEW loaded, Emit(loaded), status'
  PROVE  status /\ lost' = lost /\ loader' = loaded
<1>1. loader' = (IF status THEN loaded ELSE loader) /\ lost' = lost /\ status' = status
  BY Zenon DEF Emit
<1>2. status
  BY <1>1
<1> QED
  BY <1>1, <1>2

\* Long words to relocate are at even addresses behind 0.
LEMMA AbsOffsets ==
  ASSUME FixupInv, pc \in Late, NEW k \in DOMAIN relocs, Abs(k)
  PROVE  relocs[k].offset \in Nat /\ relocs[k].offset > 0 /\ relocs[k].offset % 2 = 0
<1>1. relocs[k] \in Loaded /\ relocs[k].offset \in Nat
  BY OffsetTypes DEF FixupInv, Gathered, Range
<1>2. Needed(relocs[k]) /\ relocs[k] \in Range(image.relaText) \cup Range(image.relaData)
  BY <1>1 DEF Loaded, Needed, Abs
<1> QED
  BY <1>1, <1>2, ImageDistinct DEF FixupInv

\* One relocation more has been gone past.
LEMMA OffsetsMore ==
  ASSUME NEW n \in Nat \ {0}
  PROVE  {relocs[k].offset : k \in {m \in 1..n : Abs(m)}}
           = {relocs[k].offset : k \in {m \in 1..(n - 1) : Abs(m)}}
             \cup (IF Abs(n) THEN {relocs[n].offset} ELSE {})
<1>1. 1..n = 1..(n - 1) \cup {n}
  OBVIOUS
<1> QED
  BY <1>1

\* While the table is written nothing else changes.
LEMMA TableKeeps ==
  ASSUME FixupInv, pc \in {"fixup", "chain"}, pc' \in {"fixup", "chain"},
         UNCHANGED <<image, pos, dataAt, relocs, j, result>>,
         i' \in Nat, lastOffset' \in Nat, deltaFix' \in Nat, loader' \in Loaders,
         lost' \subseteq Losses, status' \in BOOLEAN, lost \subseteq lost', Encoded'
  PROVE  FixupInv'
<1>1. TypeOK /\ Laid /\ Gathered /\ Distinct /\ Sorted /\ Reported /\ image \in Images
  BY DEF FixupInv
<1>2. TypeOK'
  BY <1>1 DEF TypeOK, Points, Loaders
<1>3. Laid'
  BY <1>1 DEF Laid
<1>4. Loaded' = Loaded
  BY DEF Loaded
<1>5. Gathered' /\ Distinct' /\ Sorted'
  BY <1>1, <1>4 DEF Gathered, Distinct, Abs, Sorted
<1>6. Reported'
  BY <1>1 DEF Reported
<1> QED
  BY <1>1, <1>2, <1>3, <1>5, <1>6 DEF FixupInv

\* What the invariant says at the next relocation.
LEMMA AtRelocFacts ==
  ASSUME FixupInv, NEW kind, AtReloc(kind)
  PROVE  /\ pc = "fixup" /\ status /\ relocs[i].kind = kind
         /\ i \in DOMAIN relocs /\ i \in Nat \ {0} /\ i + 1 \in 1..(Len(relocs) + 1)
         /\ Written /\ (lastOffset # 0 => loader.addr = lastOffset)
         /\ loader \in Loaders /\ lastOffset \in Nat /\ deltaFix \in Nat /\ TypeOK
<1>1. TypeOK /\ Encoded
  BY DEF FixupInv
<1>2. Len(relocs) \in Nat /\ DOMAIN relocs = 1..Len(relocs)
  BY <1>1, OffsetTypes
<1>3. pc = "fixup" /\ status /\ relocs[i].kind = kind /\ i <= Len(relocs)
  BY DEF AtReloc
<1>4. i \in 1..(Len(relocs) + 1) /\ Written /\ (lastOffset # 0 => loader.addr = lastOffset)
  BY <1>1, <1>3 DEF Encoded
<1>5. loader \in Loaders /\ lastOffset \in Nat /\ deltaFix \in Nat
  BY <1>1 DEF TypeOK, Loaders
<1> QED
  BY <1>1, <1>2, <1>3, <1>4, <1>5

\* The first long word of the table.
LEMMA FirstFixKeeps == ASSUME FixupInv, FirstFix PROVE FixupInv'
<1> DEFINE v == relocs[i].offset
<1>0. AtReloc("abs") /\ lastOffset = 0 /\ Emit(LoadLong(loader, v))
      /\ lastOffset' = v /\ i' = i + 1
      /\ UNCHANGED <<pc, image, pos, dataAt, relocs, j, deltaFix, result>>
  BY DEF FirstFix
<1>1. /\ pc = "fixup" /\ status /\ relocs[i].kind = "abs"
      /\ i \in DOMAIN relocs /\ i \in Nat \ {0} /\ i + 1 \in 1..(Len(relocs) + 1)
      /\ Written /\ loader \in Loaders /\ deltaFix \in Nat /\ TypeOK
  BY <1>0, AtRelocFacts
<1>2. v \in Nat /\ v > 0 /\ v # 0
  BY <1>1, AbsOffsets DEF Abs
<1> HIDE DEF v
<1>3. /\ LoadLong(loader, v) \in Loaders
      /\ LoadLong(loader, v) = [addr |-> v, relocated |-> {v}, mode |-> "more"]
  BY <1>1, <1>2, LoaderReads, Zenon
<1>4. loader' \in Loaders /\ lost' \subseteq Losses /\ status' \in BOOLEAN /\ lost \subseteq lost'
  BY <1>0, <1>1, <1>3, EmitTypes
<1>5. ASSUME status'
      PROVE  Written' /\ loader'.addr = lastOffset'
  <2>1. /\ loader'.addr = v /\ loader'.relocated = {v} /\ loader'.mode = "more"
        /\ "checked" \notin lost'
    <3>1. loader' = [addr |-> v, relocated |-> {v}, mode |-> "more"] /\ lost' = lost
      BY <1>0, <1>1, <1>3, <1>5, EmitSucceeds
    <3> QED
      BY <1>1, <3>1 DEF Written
  <2>2. i' - 1 = i
    BY <1>0, <1>1
  <2>3. {relocs[k].offset : k \in {m \in 1..(i - 1) : Abs(m)}} = {}
    BY <1>0, <1>1 DEF Written
  <2>4. {relocs[k].offset : k \in {m \in 1..i : Abs(m)}} = {v}
    BY <1>1, <2>3, OffsetsMore DEF Abs, v
  <2>5. \A k \in 1..i : relocs[k].kind # "unknown"
    BY <1>1 DEF Written
  <2> QED
    BY <1>0, <1>2, <2>1, <2>2, <2>4, <2>5 DEF Written, Abs
<1>6. Encoded'
  BY <1>0, <1>1, <1>5 DEF Encoded
<1> QED
  BY <1>0, <1>1, <1>2, <1>4, <1>6, TableKeeps

\* The distance to the next long word is positive and even.
LEMMA NextFixKeeps == ASSUME FixupInv, NextFix PROVE FixupInv'
<1> DEFINE v == relocs[i].offset
<1>0. AtReloc("abs") /\ lastOffset # 0 /\ deltaFix' = v - lastOffset /\ pc' = "chain"
      /\ UNCHANGED <<image, pos, dataAt, lost, relocs, i, j, lastOffset, status, result, loader>>
  BY DEF NextFix, Distance
<1>1. /\ pc = "fixup" /\ status /\ relocs[i].kind = "abs"
      /\ i \in DOMAIN relocs /\ i \in Nat \ {0} /\ i + 1 \in 1..(Len(relocs) + 1)
      /\ Written /\ loader.addr = lastOffset
      /\ loader \in Loaders /\ lastOffset \in Nat /\ TypeOK
  BY <1>0, AtRelocFacts
<1>2. PICK k \in 1..(i - 1) : Abs(k) /\ lastOffset = relocs[k].offset
  BY <1>0, <1>1 DEF Written
<1>3. k \in DOMAIN relocs /\ k < i
  BY <1>1, <1>2, OffsetTypes
<1>4. /\ v \in Nat /\ v % 2 = 0 /\ lastOffset % 2 = 0
  BY <1>1, <1>2, <1>3, AbsOffsets DEF Abs
<1>5. lastOffset <= v
  BY <1>1, <1>2, <1>3 DEF FixupInv, Sorted
<1>6. lastOffset # v
  BY <1>1, <1>2, <1>3 DEF FixupInv, Distinct, Abs
<1>7. lost \subseteq Losses /\ status \in BOOLEAN
  BY <1>1 DEF TypeOK
<1>8. Abs(i)
  BY <1>1 DEF Abs
<1> HIDE DEF v
<1>9. deltaFix' \in Nat /\ deltaFix' > 0 /\ deltaFix' % 2 = 0 /\ lastOffset + deltaFix' = v
  BY <1>0, <1>1, <1>4, <1>5, <1>6
<1>10. Written'
  BY <1>0, <1>1 DEF Written, Abs
<1>11. Encoded'
  BY <1>0, <1>1, <1>8, <1>9, <1>10 DEF Encoded, Abs, v
<1> QED
  BY <1>0, <1>1, <1>7, <1>9, <1>11, TableKeeps

\* What the invariant says between two bytes of a distance.
LEMMA ChainFacts ==
  ASSUME FixupInv, pc = "chain"
  PROVE  /\ i \in DOMAIN relocs /\ i \in Nat \ {0} /\ i + 1 \in 1..(Len(relocs) + 1)
         /\ relocs[i].kind = "abs" /\ Abs(i) /\ lastOffset # 0 /\ lastOffset \in Nat
         /\ relocs[i].offset \in Nat /\ relocs[i].offset > 0
         /\ deltaFix \in Nat /\ deltaFix > 0 /\ deltaFix % 2 = 0
         /\ status => Written /\ loader.mode = "more" /\ loader.addr + deltaFix = relocs[i].offset
         /\ loader \in Loaders /\ TypeOK
<1>1. TypeOK /\ Encoded
  BY DEF FixupInv
<1>2. Len(relocs) \in Nat /\ DOMAIN relocs = 1..Len(relocs)
  BY <1>1, OffsetTypes
<1>3. /\ i \in DOMAIN relocs /\ Abs(i) /\ lastOffset # 0
      /\ deltaFix > 0 /\ deltaFix % 2 = 0
      /\ status => Written /\ loader.addr + deltaFix = relocs[i].offset
  BY <1>1 DEF Encoded
<1>4. relocs[i].offset \in Nat /\ relocs[i].offset > 0
  BY <1>3, AbsOffsets
<1>5. status => loader.mode = "more"
  BY <1>3 DEF Written
<1>6. loader \in Loaders /\ lastOffset \in Nat /\ deltaFix \in Nat
  BY <1>1 DEF TypeOK, Loaders
<1>7. relocs[i].kind = "abs"
  BY <1>3 DEF Abs
<1>8. i \in Nat \ {0} /\ i + 1 \in 1..(Len(relocs) + 1)
  BY <1>2, <1>3
<1> QED
  BY <1>1, <1>3, <1>4, <1>5, <1>6, <1>7, <1>8

\* A byte that moves the loader on.
LEMMA EscapeKeeps == ASSUME FixupInv, Escape PROVE FixupInv'
<1>0. /\ pc = "chain" /\ deltaFix > MaxFix /\ Emit(LoadByte(loader, 1))
      /\ deltaFix' = deltaFix - MaxFix
      /\ UNCHANGED <<pc, image, pos, dataAt, relocs, i, j, lastOffset, result>>
  BY DEF Escape, TooFar, WithoutEscape
<1>1. /\ i \in DOMAIN relocs /\ i \in Nat \ {0} /\ i + 1 \in 1..(Len(relocs) + 1)
      /\ Abs(i) /\ lastOffset # 0 /\ lastOffset \in Nat /\ relocs[i].offset \in Nat
      /\ deltaFix \in Nat /\ deltaFix > 0 /\ deltaFix % 2 = 0
      /\ status => Written /\ loader.mode = "more" /\ loader.addr + deltaFix = relocs[i].offset
      /\ loader \in Loaders /\ TypeOK
  BY <1>0, ChainFacts
<1>2. MaxFix \in Nat /\ MaxFix % 2 = 0
  BY SizesAssumption
<1>3. /\ LoadByte(loader, 1) \in Loaders
      /\ loader.mode = "more" => LoadByte(loader, 1) = [loader EXCEPT !.addr = @ + MaxFix]
  <2>1. 1 \in Nat /\ 1 # 0
    OBVIOUS
  <2> QED
    BY <1>1, <2>1, LoaderReads, Zenon
<1>4. loader' \in Loaders /\ lost' \subseteq Losses /\ status' \in BOOLEAN /\ lost \subseteq lost'
  BY <1>0, <1>1, <1>3, EmitTypes
<1>5. deltaFix' \in Nat /\ deltaFix' > 0 /\ deltaFix' % 2 = 0
  BY <1>0, <1>1, <1>2
<1>6. ASSUME status'
      PROVE  Written' /\ loader'.addr + deltaFix' = relocs'[i'].offset
  <2>1. status /\ lost' = lost /\ loader' = [loader EXCEPT !.addr = @ + MaxFix]
    BY <1>0, <1>1, <1>3, <1>6, EmitSucceeds
  <2>2. /\ loader'.addr = loader.addr + MaxFix
        /\ loader'.relocated = loader.relocated /\ loader'.mode = loader.mode
        /\ loader.addr \in Nat
    BY <1>1, <2>1 DEF Loaders
  <2>3. Written'
    BY <1>0, <1>1, <2>1, <2>2 DEF Written, Abs
  <2> QED
    BY <1>0, <1>1, <1>2, <2>1, <2>2, <2>3
<1>7. i' \in 1..(Len(relocs') + 1)
  BY <1>0, <1>1, OffsetTypes
<1>8. Encoded'
  BY <1>0, <1>1, <1>5, <1>6, <1>7 DEF Encoded, Abs
<1>9. i' \in Nat /\ lastOffset' \in Nat
  BY <1>0, <1>1
<1> QED
  BY <1>0, <1>4, <1>5, <1>8, <1>9, TableKeeps

\* A byte that relocates: an even distance is neither of the two special ones.
LEMMA LastByteKeeps == ASSUME FixupInv, LastByte PROVE FixupInv'
<1> DEFINE v == relocs[i].offset
<1>0. /\ pc = "chain" /\ Emit(LoadByte(loader, deltaFix))
      /\ lastOffset' = v /\ i' = i + 1 /\ pc' = "fixup"
      /\ UNCHANGED <<image, pos, dataAt, relocs, j, deltaFix, result>>
  BY DEF LastByte
<1>1. /\ i \in DOMAIN relocs /\ i \in Nat \ {0} /\ i + 1 \in 1..(Len(relocs) + 1)
      /\ relocs[i].kind = "abs" /\ Abs(i) /\ v \in Nat /\ v > 0
      /\ deltaFix \in Nat /\ deltaFix > 0 /\ deltaFix % 2 = 0
      /\ status => Written /\ loader.mode = "more" /\ loader.addr + deltaFix = v
      /\ loader \in Loaders /\ TypeOK
  BY <1>0, ChainFacts
<1> HIDE DEF v
<1>2. deltaFix # 0 /\ deltaFix # 1
  BY <1>1
<1>3. /\ LoadByte(loader, deltaFix) \in Loaders
      /\ loader.mode = "more" =>
           LoadByte(loader, deltaFix) =
             [loader EXCEPT !.addr = @ + deltaFix, !.relocated = @ \cup {loader.addr + deltaFix}]
  BY <1>1, <1>2, LoaderReads
<1>4. loader' \in Loaders /\ lost' \subseteq Losses /\ status' \in BOOLEAN /\ lost \subseteq lost'
  BY <1>0, <1>1, <1>3, EmitTypes
<1>5. ASSUME status'
      PROVE  Written' /\ loader'.addr = lastOffset'
  <2>1. /\ status /\ lost' = lost /\ Written /\ loader.addr + deltaFix = v
        /\ loader' = [loader EXCEPT !.addr = @ + deltaFix,
                                    !.relocated = @ \cup {loader.addr + deltaFix}]
    BY <1>0, <1>1, <1>3, <1>5, EmitSucceeds
  <2>2. /\ loader'.addr = v /\ loader'.relocated = loader.relocated \cup {v}
        /\ loader'.mode = loader.mode
    BY <1>1, <2>1 DEF Loaders
  <2>3. i' - 1 = i
    BY <1>0, <1>1
  <2>4. {relocs[k].offset : k \in {m \in 1..(i - 1) : Abs(m)}} = loader.relocated
    BY <2>1 DEF Written
  <2>5. {relocs[k].offset : k \in {m \in 1..i : Abs(m)}} = loader.relocated \cup {v}
    BY <1>1, <2>4, OffsetsMore DEF v
  <2>6. \A k \in 1..i : relocs[k].kind # "unknown"
    BY <1>1, <2>1 DEF Written
  <2>7. /\ lastOffset' = v /\ v # 0 /\ relocs' = relocs /\ loader.mode = "more"
        /\ "checked" \notin lost'
    BY <1>0, <1>1, <2>1 DEF Written
  <2>8. loader'.relocated = {relocs'[k].offset : k \in {m \in 1..(i' - 1) : Abs(m)'}}
    BY <2>2, <2>3, <2>5, <2>7 DEF Abs
  <2>9. \A k \in 1..(i' - 1) : relocs'[k].kind # "unknown"
    BY <2>3, <2>6, <2>7
  <2> QED
    BY <2>2, <2>7, <2>8, <2>9 DEF Written
<1>6. Encoded'
  BY <1>0, <1>1, <1>5 DEF Encoded
<1> QED
  BY <1>0, <1>1, <1>4, <1>6, TableKeeps

\* Relocations that need no fixup.
LEMMA NoFixKeeps == ASSUME FixupInv, NoFix PROVE FixupInv'
<1>0. /\ AtReloc("pc") /\ i' = i + 1
      /\ UNCHANGED <<pc, image, pos, dataAt, lost, relocs, j, lastOffset, deltaFix, status, result, loader>>
  BY DEF NoFix
<1>1. /\ pc = "fixup" /\ status /\ relocs[i].kind = "pc"
      /\ i \in DOMAIN relocs /\ i \in Nat \ {0} /\ i + 1 \in 1..(Len(relocs) + 1)
      /\ Written /\ (lastOffset # 0 => loader.addr = lastOffset)
      /\ loader \in Loaders /\ lastOffset \in Nat /\ deltaFix \in Nat /\ TypeOK
  BY <1>0, AtRelocFacts
<1>2. i' - 1 = i
  BY <1>0, <1>1
<1>3. {relocs[k].offset : k \in {m \in 1..i : Abs(m)}} = loader.relocated
  BY <1>1, OffsetsMore DEF Written, Abs
<1>4. \A k \in 1..i : relocs[k].kind # "unknown"
  BY <1>1 DEF Written
<1>5. Written'
  BY <1>0, <1>1, <1>2, <1>3, <1>4 DEF Written, Abs
<1>6. Encoded'
  BY <1>0, <1>1, <1>5 DEF Encoded
<1>7. lost \subseteq Losses /\ status \in BOOLEAN
  BY <1>1 DEF TypeOK
<1> QED
  BY <1>0, <1>1, <1>6, <1>7, TableKeeps

\* An unknown type is an error.
LEMMA UnknownTypeKeeps == ASSUME FixupInv, UnknownType PROVE FixupInv'
<1>0. /\ AtReloc("unknown") /\ i' = i + 1 /\ status' = FALSE
      /\ UNCHANGED <<pc, image, pos, dataAt, lost, relocs, j, lastOffset, deltaFix, result, loader>>
  BY DEF UnknownType
<1>1. /\ pc = "fixup" /\ i \in Nat \ {0} /\ i + 1 \in 1..(Len(relocs) + 1)
      /\ loader \in Loaders /\ lastOffset \in Nat /\ deltaFix \in Nat /\ TypeOK
  BY <1>0, AtRelocFacts
<1>2. Encoded'
  BY <1>0, <1>1 DEF Encoded
<1>3. lost \subseteq Losses
  BY <1>1 DEF TypeOK
<1>4. lost' \subseteq Losses /\ status' \in BOOLEAN
  BY <1>0, <1>3, Zenon
<1> QED
  BY <1>0, <1>1, <1>2, <1>3, <1>4, TableKeeps

\* With the end of the table the conversion ends, with success only if it deserves it.
LEMMA EndFixupKeeps == ASSUME FixupInv, EndFixup PROVE FixupInv'
<1> DEFINE last == IF lastOffset = 0 THEN LoadLong(loader, 0) ELSE LoadByte(loader, 0)
<1>0. /\ pc = "fixup" /\ (~status \/ i > Len(relocs)) /\ Emit(last)
      /\ pc' = IF status' THEN "close" ELSE "failed"
      /\ result' = IF status' THEN 0 ELSE -1
      /\ UNCHANGED <<image, pos, dataAt, relocs, i, j, lastOffset, deltaFix>>
  BY DEF EndFixup
<1>1. /\ TypeOK /\ Laid /\ Gathered /\ Distinct /\ Sorted /\ Encoded /\ image \in Images
      /\ loader \in Loaders
  BY DEF FixupInv, TypeOK, Loaders
<1>2. /\ last \in Loaders
      /\ lastOffset = 0 \/ loader.mode = "more" => last = [loader EXCEPT !.mode = "ended"]
  BY <1>1, LoaderReads
<1> HIDE DEF last
<1>3. loader' \in Loaders /\ lost' \subseteq Losses /\ status' \in BOOLEAN /\ lost \subseteq lost'
  BY <1>0, <1>1, <1>2, EmitTypes
<1>4. TypeOK'
  BY <1>0, <1>1, <1>3 DEF TypeOK, Points, Loaders
<1>5. Loaded' = Loaded /\ Wanted' = Wanted
  BY <1>0 DEF Loaded, Wanted
<1>6. Laid' /\ Gathered' /\ Distinct' /\ Sorted' /\ Encoded'
  BY <1>0, <1>1 DEF Laid, Gathered, Distinct, Abs, Sorted, Encoded
<1>7. ASSUME status'
      PROVE  "checked" \notin lost' /\ Layout' /\ \A r \in Loaded : r.kind \in {"abs", "pc"}
  <2>1. status /\ lost' = lost /\ loader' = last
    BY <1>0, <1>1, <1>7, EmitSucceeds
  <2>2. /\ Written /\ i \in 1..(Len(relocs) + 1) /\ i > Len(relocs) /\ Range(relocs) = Loaded
    BY <1>0, <1>1, <2>1 DEF Encoded, Gathered
  <2>3. /\ DOMAIN relocs = 1..(i - 1) /\ \A k \in DOMAIN relocs : relocs[k] \in Reloc
    BY <1>1, <2>2, OffsetTypes
  <2>4. loader' = [loader EXCEPT !.mode = "ended"]
    BY <1>2, <2>1, <2>2 DEF Written
  <2>5. loader'.mode = "ended" /\ loader'.relocated = loader.relocated
    BY <1>1, <2>4 DEF Loaders
  <2>6. \A r \in Loaded : \E k \in DOMAIN relocs : r = relocs[k]
    BY <2>2 DEF Range
  <2>7. \A k \in DOMAIN relocs : relocs[k] \in Loaded
    BY <2>2 DEF Range
  <2>8. loader.relocated = Wanted
    <3>1. loader.relocated = {relocs[k].offset : k \in {m \in DOMAIN relocs : Abs(m)}}
      BY <2>2, <2>3 DEF Written
    <3>2. ASSUME NEW o \in loader.relocated PROVE o \in Wanted
      <4>1. PICK k \in DOMAIN relocs : Abs(k) /\ o = relocs[k].offset
        BY <3>1
      <4>2. Needed(relocs[k])
        BY <2>7, <4>1 DEF Needed, Abs, Loaded
      <4> QED
        BY <2>7, <4>1, <4>2 DEF Wanted
    <3>3. ASSUME NEW o \in Wanted PROVE o \in loader.relocated
      <4>1. PICK r \in Loaded : Needed(r) /\ o = r.offset
        BY DEF Wanted
      <4> QED
        BY <2>6, <3>1, <4>1 DEF Needed, Abs
    <3> QED
      BY <3>2, <3>3
  <2>9. \A r \in Loaded : r.kind \in {"abs", "pc"}
    BY <2>2, <2>3, <2>6 DEF Written, Reloc, Kinds
  <2>10. /\ "padding" \in lost \/ dataAt = HeaderSize + image.dataAddr
         /\ "padding" \in lost \/ pos = HeaderSize + image.bssAddr
    BY <1>0, <1>1, <2>1 DEF Laid
  <2> QED
    BY <1>0, <1>5, <2>1, <2>2, <2>5, <2>8, <2>9, <2>10 DEF Layout, Written
<1>8. Reported'
  BY <1>0, <1>5, <1>7 DEF Reported
<1> QED
  BY <1>0, <1>1, <1>4, <1>6, <1>8 DEF FixupInv

\* Closing the file changes nothing but what may be lost unseen.
LEMMA CloseKeeps == ASSUME FixupInv, Close PROVE FixupInv'
<1>0. /\ pc = "close" /\ pc' = "done" /\ lost' \in {lost, lost \cup {"flush"}}
      /\ UNCHANGED <<image, pos, dataAt, relocs, i, j, lastOffset, deltaFix, status, result, loader>>
  BY DEF Close, table
<1>1. TypeOK /\ Distinct /\ Reported /\ image \in Images
  BY DEF FixupInv
<1>2. TypeOK'
  <2>1. lost' \subseteq Losses
    BY <1>0, <1>1 DEF TypeOK, Losses
  <2> QED
    BY <1>0, <1>1, <2>1 DEF TypeOK, Points
<1>3. Laid' /\ Gathered' /\ Distinct' /\ Sorted' /\ Encoded'
  BY <1>0, <1>1 DEF Laid, Gathered, Distinct, Abs, Sorted, Encoded
<1>4. Loaded' = Loaded /\ Wanted' = Wanted
  BY <1>0 DEF Loaded, Wanted
<1>5. /\ "checked" \notin lost /\ Layout /\ \A r \in Loaded : r.kind \in {"abs", "pc"}
  BY <1>0, <1>1 DEF Reported
<1>6. "checked" \notin lost' /\ ("padding" \in lost' <=> "padding" \in lost)
  BY <1>0, <1>5
<1>7. Layout'
  BY <1>0, <1>4, <1>5, <1>6 DEF Layout
<1>8. Reported'
  BY <1>0, <1>4, <1>5, <1>6, <1>7 DEF Reported
<1> QED
  BY <1>0, <1>1, <1>2, <1>3, <1>8 DEF FixupInv

\* A section of the elf file that cannot be read ends the conversion.
LEMMA InputFailsKeeps == ASSUME FixupInv, InputFails PROVE FixupInv'
<1>0. /\ pc \in {"header", "text", "data", "relaText", "relaData"} /\ pc' = "failed"
      /\ UNCHANGED <<image, pos, dataAt, lost, relocs, i, j, lastOffset, deltaFix, status, result, loader>>
  BY DEF InputFails, table
<1>1. TypeOK /\ Distinct /\ Reported /\ image \in Images
  BY DEF FixupInv
<1>2. TypeOK'
  BY <1>0, <1>1 DEF TypeOK, Points
<1>3. Laid' /\ Gathered' /\ Distinct' /\ Sorted' /\ Encoded' /\ Reported'
  BY <1>0, <1>1 DEF Laid, Gathered, Distinct, Abs, Sorted, Encoded, Reported
<1> QED
  BY <1>0, <1>1, <1>2, <1>3 DEF FixupInv

\* A stutter preserves the invariant.
LEMMA IdleKeeps == ASSUME FixupInv, UNCHANGED vars PROVE FixupInv'
<1>0. UNCHANGED <<pc, image, pos, dataAt, lost, relocs, i, j, lastOffset, deltaFix, status, result, loader>>
  BY DEF vars, table
<1>1. Loaded' = Loaded /\ Wanted' = Wanted
  BY <1>0 DEF Loaded, Wanted
<1>2. /\ TypeOK /\ Laid /\ Gathered /\ Distinct /\ Sorted /\ Encoded /\ Reported
      /\ image \in Images
  BY DEF FixupInv
<1>3. TypeOK' /\ Laid' /\ Sorted'
  BY <1>0, <1>2 DEF TypeOK, Laid, Sorted
<1>4. Gathered' /\ Distinct'
  BY <1>0, <1>1, <1>2 DEF Gathered, Distinct, Abs
<1>5. Written' = Written
  BY <1>0 DEF Written, Abs
<1>6. Encoded'
  BY <1>0, <1>2, <1>5 DEF Encoded, Abs
<1>7. Layout' = Layout
  BY <1>0, <1>1 DEF Layout
<1>8. Reported'
  BY <1>0, <1>1, <1>2, <1>7 DEF Reported
<1> QED
  BY <1>0, <1>2, <1>3, <1>4, <1>6, <1>8 DEF FixupInv

\* Each step preserves the invariant.
LEMMA StepFixup == FixupInv /\ [Next]_vars => FixupInv'
<1> SUFFICES ASSUME FixupInv, [Next]_vars PROVE FixupInv'
  OBVIOUS
<1>1. CASE OutputHeader \/ OutputText \/ AlignData \/ OutputData \/ AlignBss
  BY <1>1, SectionsKeep
<1>2. CASE LoadRelaText \/ LoadRelaData
  BY <1>2, LoadKeeps
<1>3. CASE InputFails
  BY <1>3, InputFailsKeeps
<1>4. CASE SortInner
  BY <1>4, SortInnerKeeps
<1>5. CASE SortOuter
  BY <1>5, SortOuterKeeps
<1>6. CASE SortEnds
  BY <1>6, SortEndsKeeps
<1>7. CASE FirstFix
  BY <1>7, FirstFixKeeps
<1>8. CASE NextFix
  BY <1>8, NextFixKeeps
<1>9. CASE Escape
  BY <1>9, EscapeKeeps
<1>10. CASE LastByte
  BY <1>10, LastByteKeeps
<1>11. CASE NoFix
  BY <1>11, NoFixKeeps
<1>12. CASE UnknownType
  BY <1>12, UnknownTypeKeeps
<1>13. CASE EndFixup
  BY <1>13, EndFixupKeeps
<1>14. CASE Close
  BY <1>14, CloseKeeps
<1>15. CASE UNCHANGED vars
  BY <1>15, IdleKeeps
<1> QED
  BY <1>1, <1>2, <1>3, <1>4, <1>5, <1>6, <1>7, <1>8, <1>9, <1>10, <1>11, <1>12, <1>13, <1>14, <1>15
  DEF Next, Finished

\* What main converts with success, unless something was lost where it does not look,
\* the loader of TOS puts where the header says, and relocates every long word that
\* needs it and no other (main.c:176-191, 303-364).
THEOREM ConvertedProgramLoads == Spec => []ProgramLoads
<1>1. FixupInv => ProgramLoads
  BY DEF FixupInv, Reported, Layout, ProgramLoads
<1> QED
  BY <1>1, InitFixup, StepFixup, PTL DEF Spec

\* main reports success only if all of the sections and of the table was taken by
\* fwrite, and every type of relocation was known; of the padding, and of what fclose
\* writes, it knows nothing (main.c:185-190, 344-363, 547-587).
THEOREM SuccessIsTrue == Spec => []ResultIsTrue
<1>1. FixupInv => ResultIsTrue
  BY DEF FixupInv, Reported, ResultIsTrue
<1> QED
  BY <1>1, InitFixup, StepFixup, PTL DEF Spec

\* Types, among them the state of the loader that has read so far.
THEOREM TypeCorrect == Spec => []TypeOK
<1>1. FixupInv => TypeOK
  BY DEF FixupInv
<1> QED
  BY <1>1, InitFixup, StepFixup, PTL DEF Spec
===============================================================================
