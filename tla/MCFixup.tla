------------------------------ MODULE MCFixup ------------------------------
EXTENDS Fixup

CONSTANTS TextOffsets, DataOffsets,  \* where relocations are
          MaxText, MaxData           \* how many of them

\* Sequences of relocations in any order, those of long words distinct and not at 0.
Relocations(offsets, max) ==
  LET some == {r \in [offset : offsets, kind : Kinds, weak : BOOLEAN] : r.weak => r.kind = "abs"}
  IN UNION {{s \in [1..n -> some] :
               \A a, b \in 1..n : Needed(s[a]) /\ Needed(s[b]) =>
                  s[a].offset > 0 /\ (s[a].offset = s[b].offset => a = b)} : n \in 0..max}

\* .data behind .text with a gap, without one, or overlapping; no data; and .bss
\* likewise.
Layouts == {[text |-> 508, dataAddr |-> 508, data |-> 600, bssAddr |-> 1120],
            [text |-> 506, dataAddr |-> 508, data |-> 598, bssAddr |-> 1120],
            [text |-> 506, dataAddr |-> 508, data |-> 0, bssAddr |-> 512],
            [text |-> 512, dataAddr |-> 508, data |-> 600, bssAddr |-> 1120],
            [text |-> 508, dataAddr |-> 508, data |-> 604, bssAddr |-> 1120]}
Ordinary == [text |-> 508, dataAddr |-> 508, data |-> 598, bssAddr |-> 1108]

Image(l, t, d) == [text |-> l.text, dataAddr |-> l.dataAddr, data |-> l.data,
                   bssAddr |-> l.bssAddr, relaText |-> t, relaData |-> d]

MCImages ==
  {Image(Ordinary, t, d) : t \in Relocations(TextOffsets, MaxText),
                           d \in Relocations(DataOffsets, MaxData)}
  \cup {Image(l, t, << >>) : l \in Layouts, t \in Relocations(TextOffsets, 1)}
=============================================================================
