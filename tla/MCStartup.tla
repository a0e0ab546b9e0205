------------------------------ MODULE MCStartup ------------------------------
(* An instance of Startup for TLC. *)
EXTENDS Startup, TLC

CONSTANTS r1, r2, midi, stub

MCResidents == {r1, r2}
MCExtensions == {midi, stub}

\* Cookies are compared for equality only.
Symmetry == Permutations(MCResidents) \union Permutations(MCExtensions)

MCOptions == {"--multi", "--once"}
MCWords == {"--multi", "--once", "--what", "COM1", "a", "b"}

\* A name of one letter and one of two.
MCLetters == "a" :> <<"x">> @@ "b" :> <<"y", "z">>
MCRunArgs == {<<>>, <<"b">>}

\* Two words have a space between them.
MCLines == {l \in UNION {[1..n -> MCWords \union {Space}] : n \in 0..5} :
             \A k \in 1..(Len(l) - 1) : Space \in {l[k], l[k + 1]}}
===============================================================================
