----------------------------- MODULE RegisterFile -----------------------------
(***************************************************************************)
(* What gdb relies on when it keeps copies of the registers of a stopped   *)
(* program: it learns what a register holds, a register it writes holds    *)
(* that and no other one changes, and its copies do not outlive a run of   *)
(* the program.                                                            *)
(***************************************************************************)
CONSTANT Unknown   \* no copy

VARIABLES value,    \* the registers, by gdb's number
          copy      \* gdb's copies

Reg == DOMAIN value

Init == /\ \A n \in Reg : value[n] # Unknown
        /\ copy = [n \in Reg |-> Unknown]

\* Copies are made, or given up for a register that cannot be read.
Read == /\ UNCHANGED value
        /\ DOMAIN copy' = Reg
        /\ \A n \in Reg : copy'[n] \in {copy[n], value[n], Unknown}

\* A register either stays what it is, or gdb has a copy of what it became.
Write == /\ DOMAIN value' = Reg /\ DOMAIN copy' = Reg
         /\ \A n \in Reg : \/ value'[n] = value[n] /\ copy'[n] = copy[n]
                           \/ copy'[n] = value'[n]

\* The program runs and stops again.
Run == /\ DOMAIN value' = Reg /\ DOMAIN copy' = Reg
       /\ \A n \in Reg : copy'[n] \in {Unknown, value'[n]}

Spec == Init /\ [][Read \/ Write \/ Run]_<<value, copy>>
=============================================================================
