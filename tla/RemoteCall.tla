----------------------------- MODULE RemoteCall -----------------------------
(***************************************************************************)
(* What gdb and the server promise each other: gdb calls, the server       *)
(* executes what was called, and an answer is the answer of the call that  *)
(* is outstanding.  When gdb has gone in the middle of a call, what is     *)
(* left of it can still be executed and answered, and the next gdb cannot  *)
(* tell; but calls are executed and answered in their order, none that was *)
(* not made, none before it was executed.  PacketLink implements it.       *)
(***************************************************************************)
EXTENDS Naturals

VARIABLES call,     \* number of the latest call
          open,     \* gdb waits for its answer
          cut,      \* calls of a gdb that has gone may be under way
          executed, \* the call the server executed last
          answered  \* the call whose answer gdb took last

vars == <<call, open, cut, executed, answered>>

Init == call = 0 /\ ~open /\ ~cut /\ executed = 0 /\ answered = 0

\* By now nothing may be left of a conversation that was cut.
Call == /\ ~open
        /\ call' = call + 1 /\ open' = TRUE
        /\ cut' \in {cut, FALSE}
        /\ UNCHANGED <<executed, answered>>

\* Executing the same call again changes nothing here.
Execute == /\ executed' \in executed..call
           /\ cut \/ (open /\ executed' = call)
           /\ UNCHANGED <<call, open, cut, answered>>

Answer == /\ open /\ open' = FALSE
          /\ answered' \in answered..executed
          /\ cut \/ answered' = call
          /\ UNCHANGED <<call, cut, executed>>

\* gdb reports an error to its user and goes on.
GiveUp == /\ open
          /\ open' = FALSE
          /\ UNCHANGED <<call, cut, executed, answered>>

Leave == /\ cut' = TRUE /\ open' = FALSE
         /\ UNCHANGED <<call, executed, answered>>

Next == Call \/ Execute \/ Answer \/ GiveUp \/ Leave

Spec == Init /\ [][Next]_vars
=============================================================================
