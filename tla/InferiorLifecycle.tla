-------------------------- MODULE InferiorLifecycle --------------------------
(***************************************************************************)
(* What gdbserver/inferior.c and gdbserver/server.c promise about the      *)
(* debugged program (the "inferior"), and nothing else: it is loaded into  *)
(* memory of its own, may be started once, and leaves the machine together *)
(* with all the memory it was given.  Session.tla is the detailed          *)
(* specification that implements this one.                                 *)
(***************************************************************************)
EXTENDS Naturals

VARIABLES phase,  \* inferiorState: "NOT_LOADED", "LOADED" or "RUNNING"
          image,  \* inferiorBasePage: 0 is NULL, otherwise a loaded image
          owned   \* the images whose memory GEMDOS has not been given back

vars == <<phase, image, owned>>

Phases == {"NOT_LOADED", "LOADED", "RUNNING"}

TypeOK == /\ phase \in Phases
          /\ image \in Nat
          /\ owned \in SUBSET Nat

Init == /\ phase = "NOT_LOADED"
        /\ image = 0
        /\ owned = {}

\* LoadInferior: Pexec(PE_LOAD) hands over the memory of a new image.
Load == /\ phase = "NOT_LOADED"
        /\ phase' = "LOADED"
        /\ image' \in Nat \ {0}
        /\ owned' = owned \cup {image'}

\* RunInferior, first half: Pexec(PE_GO) on the image that was loaded.
Start == /\ phase = "LOADED"
         /\ phase' = "RUNNING"
         /\ UNCHANGED <<image, owned>>

\* Leaving LOADED (killed before it was started) or RUNNING (it ended or was
\* terminated): both Mfree calls, then NULL and NOT_LOADED.
Unload == /\ phase \in {"LOADED", "RUNNING"}
          /\ phase' = "NOT_LOADED"
          /\ image' = 0
          /\ owned' = owned \ {image}

Next == Load \/ Start \/ Unload

Spec == Init /\ [][Next]_vars
=============================================================================
