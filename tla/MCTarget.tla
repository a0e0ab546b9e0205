------------------------------- MODULE MCTarget -------------------------------
(* An instance of Target for TLC. *)
EXTENDS Target

MCReadLens == 3..5
===============================================================================
