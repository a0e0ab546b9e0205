------------------------------- MODULE SccRing -------------------------------
(***************************************************************************)
(* What the two rings of the SCC serial driver have in common              *)
(* (gdbserver/comm_mfp_scc.s): their length, and the mask that keeps an    *)
(* index inside.                                                           *)
(***************************************************************************)
EXTENDS Naturals, Sequences

CONSTANTS SccBufferLength, \* a power of two, see SccBufferMask
          Bytes            \* what the line can carry

ASSUME LengthAssumption == SccBufferLength \in Nat \ {0}

Index == 0..(SccBufferLength - 1)

\* add.w to a position / and.w #SccBufferMask
Masked(n) == n % SccBufferLength
==============================================================================
