---------------------------- MODULE Majorities ----------------------------
(* How many of n servers every phase of COLAS waits for. *)
EXTENDS Integers

\* A faulty variant: half of the servers, rounded down.
Majority_half(n) == n \div 2

\* ceil((n + 1) / 2), computed in floating point by every phase.
Majority(n) == (n + 2) \div 2
===========================================================================
