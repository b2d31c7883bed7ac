----------------------------- MODULE MCConcertGate -----------------------------
(* Finite instances of ConcertGate; the bounds are in the .cfg files. *)
EXTENDS ConcertGate, TLC

RequestSymmetry == Permutations(Requests)
==============================================================================
