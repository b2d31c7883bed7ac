--------------------------- MODULE MCDatabaseSessions ---------------------------
(* Finite instances of DatabaseSessions; the bounds are in the .cfg files. *)
EXTENDS DatabaseSessions, TLC

RequestSymmetry == Permutations(Requests)
==============================================================================
