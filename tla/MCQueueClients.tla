---------------------------- MODULE MCQueueClients ----------------------------
(* Finite instances of QueueClients; the bounds are in the .cfg files. *)
EXTENDS QueueClients, TLC
==============================================================================
