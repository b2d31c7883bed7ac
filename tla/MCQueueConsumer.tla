---------------------------- MODULE MCQueueConsumer ----------------------------
(* Finite instances of QueueConsumer; the bounds are in the .cfg files. *)
EXTENDS QueueConsumer, TLC

UserSymmetry == Permutations(Users)
==============================================================================
