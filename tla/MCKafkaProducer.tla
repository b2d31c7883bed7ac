---------------------------- MODULE MCKafkaProducer ----------------------------
(* Finite instances of KafkaProducer; the bounds are in the .cfg files. *)
EXTENDS KafkaProducer, TLC

SendSymmetry == Permutations(Sends)
==============================================================================
