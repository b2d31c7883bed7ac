----------------------------- MODULE MCHealthChecks -----------------------------
(* Finite instances of HealthChecks: the configurations under which requests arrive; the
   other bounds are in the .cfg file. *)
EXTENDS HealthChecks, TLC

\* The brokers given, empty or missing in the base file, and nothing else.
BrokersGivenOrNot ==
  {p \in Configuration :
     /\ p.section = "KAFKA" /\ p.base.kind = "object"
     /\ \A k \in Keys \ {"BOOTSTRAP_SERVERS"} : p.base.keys[k] = "none"
     /\ p.overlay.kind = "absent" /\ p.file = "missing" /\ ~ p.local
     /\ p.env = [k \in Keys |-> "unset"]}
==============================================================================
