------------------------------- MODULE RecordSend -------------------------------
(***************************************************************************)
(* What a caller of the producer may count on, with no producer, no buffer  *)
(* and no broker in it: a send is answered once; accepted, its record is in *)
(* the partition for good; failed, the record may still get there later, or *)
(* be there already; a record nobody sent never gets there.                 *)
(***************************************************************************)
CONSTANT Sends

VARIABLES
  answer,     \* what each call has been told
  partition   \* the records in the partition

vars == <<answer, partition>>

Init ==
  /\ answer = [s \in Sends |-> "new"]
  /\ partition = {}

Tell(s, a) == answer' = [answer EXCEPT ![s] = a]

Call(s) ==
  /\ answer[s] = "new"
  /\ Tell(s, "pending")
  /\ UNCHANGED partition

\* The record arrives, before the answer or after a failure was reported.
Arrive(s) ==
  /\ answer[s] \in {"pending", "failed"}
  /\ partition' = partition \cup {s}
  /\ UNCHANGED answer

Accept(s) ==
  /\ answer[s] = "pending"
  /\ partition' = partition \cup {s}
  /\ Tell(s, "accepted")

\* One call fails, or, with the process, all that are pending.
Fail(S) ==
  /\ \A s \in S : answer[s] = "pending"
  /\ answer' = [s \in Sends |-> IF s \in S THEN "failed" ELSE answer[s]]
  /\ UNCHANGED partition

Next ==
  \/ \E s \in Sends : Call(s) \/ Arrive(s) \/ Accept(s)
  \/ \E S \in SUBSET Sends : Fail(S)

Spec == Init /\ [][Next]_vars
==============================================================================
