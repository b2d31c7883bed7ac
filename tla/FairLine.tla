------------------------------- MODULE FairLine -------------------------------
(***************************************************************************)
(* What the waiting queue promises its users, with no Kafka, no Redis and  *)
(* no process in it: a line of people.  A user joins at the end (joining   *)
(* again means going to the end again), and people leave from the front.   *)
(* The line is the set of the users in it and, for each, who is ahead.     *)
(***************************************************************************)
CONSTANT Users

VARIABLES
  line,     \* the users waiting
  ahead     \* ahead[u]: the users waiting in front of u

vars == <<line, ahead>>

TypeOK ==
  /\ line \in SUBSET Users
  /\ ahead \in [Users -> SUBSET line]

Init ==
  /\ line = {}
  /\ ahead = [u \in Users |-> {}]

Join(u) ==
  /\ line' = line \cup {u}
  /\ ahead' = [v \in Users |-> IF v = u THEN line \ {u} ELSE ahead[v] \ {u}]

\* Nobody in S has a user in front who stays.
Leave(S) ==
  /\ S \subseteq line
  /\ \A u \in S : ahead[u] \subseteq S
  /\ line' = line \ S
  /\ ahead' = [v \in Users |-> IF v \in line \ S THEN ahead[v] \ S ELSE {}]

Next ==
  \/ \E u \in Users : Join(u)
  \/ \E S \in SUBSET line : Leave(S)

Spec == Init /\ [][Next]_vars
==============================================================================
