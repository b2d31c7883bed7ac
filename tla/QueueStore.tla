------------------------------ MODULE QueueStore ------------------------------
(***************************************************************************)
(* What one concert's waiting queue keeps in Redis and the commands the     *)
(* program sends to it:                                                    *)
(*                                                                         *)
(*   q:zset:{concert}          sorted set, member = user, score = the Kafka *)
(*                             offset of the record that put the user there *)
(*   q:gate:{concert}:{user}   "waiting" or "ready", always with a TTL      *)
(*                                                                         *)
(* Redis runs each command atomically.  A sorted set is a function from     *)
(* users to scores, Absent for a user that is not a member.  Offsets are    *)
(* numbered from 1 here (Kafka numbers them from 0), so that 0 can stand    *)
(* for Absent; only their order matters to the program.                     *)
(***************************************************************************)
EXTENDS Naturals, FiniteSets

CONSTANT Users      \* the user_se values that occur

ASSUME UsersFinite == IsFiniteSet(Users)

Absent == 0

Zset == [Users -> Nat]
EmptyZset == [u \in Users |-> Absent]

Members(z) == {u \in Users : z[u] # Absent}
Scores(z) == {z[u] : u \in Members(z)}

\* Mutant: ZADD NX, which leaves a member where it is.
ZAddNX(z, u, score) == IF z[u] = Absent THEN [z EXCEPT ![u] = score] ELSE z

\* ZADD key {u: score}: adds the member, or moves it if it is there already.
ZAdd(z, u, score) == [z EXCEPT ![u] = score]

\* ZRANK key u, 0-based; meaningful for a member only.
Ahead(z, u) == {v \in Members(z) : z[v] < z[u]}
Rank(z, u) == Cardinality(Ahead(z, u))

\* Mutant: ZPOPMAX.
Highest(z, n) == {u \in Members(z) : Cardinality({v \in Members(z) : z[v] > z[u]}) < n}

\* The members ZPOPMIN key n returns, and the sorted set it leaves behind.
Lowest(z, n) == {u \in Members(z) : Rank(z, u) < n}
ZRemove(z, S) == [u \in Users |-> IF u \in S THEN Absent ELSE z[u]]
ZKeep(z, S) == [u \in Users |-> IF u \in S THEN z[u] ELSE Absent]

\* Values of a gate key; "none" is a key that does not exist or has expired.
GateStates == {"none", "waiting", "ready"}
==============================================================================
