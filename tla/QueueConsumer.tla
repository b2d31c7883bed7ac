----------------------------- MODULE QueueConsumer -----------------------------
(***************************************************************************)
(* services/queue_consumer.py: the embedded consumer of one API process,   *)
(* which projects the Kafka partition of a concert onto its Redis sorted   *)
(* set (_consume_loop) and, in a second asyncio task, releases the head of *)
(* the queue at a fixed pace (dequeue_loop).                               *)
(*                                                                         *)
(* The two tasks interleave at every await.  Redis and Kafka outlive the   *)
(* process; what the process keeps in memory (the record being projected,  *)
(* the batch ZPOPMIN returned, the fetch position) does not.  A record of  *)
(* the partition is the user it names: every record of a concert carries   *)
(* the key concert:{concert_se}, hence goes to one partition, in order.    *)
(***************************************************************************)
EXTENDS QueueStore, Sequences

CONSTANTS
  PerSec,       \* CONCERT_DEQUEUE_PER_SEC / QUEUE.DEQUEUE_PER_SEC; 0 disables
  FaultKinds,   \* the kinds of fault that may strike
  MaxRecords,   \* bound on the length of the partition
  MaxFaults     \* bound on the number of faults

ASSUME ConsumerConstants ==
  /\ PerSec \in Nat
  /\ FaultKinds \subseteq {"redis", "start", "fetch", "stop", "crash"}
  /\ MaxRecords \in Nat
  /\ MaxFaults \in Nat

VARIABLES
  log,        \* the partition: log[o] is the user named by the record at o
  position,   \* offset of the last record handed to the loop
  committed,  \* offset committed for the group concert-projector
  loop,       \* where _consume_loop is
  zset,       \* q:zset:{concert}
  gate,       \* q:gate:{concert}:{user}
  dq,         \* where dequeue_loop is
  batch,      \* members ZPOPMIN returned that are not marked ready yet
  faults,     \* number of faults so far
  skipped,    \* history: offsets given up without a ZADD
  marked,     \* history: offsets released, with the ready mark written
  forfeited   \* history: offsets released, the ready mark never written

projector == <<log, position, committed, loop>>
store == <<zset, gate>>
dequeuer == <<dq, batch>>
history == <<skipped, marked, forfeited>>
vars == <<projector, store, dequeuer, faults, history>>

Offsets == 1..Len(log)

TypeOK ==
  /\ log \in Seq(Users)
  /\ position \in 0..Len(log)
  /\ committed \in 0..position
  /\ loop \in {"down", "dead", "fetch", "add", "publish"}
  /\ loop = "add" => position > 0
  /\ zset \in [Users -> 0..Len(log)]
  /\ gate \in [Users -> GateStates]
  /\ dq \in {"off", "dead", "pop", "mark", "publish"}
  /\ batch \in [Users -> 0..Len(log)]
  /\ loop \in {"down", "dead"} => dq = "off" /\ committed = position
  /\ dq # "mark" => Members(batch) = {}
  /\ faults \in 0..MaxFaults
  /\ skipped \in SUBSET Offsets
  /\ marked \in SUBSET Offsets
  /\ forfeited \in SUBSET Offsets

Init ==
  /\ log = <<>>
  /\ position = 0
  /\ committed = 0
  /\ loop = "down"
  /\ zset = EmptyZset
  /\ gate = [u \in Users |-> "none"]
  /\ dq = "off"
  /\ batch = EmptyZset
  /\ faults = 0
  /\ skipped = {}
  /\ marked = {}
  /\ forfeited = {}

Fault(kind) ==
  /\ kind \in FaultKinds
  /\ faults < MaxFaults
  /\ faults' = faults + 1

-----------------------------------------------------------------------------
(* _consume_loop *)

\* Mutant: the dequeue task is started for a pace above 1 only.
StartOffByOne ==
  /\ loop = "down"
  /\ loop' = "fetch"
  /\ dq' = IF PerSec > 1 THEN "pop" ELSE "off"
  /\ UNCHANGED <<log, position, committed, store, batch, faults, history>>

\* consumer.start(), then the dequeue task if a pace is configured.  The fetch
\* position is the committed one (Stop and Crash have already put it there).
Start ==
  /\ loop = "down"
  /\ loop' = "fetch"
  /\ dq' = IF PerSec > 0 THEN "pop" ELSE "off"
  /\ UNCHANGED <<log, position, committed, store, batch, faults, history>>

\* consumer.start() raises, or the pace is not a number: the task ends, nobody awaits
\* it, and the application serves on without a consumer.
StartFails ==
  /\ loop = "down"
  /\ Fault("start")
  /\ loop' = "dead"
  /\ UNCHANGED <<log, position, committed, store, dequeuer, history>>

\* The TTL of the marks is not a number: the dequeue task ends at once, and the projection
\* goes on without it.
DequeuerDies ==
  /\ loop = "down"
  /\ PerSec > 0
  /\ Fault("start")
  /\ loop' = "fetch"
  /\ dq' = "dead"
  /\ UNCHANGED <<log, position, committed, store, batch, history>>

\* async for msg in consumer: the client hands out the next record and moves
\* its position past it before the body runs.
Fetch ==
  /\ loop = "fetch"
  /\ position < Len(log)
  /\ position' = position + 1
  /\ loop' = "add"
  /\ UNCHANGED <<log, committed, store, dequeuer, faults, history>>

\* Mutant: the score is the log-end offset.
AddAtLogEnd ==
  /\ loop = "add"
  /\ zset' = ZAdd(zset, log[position], Len(log))
  /\ loop' = "publish"
  /\ skipped' = skipped \ {position}
  /\ UNCHANGED <<log, position, committed, gate, dequeuer, faults, marked, forfeited>>

\* await r.zadd(zkey, {user: msg.offset})
Add ==
  /\ loop = "add"
  /\ zset' = ZAdd(zset, log[position], position)
  /\ loop' = "publish"
  /\ skipped' = skipped \ {position}
  /\ UNCHANGED <<log, position, committed, gate, dequeuer, faults, marked, forfeited>>

\* The ZADD raises; the except clause logs and the loop moves on.
AddFails ==
  /\ loop = "add"
  /\ Fault("redis")
  /\ loop' = "fetch"
  /\ skipped' = skipped \cup {position}
  /\ UNCHANGED <<log, position, committed, store, dequeuer, marked, forfeited>>

\* await r.publish(channel, "update"); a failure is logged, with the same effect.
Publish ==
  /\ loop = "publish"
  /\ loop' = "fetch"
  /\ UNCHANGED <<log, position, committed, store, dequeuer, faults, history>>

\* enable_auto_commit=True: in the background, the client commits the position,
\* whether or not the body is done with the record.
AutoCommit ==
  /\ loop \notin {"down", "dead"}
  /\ committed # position
  /\ committed' = position
  /\ UNCHANGED <<log, position, loop, store, dequeuer, faults, history>>

-----------------------------------------------------------------------------
(* dequeue_loop *)

\* Mutant: one user too many is released.
PopOneTooMany ==
  /\ dq = "pop"
  /\ Members(zset) # {}
  /\ batch' = ZKeep(zset, Lowest(zset, PerSec + 1))
  /\ zset' = ZRemove(zset, Lowest(zset, PerSec + 1))
  /\ dq' = "mark"
  /\ UNCHANGED <<projector, gate, faults, history>>

\* removed = await r.zpopmin(zkey, per_sec)
Pop ==
  /\ dq = "pop"
  /\ Members(zset) # {}
  /\ batch' = ZKeep(zset, Lowest(zset, PerSec))
  /\ zset' = ZRemove(zset, Lowest(zset, PerSec))
  /\ dq' = "mark"
  /\ UNCHANGED <<projector, gate, faults, history>>

\* Redis executes the ZPOPMIN and the reply is lost: except Exception, sleep.
PopFails ==
  /\ dq = "pop"
  /\ Members(zset) # {}
  /\ Fault("redis")
  /\ zset' = ZRemove(zset, Lowest(zset, PerSec))
  /\ forfeited' = forfeited \cup Scores(ZKeep(zset, Lowest(zset, PerSec)))
  /\ UNCHANGED <<projector, gate, dequeuer, skipped, marked>>

\* Mutant: only the first user of the batch is marked.
MarkFirstOnly(u) ==
  /\ dq = "mark"
  /\ u \in Lowest(batch, 1)
  /\ gate' = [gate EXCEPT ![u] = "ready"]
  /\ batch' = EmptyZset
  /\ marked' = marked \cup {batch[u]}
  /\ dq' = "publish"
  /\ UNCHANGED <<projector, zset, faults, skipped, forfeited>>

\* await r.setex(gate_key, ready_ttl, "ready"), in the order ZPOPMIN returned.
Mark(u) ==
  /\ dq = "mark"
  /\ u \in Lowest(batch, 1)
  /\ gate' = [gate EXCEPT ![u] = "ready"]
  /\ batch' = ZRemove(batch, {u})
  /\ marked' = marked \cup {batch[u]}
  /\ dq' = IF Members(batch) = {u} THEN "publish" ELSE "mark"
  /\ UNCHANGED <<projector, zset, faults, skipped, forfeited>>

\* Mutant: a failed SETEX leaves the batch behind and pops the next one.
MarkFailsKeepsBatch ==
  /\ dq = "mark"
  /\ Fault("redis")
  /\ forfeited' = forfeited \cup Scores(batch)
  /\ dq' = "pop"
  /\ UNCHANGED <<projector, store, batch, skipped, marked>>

\* The SETEX raises: the rest of the batch is gone with the local variable.
MarkFails ==
  /\ dq = "mark"
  /\ Fault("redis")
  /\ forfeited' = forfeited \cup Scores(batch)
  /\ batch' = EmptyZset
  /\ dq' = "pop"
  /\ UNCHANGED <<projector, store, skipped, marked>>

\* await r.publish(channel, "update"), then sleep(1); same effect if it raises.
PublishRelease ==
  /\ dq = "publish"
  /\ dq' = "pop"
  /\ UNCHANGED <<projector, store, batch, faults, history>>

-----------------------------------------------------------------------------
(* The end of the tasks *)

\* Both tasks end, at the await each of them is in, with the group offset at c.
Halt(c) ==
  /\ loop # "down"
  /\ loop' \in {"down", "dead"}
  /\ committed' = c
  /\ position' = c
  /\ dq' = "off"
  /\ batch' = EmptyZset
  /\ skipped' = skipped \cup (IF loop = "add" /\ c = position THEN {position} ELSE {})
  /\ forfeited' = forfeited \cup Scores(batch)
  /\ UNCHANGED <<log, store, marked>>

\* stop_embedded_consumer: cancel the task, whose finally clause cancels the
\* dequeue task and runs consumer.stop(), which commits the position.
\* Stopping an application whose consumer is dead loses nothing and is no fault.
Stop ==
  /\ IF loop = "dead" THEN UNCHANGED faults ELSE Fault("stop")
  /\ loop' = "down"
  /\ Halt(position)

\* The process dies, or stops and the last commit fails: the group offset is the one last
\* committed.
Crash == Fault("crash") /\ loop' = "down" /\ Halt(committed)

\* async for raises between two records: the finally clause runs, and the process serves on
\* without a consumer.
LoopRaises ==
  /\ loop = "fetch"
  /\ Fault("fetch")
  /\ loop' = "dead"
  /\ Halt(position)

-----------------------------------------------------------------------------
(* The rest of the program, as this component sees it *)

\* POST /queue/enqueue and the guard of GET /concerts/{id} send a record.
Produce(u) ==
  /\ Len(log) < MaxRecords
  /\ log' = Append(log, u)
  /\ UNCHANGED <<position, committed, loop, store, dequeuer, faults, history>>

\* The guard writes "waiting" or deletes the key; a TTL runs out.
WriteGate(u, mark) ==
  /\ gate' = [gate EXCEPT ![u] = mark]
  /\ UNCHANGED <<projector, zset, dequeuer, faults, history>>

Consume == Fetch \/ Add \/ Publish
Dequeue == Pop \/ PublishRelease \/ \E u \in Users : Mark(u)
Failure ==
  \/ StartFails \/ DequeuerDies \/ AddFails \/ PopFails \/ MarkFails
  \/ LoopRaises \/ Stop \/ Crash
Consumer == Start \/ AutoCommit \/ Consume \/ Dequeue \/ Failure

Environment ==
  \E u \in Users : Produce(u) \/ \E m \in {"none", "waiting"} : WriteGate(u, m)

Next == Consumer \/ Environment

Spec == Init /\ [][Next]_vars

-----------------------------------------------------------------------------
(* Safety *)

\* Offsets the loop is done with in its current pass over the partition: handed
\* out, not being worked on, not given up.
Handled == {o \in 1..position : ~ (loop = "add" /\ o = position)} \ skipped

\* The user of record o has sent another one since.
LaterTicket(o) == \E p \in o+1..Len(log) : log[p] = log[o]

(* Redis order is arrival order: a score is always the offset of a record of
   that very user.  So no two members tie, and neither a redelivery nor a
   second record can give a user a place that no record of theirs has
   (queue_consumer.py:79-81). *)
ScoreIsOffset ==
  \A u \in Users :
    /\ zset[u] # Absent => log[zset[u]] = u
    /\ batch[u] # Absent => log[batch[u]] = u

(* A user who waits stands at the place of the latest record the loop has
   handled for them, whatever was redelivered or failed. *)
LatestTicket ==
  \A u \in Members(zset) : \A o \in Handled : log[o] = u => o <= zset[u]

(* First come, first served, across redeliveries, failed commands, restarts and
   the two tasks interleaving: if the user of a handled record is out of the
   queue, nobody still in it came earlier. *)
FifoRelease ==
  \A o \in Handled : log[o] \notin Members(zset)
                       => \A a \in Members(zset) : o < zset[a]

(* No ticket vanishes: a handled record is waiting in the sorted set, held in the
   batch being marked, marked ready, forfeited by a fault, or superseded by a
   later record of the same user. *)
TicketsAccounted ==
  \A o \in Handled :
    \/ LaterTicket(o)
    \/ o \in {zset[log[o]], batch[log[o]]}
    \/ o \in marked \cup forfeited

(* What one fault (a Redis error, a failed start, the end of a task, a shutdown, a crash)
   can cost: one record without its ZADD and one batch of PerSec users without their
   ready mark. *)
LossBound ==
  /\ Cardinality(skipped) <= faults
  /\ Cardinality(forfeited) <= PerSec * faults

-----------------------------------------------------------------------------
(* Liveness *)

Settled(o) == LaterTicket(o) \/ o \in marked \cup forfeited \cup skipped

(* Every accepted record ends up with its user marked ready, unless a fault
   took it or the user sent another one: the loops never wedge, no restart
   leaves a record behind, nobody starves in the queue.  The exception is a task that
   could not start, or that an exception ended, as long as nobody stops the application:
   what waits then is released after the next start (queue_consumer.py:45-46, :69-75,
   main.py:50-57). *)
EveryTicketSettles ==
  \/ <>[](loop = "dead" \/ dq = "dead")
  \/ \A o \in 1..MaxRecords : o <= Len(log) ~> Settled(o)

-----------------------------------------------------------------------------
(* Refinement *)

Line == INSTANCE FairLine WITH
  line <- Members(zset),
  ahead <- [u \in Users |-> IF u \in Members(zset) THEN Ahead(zset, u) ELSE {}]

(* As long as no crash makes Kafka redeliver, the sorted set is a fair line:
   users enter at the end and leave from the front, whichever Redis commands
   fail and however often the server is restarted. *)
ImplementsFairLine == Line!Spec
==============================================================================
