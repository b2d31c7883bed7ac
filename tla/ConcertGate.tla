------------------------------ MODULE ConcertGate ------------------------------
(***************************************************************************)
(* GET /concerts/{concert_se}?user_se=..: the queue gate of the concert     *)
(* detail (routers/concert_router.py, utils/queue_guard.py), run against    *)
(* the queue that QueueConsumer models.  The setting is that of             *)
(* configs/config.json: GATE_MODE "auto" and a QUEUE_TOPIC.                 *)
(*                                                                         *)
(* A request is a coroutine: it gives way to the other requests and to the  *)
(* two tasks of the consumer at every await, so each Redis command and the  *)
(* Kafka send is an action of its own, and what an earlier command returned *)
(* (full, ranked, seen) is a local copy that may be stale when it is used.  *)
(***************************************************************************)
EXTENDS QueueConsumer

CONSTANTS
  Requests,   \* the requests that may be in progress at once
  NoUser,     \* a request without user_se
  Threshold,  \* QUEUE.AUTO_QUEUE_SIZE_THRESHOLD
  Window,     \* QUEUE.ADMIT_WINDOW
  Blocking,   \* QUEUE.BLOCKING_DETAIL_WAIT_MS > 0
  Overlap,    \* the users who may have several requests in progress
  Enqueuers,  \* the users who call POST /queue/enqueue themselves
  MishapKinds,  \* the kinds of failure that may befall a request
  MaxMishaps    \* bound on the number of those failures

ASSUME GateConstants ==
  /\ NoUser \notin Users
  /\ Threshold \in Nat
  /\ Window \in Nat
  /\ Blocking \in BOOLEAN
  /\ Overlap \subseteq Users
  /\ Enqueuers \subseteq Users
  /\ MishapKinds \subseteq {"redis", "kafka", "db", "ttl"}
  /\ MaxMishaps \in Nat

VARIABLES
  req,      \* the requests: where each one is and its local variables
  late,     \* sends that timed out, the record still in the producer: whose, and when
  fate,     \* history: what became of the ready mark the user has not used yet
  mishaps   \* number of failures so far

gateVars == <<req, late, fate, mishaps>>
allVars == <<vars, gateVars>>

PCs == {"idle", "rank", "state", "send", "mark", "poll", "remark", "recheck",
        "delete", "front", "detail"}

Answers == {"none", "detail", "400", "409", "425", "500"}

GateTypeOK ==
  /\ req \in [Requests -> [pc : PCs, user : Users \cup {NoUser}, full : BOOLEAN,
                           ranked : BOOLEAN, seen : GateStates, owed : BOOLEAN,
                           answer : Answers]]
  /\ \A r \in Requests : req[r].user \in Users \/ req[r].pc \in {"idle", "detail"}
  /\ late \subseteq Users \X (1..MaxMishaps)
  /\ fate \in [Users -> {"none", "held", "expired", "overwritten"}]
  /\ mishaps \in 0..MaxMishaps

\* A request that is over keeps its answer, and whether the user was owed
\* admission all along.
Over(answer, owed) ==
  [pc |-> "idle", user |-> NoUser, full |-> FALSE, ranked |-> FALSE,
   seen |-> "none", owed |-> owed, answer |-> answer]

GateInit ==
  /\ Init
  /\ req = [r \in Requests |-> Over("none", FALSE)]
  /\ late = {}
  /\ fate = [u \in Users |-> "none"]
  /\ mishaps = 0

At(r, pc) == req[r].pc = pc
Goto(r, pc) == req' = [req EXCEPT ![r].pc = pc]
User(r) == req[r].user

\* The user has been marked ready and has not been let in on that mark since.
Owed(u) == u \in Users /\ fate[u] \in {"held", "overwritten"}

Reply(r, answer) ==
  req' = [req EXCEPT ![r] = Over(answer, req[r].owed /\ Owed(User(r)))]

\* The commands of the handler, as the queue sees them.
Reads == UNCHANGED <<vars, late, fate, mishaps>>
Writes(u, m) == WriteGate(u, m) /\ UNCHANGED <<late, mishaps>>
Sends(u) == Produce(u) /\ UNCHANGED <<late, mishaps>>

-----------------------------------------------------------------------------
(* _maybe_guard_concert_detail, command by command *)

\* The bound on the partition: there is room for what may still be sent.
Room ==
  Len(log) + Cardinality(late)
    + Cardinality({r \in Requests : req[r].pc \in {"rank", "state", "send"}}) < MaxRecords

\* Mutant: the guard does not ask for a user_se.
ArriveUnchecked(r, u) ==
  /\ At(r, "idle")
  /\ u = NoUser \/ Room
  /\ u \in Overlap \cup {NoUser} \/ \A s \in Requests : User(s) # u
  /\ req' = [req EXCEPT ![r] =
       [pc |-> "rank", user |-> u, full |-> Cardinality(Members(zset)) >= Threshold,
        ranked |-> FALSE, seen |-> "none", owed |-> Owed(u), answer |-> "none"]]
  /\ Reads

\* Mutant: the gate is up above the threshold only.
ArriveAboveThreshold(r, u) ==
  LET full == Cardinality(Members(zset)) > Threshold IN
  /\ At(r, "idle")
  /\ u = NoUser \/ Room
  /\ u \in Overlap \cup {NoUser} \/ \A s \in Requests : User(s) # u
  /\ req' = [req EXCEPT ![r] =
       IF u = NoUser /\ full
       THEN Over("400", FALSE)
       ELSE [pc |-> IF u = NoUser THEN "detail" ELSE "rank", user |-> u,
             full |-> full, ranked |-> FALSE, seen |-> "none",
             owed |-> Owed(u), answer |-> "none"]]
  /\ Reads

\* total = await r.zcard(zkey).  Without a user_se that is all the guard reads.
Arrive(r, u) ==
  LET full == Cardinality(Members(zset)) >= Threshold IN
  /\ At(r, "idle")
  /\ u = NoUser \/ Room
  /\ u \in Overlap \cup {NoUser} \/ \A s \in Requests : User(s) # u
  /\ req' = [req EXCEPT ![r] =
       IF u = NoUser /\ full
       THEN Over("400", FALSE)
       ELSE [pc |-> IF u = NoUser THEN "detail" ELSE "rank", user |-> u,
             full |-> full, ranked |-> FALSE, seen |-> "none",
             owed |-> Owed(u), answer |-> "none"]]
  /\ Reads

\* rank = await r.zrank(zkey, user)
ReadRank(r) ==
  /\ At(r, "rank")
  /\ req' = [req EXCEPT ![r].pc = "state", ![r].ranked = User(r) \in Members(zset)]
  /\ Reads

\* Mutant: the record is sent whether or not the user has the mark "waiting".
AfterReadsResending(full, ranked, seen) ==
  IF seen = "ready" THEN "delete"
  ELSE IF ~ (full \/ ranked \/ seen = "waiting") THEN "detail"
  ELSE IF ranked THEN "front" ELSE "send"

\* Where the guard goes once it has total, rank and state.
AfterReads(full, ranked, seen) ==
  IF seen = "ready" THEN "delete"
  ELSE IF ~ (full \/ ranked \/ seen = "waiting") THEN "detail"
  ELSE IF ranked THEN "front"
  ELSE IF seen # "waiting" THEN "send"
  ELSE IF Blocking THEN "poll" ELSE "recheck"

\* state = await r.get(state_key), and the decisions taken on the three values.
ReadState(r) ==
  LET next == AfterReads(req[r].full, req[r].ranked, gate[User(r)]) IN
  /\ At(r, "state")
  /\ req' = [req EXCEPT ![r].pc = next, ![r].seen = gate[User(r)]]
  /\ Reads

\* Mutant: the mark is not deleted.
DeleteForgotten(r) ==
  /\ At(r, "delete")
  /\ Writes(User(r), gate[User(r)])
  /\ fate' = [fate EXCEPT ![User(r)] = "none"]
  /\ Goto(r, "detail")

\* Mutant: the mark is set back to "waiting".
DeleteResets(r) ==
  /\ At(r, "delete")
  /\ Writes(User(r), "waiting")
  /\ fate' = [fate EXCEPT ![User(r)] = "none"]
  /\ Goto(r, "detail")

\* Mutant: the user is removed from the sorted set on the way in.
DeleteRemovesMember(r) ==
  /\ At(r, "delete")
  /\ gate' = [gate EXCEPT ![User(r)] = "none"]
  /\ zset' = ZRemove(zset, {User(r)})
  /\ fate' = [fate EXCEPT ![User(r)] = "none"]
  /\ Goto(r, "detail")
  /\ UNCHANGED <<projector, dequeuer, faults, history, late, mishaps>>

\* await r.delete(state_key), whatever the key holds by now.
Delete(r) ==
  /\ At(r, "delete")
  /\ Writes(User(r), "none")
  /\ fate' = [fate EXCEPT ![User(r)] = "none"]
  /\ Goto(r, "detail")

\* await kafka_async.send(..): the user queues up, and starts over.
Send(r) ==
  /\ At(r, "send")
  /\ Sends(User(r))
  /\ fate' = IF fate[User(r)] = "held" THEN fate ELSE [fate EXCEPT ![User(r)] = "none"]
  /\ Goto(r, "mark")

NoteOverwriting(u) ==
  fate' = IF gate[u] = "ready" THEN [fate EXCEPT ![u] = "overwritten"] ELSE fate

AfterSend == IF Blocking THEN "poll" ELSE "recheck"

\* await r.setex(state_key, state_ttl, "waiting"), after the send.
MarkWaiting(r) ==
  /\ At(r, "mark")
  /\ Writes(User(r), "waiting")
  /\ NoteOverwriting(User(r))
  /\ Goto(r, AfterSend)

\* The blocking wait: a ZRANK every 50 ms until the user is in the queue ..
PollFinds(r) ==
  /\ At(r, "poll")
  /\ User(r) \in Members(zset)
  /\ Goto(r, "remark")
  /\ Reads

\* .. or until the deadline.
PollEnds(r) ==
  /\ At(r, "poll")
  /\ Goto(r, "recheck")
  /\ Reads

\* The SETEX inside the wait.
Remark(r) ==
  /\ At(r, "remark")
  /\ Writes(User(r), "waiting")
  /\ NoteOverwriting(User(r))
  /\ Goto(r, "front")

\* Mutant: the wait starts over as long as the user is not ready.
RecheckRetries(r) ==
  /\ At(r, "recheck")
  /\ IF gate[User(r)] = "ready" THEN Goto(r, "delete") ELSE Goto(r, "poll")
  /\ Reads

\* Still not in the queue: the TTL is renewed and the mark is read once more.
Recheck(r) ==
  /\ At(r, "recheck")
  /\ IF gate[User(r)] = "ready" THEN Goto(r, "delete") ELSE Reply(r, "425")
  /\ Reads

AdmitWindow == IF Window < 1 THEN 1 ELSE Window

\* ensure_queue_front, which reads the rank again.
EnsureQueueFront(r) ==
  LET u == User(r) IN
  /\ At(r, "front")
  /\ \/ u \notin Members(zset) /\ Reply(r, "409")
     \/ u \in Members(zset) /\ Rank(zset, u) >= AdmitWindow /\ Reply(r, "425")
     \/ u \in Members(zset) /\ Rank(zset, u) < AdmitWindow /\ Goto(r, "detail")
  /\ Reads

\* The guard returned: the concert is read from the database and answered.
GetDetail(r) ==
  /\ At(r, "detail")
  /\ req' = [req EXCEPT ![r] = Over("detail", FALSE)]
  /\ Reads

-----------------------------------------------------------------------------
(* Failures: none of them is an HTTPException, so the answer is a 500 *)

Mishap(kind) ==
  /\ kind \in MishapKinds
  /\ mishaps < MaxMishaps
  /\ mishaps' = mishaps + 1

\* A Redis command raises, and Redis has not executed it.
RedisFails(r) ==
  /\ req[r].pc \notin {"idle", "send", "detail"}
  /\ Mishap("redis")
  /\ Reply(r, "500")
  /\ UNCHANGED <<vars, late, fate>>

\* The DELETE runs and its reply is lost: the mark is spent on a 500.
DeleteReplyLost(r) ==
  /\ At(r, "delete")
  /\ Mishap("redis")
  /\ WriteGate(User(r), "none")
  /\ fate' = [fate EXCEPT ![User(r)] = "none"]
  /\ Reply(r, "500")
  /\ UNCHANGED late

\* Mutant: the timeout is swallowed and the handler goes on.
SendTimeoutSwallowed(r) ==
  /\ At(r, "send")
  /\ Mishap("kafka")
  /\ late' = late \cup {<<User(r), mishaps'>>}
  /\ Goto(r, "mark")
  /\ UNCHANGED <<vars, fate>>

\* send_and_wait takes longer than 5 s: the producer keeps the record.
SendTimesOut(r) ==
  /\ At(r, "send")
  /\ Mishap("kafka")
  /\ late' = late \cup {<<User(r), mishaps'>>}
  /\ Reply(r, "500")
  /\ UNCHANGED <<vars, fate>>

\* The query for the concert fails after the guard let the user through.
DetailFails(r) ==
  /\ At(r, "detail")
  /\ Mishap("db")
  /\ Reply(r, "500")
  /\ UNCHANGED <<vars, late, fate>>

\* What the producer kept is delivered after all, or is given up.
LateDelivery(send) ==
  /\ Produce(send[1]) \/ UNCHANGED vars
  /\ late' = late \ {send}
  /\ UNCHANGED <<req, fate, mishaps>>

\* The TTL of a mark runs out.
Expire(u) ==
  /\ gate[u] # "none"
  /\ Mishap("ttl")
  /\ WriteGate(u, "none")
  /\ fate' = IF gate[u] = "ready" THEN [fate EXCEPT ![u] = "expired"] ELSE fate
  /\ UNCHANGED <<req, late>>

-----------------------------------------------------------------------------
(* The other parts of the program *)

\* POST /queue/enqueue, seen from here: another record of the user.
Enqueue(u) ==
  /\ u \in Enqueuers
  /\ Room
  /\ Sends(u)
  /\ UNCHANGED <<req, fate>>

\* A step of the consumer; SETEX "ready" gives the user a fresh mark.
ConsumerRuns ==
  /\ \/ /\ Start \/ StartFails \/ DequeuerDies \/ AutoCommit \/ Consume \/ Pop
           \/ PublishRelease \/ AddFails \/ PopFails \/ MarkFails \/ LoopRaises
        /\ UNCHANGED fate
     \/ \E u \in Users : Mark(u) /\ fate' = [fate EXCEPT ![u] = "held"]
  /\ UNCHANGED <<req, late, mishaps>>

\* uvicorn stops the application when the last request has been answered.
Shutdown ==
  /\ Stop
  /\ \A r \in Requests : At(r, "idle")
  /\ UNCHANGED gateVars

\* A crash ends the requests with the process.  What a timed-out send had put on the
\* wire may still arrive; LateDelivery may also drop it.
Death ==
  /\ Crash
  /\ req' = [r \in Requests |-> IF At(r, "idle") THEN req[r] ELSE Over("none", FALSE)]
  /\ UNCHANGED <<late, fate, mishaps>>

Step(r) ==
  \/ ReadRank(r) \/ ReadState(r) \/ Delete(r) \/ Send(r) \/ MarkWaiting(r)
  \/ PollFinds(r) \/ PollEnds(r) \/ Remark(r) \/ Recheck(r)
  \/ EnsureQueueFront(r) \/ GetDetail(r)

StepFails(r) ==
  RedisFails(r) \/ DeleteReplyLost(r) \/ SendTimesOut(r) \/ DetailFails(r)

GateNext ==
  \/ \E r \in Requests : \/ \E u \in Users \cup {NoUser} : Arrive(r, u)
                         \/ Step(r) \/ StepFails(r)
  \/ \E send \in late : LateDelivery(send)
  \/ \E u \in Users : Expire(u) \/ Enqueue(u)
  \/ ConsumerRuns \/ Shutdown \/ Death

GateSpec == GateInit /\ [][GateNext]_allVars

(* The event loop runs both tasks of the consumer and the handlers, the blocking
   wait has a deadline, and whoever runs the server restarts it. *)
GateFairness ==
  /\ WF_allVars(Start /\ UNCHANGED gateVars)
  /\ WF_allVars(Consume /\ UNCHANGED gateVars)
  /\ WF_allVars(ConsumerRuns /\ Dequeue)
  /\ \A r \in Requests : WF_allVars(Step(r))

GateFairSpec == GateSpec /\ GateFairness

-----------------------------------------------------------------------------
(* Safety *)

\* The user's records that will still bring the user to a ready mark.
Live(u) ==
  {o \in Offsets : log[o] = u /\ \/ o > position
                                 \/ o = position /\ loop = "add"
                                 \/ o \in {zset[u], batch[u]}}

(* The mark "waiting" stops the guard from sending another record, so a user with
   that mark and no record under way is shut out.  With one request at a time it
   takes a lost ready mark or a lost record to get there: the guard never writes
   the mark for a user it has not queued, whatever the consumer, the TTLs, the failures
   and the other users do between two of its commands (concert_router.py:66-82). *)
WaitingHasTicket ==
  \A u \in Users \ Overlap : gate[u] = "waiting" =>
    \/ Live(u) # {}
    \/ fate[u] \in {"expired", "overwritten"}
    \/ \E o \in skipped \cup forfeited : log[o] = u

(* The guard queues a user once: however often the client asks, one request at a
   time, a second record is never sent while the first is under way (it would
   move the user to the back), the moment between ZPOPMIN and SETEX included. *)
OneLiveTicket ==
  MishapKinds \subseteq {"db"} /\ "crash" \notin FaultKinds
    => \A u \in Users \ (Enqueuers \cup Overlap) : Cardinality(Live(u)) <= 1

(* A ready mark lets its user in once: the mark a request deletes on its way in has
   not let anybody in before, though it may have run out since it was read. *)
OnePassPerMark ==
  [][\A r \in Requests :
       User(r) \notin Overlap /\ (Delete(r) \/ DeleteReplyLost(r))
         => fate[User(r)] \in {"held", "expired"}]_allVars

\* The requests of a user that have read "ready" and not deleted it yet.
Holders(u) == {r \in Requests : At(r, "delete") /\ User(r) = u}

(* What is left of that for a user with several requests in progress: a mark may let in
   every request that had read it before it was used, and none that comes later; once
   it has been used, has run out or was overwritten, nobody new holds it
   (concert_router.py:42-46, 86-89). *)
SpentMarkIsSpent ==
  [][\A u \in Users : fate[u] # "held" => Holders(u)' \subseteq Holders(u)]_allVars

\* The user is in the queue or has left it as one who was popped.
HasQueued(u) ==
  \/ u \in Members(zset) \cup Members(batch)
  \/ \E o \in marked \cup forfeited : log[o] = u

(* A gate that is up lets in nobody who has not stood in line, however stale its reads
   are and whatever fails: a request that found the queue at the threshold, which
   with a threshold of 0 is every request, gets to the concert only for a user whose
   record was projected (concert_router.py:37-53, 97-100). *)
NobodySlipsIn ==
  \A r \in Requests :
    At(r, "detail") /\ (Threshold = 0 \/ req[r].full)
      => User(r) \in Users /\ HasQueued(User(r))

(* What tests/gate_auto_demo.py:8 expects: once the user's turn has come, the next
   detail request is answered with the concert. *)
ReleasedUserIsAdmitted ==
  \A r \in Requests : At(r, "idle") /\ req[r].owed => req[r].answer \notin {"409", "425"}

-----------------------------------------------------------------------------
(* Refinement: for the queue, the gate is the environment QueueConsumer assumes. *)
ImplementsConsumer == Spec

-----------------------------------------------------------------------------
(* Liveness *)

(* Every request is answered, whatever fails. *)
RequestsAnswered ==
  \A r \in Requests : ~ At(r, "idle") ~> At(r, "idle")

(* Waiting ends: the mark "waiting" gives way to "ready", unless the ready mark
   was written too early and lost, a fault took the user's record, or one of the
   consumer's tasks is dead for good. *)
WaitingEnds ==
  \/ <>[](loop = "dead" \/ dq = "dead")
  \/ \A u \in Users :
       gate[u] = "waiting" ~> \/ gate[u] # "waiting"
                              \/ fate[u] \in {"expired", "overwritten"}
                              \/ \E o \in skipped \cup forfeited : log[o] = u
==============================================================================
