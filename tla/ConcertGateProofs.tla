--------------------------- MODULE ConcertGateProofs ---------------------------
(***************************************************************************)
(* The gate is an environment of the consumer: what QueueConsumerProofs     *)
(* proves of the consumer holds of the two together, for any number of      *)
(* requests in progress, overlapping or not, and whatever fails; and each   *)
(* await of a request brings it nearer to its answer.                       *)
(***************************************************************************)
EXTENDS ConcertGate, QueueConsumerProofs

-----------------------------------------------------------------------------
(* Types *)

RequestType ==
  [pc : PCs, user : Users \cup {NoUser}, full : BOOLEAN, ranked : BOOLEAN,
   seen : GateStates, owed : BOOLEAN, answer : Answers]

RequestsTyped ==
  /\ req \in [Requests -> RequestType]
  /\ \A r \in Requests : req[r].user \in Users \/ req[r].pc \in {"idle", "detail"}

FateTyped == fate \in [Users -> {"none", "held", "expired", "overwritten"}]

LateSends == Users \X (1..MaxMishaps)

LEMMA TypeParts ==
  GateTypeOK <=> /\ RequestsTyped /\ FateTyped
                 /\ late \subseteq LateSends /\ mishaps \in 0..MaxMishaps
BY DEF GateTypeOK, RequestsTyped, FateTyped, RequestType, LateSends

LEMMA LateFinite ==
  ASSUME GateTypeOK
  PROVE  IsFiniteSet(late)
<1> DEFINE times == 1..MaxMishaps
<1>1. IsFiniteSet(times)
  BY GateConstants, FS_Interval
<1> HIDE DEF times
<1>2. IsFiniteSet(Users \X times)
  BY <1>1, UsersFinite, FS_Product
<1> QED
  BY <1>2, FS_Subset DEF GateTypeOK, times

(* A record the request may be left in. *)
GoodRequest(q) == q \in RequestType /\ (q.user \in Users \/ q.pc \in {"idle", "detail"})

LEMMA OverIsGood ==
  ASSUME NEW answer \in Answers, NEW owed \in BOOLEAN
  PROVE  GoodRequest(Over(answer, owed))
BY DEF GoodRequest, RequestType, Over, PCs, GateStates

LEMMA GotoIsGood ==
  ASSUME NEW q \in RequestType, q.user \in Users, NEW pc \in PCs
  PROVE  GoodRequest([q EXCEPT !.pc = pc])
BY DEF GoodRequest, RequestType

LEMMA RankIsGood ==
  ASSUME NEW q \in RequestType, q.user \in Users, NEW pc \in PCs, NEW b \in BOOLEAN
  PROVE  GoodRequest([q EXCEPT !.pc = pc, !.ranked = b])
BY DEF GoodRequest, RequestType

LEMMA SeenIsGood ==
  ASSUME NEW q \in RequestType, q.user \in Users, NEW pc \in PCs, NEW g \in GateStates
  PROVE  GoodRequest([q EXCEPT !.pc = pc, !.seen = g])
BY DEF GoodRequest, RequestType

(* A step that changes one request, leaving it in a good record, keeps the type
   of them all. *)
LEMMA OneRequest ==
  ASSUME GateTypeOK, NEW r \in Requests, GoodRequest(req'[r]),
         req' = [req EXCEPT ![r] = req'[r]]
  PROVE  RequestsTyped'
BY DEF GateTypeOK, RequestsTyped, RequestType, GoodRequest

LEMMA GateTypeInit == GateInit => TypeOK /\ GateTypeOK
<1> SUFFICES ASSUME GateInit PROVE TypeOK /\ GateTypeOK
  OBVIOUS
<1>1. GoodRequest(Over("none", FALSE))
  BY OverIsGood DEF Answers
<1>2. RequestsTyped
  <2> DEFINE q == Over("none", FALSE)
  <2>1. req = [r \in Requests |-> q]
    BY DEF GateInit
  <2>2. GoodRequest(q)
    BY <1>1
  <2> HIDE DEF q
  <2> QED
    BY <2>1, <2>2 DEF GoodRequest, RequestsTyped
<1>3. late \subseteq LateSends /\ FateTyped
  BY DEF GateInit, FateTyped
<1>4. mishaps \in 0..MaxMishaps
  BY GateConstants DEF GateInit
<1> QED
  BY <1>2, <1>3, <1>4, TypeInit, TypeParts DEF GateInit

(* The guard of a request reads and writes the keys of a user. *)
Guarding == {"rank", "state", "send", "mark", "poll", "remark", "recheck", "delete", "front"}

LEMMA GuardHasUser ==
  ASSUME GateTypeOK, NEW r \in Requests, req[r].pc \in Guarding
  PROVE  req[r] \in RequestType /\ User(r) \in Users
BY DEF GateTypeOK, RequestType, User, Guarding

LEMMA ReplyKeepsType ==
  ASSUME GateTypeOK, NEW r \in Requests, \E answer \in Answers : Reply(r, answer)
  PROVE  RequestsTyped'
<1> DEFINE owed == req[r].owed /\ Owed(User(r))
<1>1. owed \in BOOLEAN /\ req \in [Requests -> RequestType]
  BY DEF GateTypeOK, RequestType, Owed
<1>2. PICK answer \in Answers : req' = [req EXCEPT ![r] = Over(answer, owed)]
  BY DEF Reply
<1> HIDE DEF owed
<1>3. GoodRequest(Over(answer, owed))
  BY <1>1, OverIsGood
<1> QED
  BY <1>1, <1>2, <1>3, OneRequest

LEMMA GotoKeepsType ==
  ASSUME GateTypeOK, NEW r \in Requests, req[r].pc \in Guarding,
         \E pc \in PCs : Goto(r, pc)
  PROVE  RequestsTyped'
<1>1. req \in [Requests -> RequestType] /\ req[r].user \in Users
  BY GuardHasUser DEF GateTypeOK, RequestType, User
<1>2. PICK pc \in PCs : req' = [req EXCEPT ![r] = [req[r] EXCEPT !.pc = pc]]
  BY DEF Goto
<1>3. GoodRequest([req[r] EXCEPT !.pc = pc])
  BY <1>1, GotoIsGood
<1> QED
  BY <1>1, <1>2, <1>3, OneRequest

LEMMA StepType ==
  ASSUME TypeOK, GateTypeOK, NEW r \in Requests, Step(r)
  PROVE  GateTypeOK'
<1> DEFINE u == User(r)
<1> USE DEF At
<1>1. RequestsTyped /\ FateTyped /\ late \subseteq LateSends /\ mishaps \in 0..MaxMishaps
  BY TypeParts
<1>2. req \in [Requests -> RequestType]
  BY <1>1 DEF RequestsTyped
<1>3. FateTyped' /\ late' = late /\ mishaps' = mishaps
  BY <1>1 DEF Step, ReadRank, ReadState, Delete, Send, MarkWaiting, PollFinds, PollEnds,
     Remark, Recheck, EnsureQueueFront, GetDetail, Reads, Writes, Sends, FateTyped,
     NoteOverwriting
<1>4. SUFFICES RequestsTyped'
  BY <1>1, <1>3 DEF GateTypeOK, RequestsTyped, FateTyped, RequestType, LateSends
<1>5. CASE ReadRank(r)
  <2> DEFINE b == u \in Members(zset)
             q == [req[r] EXCEPT !.pc = "state", !.ranked = b]
  <2>1. req' = [req EXCEPT ![r] = q]
    BY <1>5 DEF ReadRank
  <2>2. req[r] \in RequestType /\ req[r].user \in Users /\ "state" \in PCs
    BY <1>5, GuardHasUser DEF ReadRank, PCs, Guarding, User
  <2>3. b \in BOOLEAN
    OBVIOUS
  <2> HIDE DEF b
  <2>4. GoodRequest(q)
    BY <2>2, <2>3, RankIsGood
  <2> HIDE DEF q
  <2> QED
    BY <1>2, <2>1, <2>4, OneRequest
<1>6. CASE ReadState(r)
  <2> DEFINE next == AfterReads(req[r].full, req[r].ranked, gate[u])
             q == [req[r] EXCEPT !.pc = next, !.seen = gate[u]]
  <2>1. req' = [req EXCEPT ![r] = q]
    BY <1>6 DEF ReadState
  <2>2. next \in PCs
    BY DEF AfterReads, PCs
  <2>3. u \in Users /\ gate[u] \in GateStates
    BY <1>6, GuardHasUser DEF ReadState, Guarding, TypeOK
  <2>4. req[r] \in RequestType /\ req[r].user \in Users
    BY <1>6, GuardHasUser DEF ReadState, Guarding, User
  <2> HIDE DEF next
  <2>5. GoodRequest(q)
    BY <2>2, <2>3, <2>4, SeenIsGood
  <2> HIDE DEF q
  <2> QED
    BY <1>2, <2>1, <2>5, OneRequest
<1>7. CASE Delete(r) \/ Send(r) \/ MarkWaiting(r) \/ PollFinds(r) \/ PollEnds(r) \/ Remark(r)
  <2>1. /\ req[r].pc \in Guarding
        /\ \E pc \in PCs : Goto(r, pc)
    BY <1>7 DEF Delete, Send, MarkWaiting, PollFinds, PollEnds, Remark, AfterSend,
                Guarding, PCs
  <2> QED
    BY <2>1, GotoKeepsType
<1>8. CASE Recheck(r) \/ EnsureQueueFront(r)
  <2>1. /\ req[r].pc \in Guarding
        /\ \/ \E pc \in PCs : Goto(r, pc)
           \/ \E answer \in Answers : Reply(r, answer)
    BY <1>8 DEF Recheck, EnsureQueueFront, Guarding, PCs, Answers
  <2> QED
    BY <2>1, GotoKeepsType, ReplyKeepsType
<1>9. CASE GetDetail(r)
  <2>1. GoodRequest(Over("detail", FALSE))
    BY OverIsGood DEF Answers
  <2> DEFINE q == Over("detail", FALSE)
  <2>2. GoodRequest(q) /\ req' = [req EXCEPT ![r] = q]
    BY <1>9, <2>1 DEF GetDetail
  <2> HIDE DEF q
  <2> QED
    BY <1>2, <2>2, OneRequest
<1> QED
  BY <1>5, <1>6, <1>7, <1>8, <1>9 DEF Step

LEMMA GateTypeStep ==
  ASSUME TypeOK, GateTypeOK, [GateNext]_allVars
  PROVE  GateTypeOK'
<1> USE DEF At
<1>1. RequestsTyped /\ FateTyped /\ late \subseteq LateSends /\ mishaps \in 0..MaxMishaps
  BY TypeParts
<1>2. req \in [Requests -> RequestType]
  BY <1>1 DEF RequestsTyped
<1> DEFINE Parts == /\ RequestsTyped' /\ FateTyped' /\ late' \subseteq LateSends
                    /\ mishaps' \in 0..MaxMishaps
<1>3. SUFFICES Parts
  BY DEF GateTypeOK, RequestsTyped, FateTyped, RequestType, LateSends
<1>4. UNCHANGED req => RequestsTyped'
  BY <1>1 DEF RequestsTyped
<1>5. ASSUME NEW r \in Requests, NEW w \in Users \cup {NoUser}, Arrive(r, w)
      PROVE  Parts
  <2> DEFINE full == Cardinality(Members(zset)) >= Threshold
             owed == Owed(w)
             q == [pc |-> IF w = NoUser THEN "detail" ELSE "rank", user |-> w,
                   full |-> full, ranked |-> FALSE, seen |-> "none",
                   owed |-> owed, answer |-> "none"]
  <2>1. req' = [req EXCEPT ![r] = IF w = NoUser /\ full THEN Over("400", FALSE) ELSE q]
    BY <1>5 DEF Arrive
  <2>2. full \in BOOLEAN /\ owed \in BOOLEAN
    BY DEF Owed
  <2> HIDE DEF full, owed
  <2>3. GoodRequest(q)
    BY <2>2, GateConstants DEF GoodRequest, RequestType, PCs, GateStates, Answers
  <2>4. GoodRequest(Over("400", FALSE))
    BY OverIsGood DEF Answers
  <2> HIDE DEF q
  <2>5. GoodRequest(req'[r]) /\ req' = [req EXCEPT ![r] = req'[r]]
    BY <1>2, <2>1, <2>3, <2>4
  <2> QED
    BY <1>1, <1>5, <2>5, OneRequest DEF Arrive, Reads, FateTyped
<1>6. ASSUME NEW r \in Requests, Step(r) PROVE Parts
  BY <1>6, StepType DEF GateTypeOK, RequestsTyped, FateTyped, RequestType, LateSends
<1>7. ASSUME NEW r \in Requests, StepFails(r) PROVE Parts
  <2>1. \E answer \in Answers : Reply(r, answer)
    BY <1>7 DEF StepFails, RedisFails, DeleteReplyLost, SendTimesOut, DetailFails, Answers
  <2>2. RequestsTyped'
    BY <2>1, ReplyKeepsType
  <2>3. SendTimesOut(r) => <<User(r), mishaps'>> \in LateSends
    BY <1>1, GateConstants, GuardHasUser DEF SendTimesOut, Mishap, Guarding, LateSends
  <2>4. FateTyped' /\ late' \subseteq LateSends /\ mishaps' \in 0..MaxMishaps
    BY <1>1, <1>7, <2>3, GateConstants
    DEF StepFails, RedisFails, DeleteReplyLost, SendTimesOut, DetailFails, Mishap, FateTyped
  <2> QED
    BY <2>2, <2>4
<1>8. CASE \/ \E send \in late : LateDelivery(send)
           \/ \E w \in Users : Expire(w) \/ Enqueue(w)
  BY <1>1, <1>4, <1>8, GateConstants
  DEF LateDelivery, Expire, Enqueue, Sends, Mishap, FateTyped
<1>9. CASE ConsumerRuns
  BY <1>1, <1>4, <1>9 DEF ConsumerRuns, FateTyped
<1>10. CASE Shutdown
  BY <1>1, <1>4, <1>10 DEF Shutdown, gateVars, FateTyped
<1>11. CASE Death
  <2> DEFINE q == Over("none", FALSE)
  <2>1. GoodRequest(q) /\ req' = [r \in Requests |-> IF At(r, "idle") THEN req[r] ELSE q]
    BY <1>11, OverIsGood DEF Death, Answers
  <2> HIDE DEF q
  <2>2. RequestsTyped'
    BY <1>1, <2>1 DEF RequestsTyped, GoodRequest
  <2> QED
    BY <1>1, <1>11, <2>2 DEF Death, FateTyped
<1>12. CASE UNCHANGED allVars
  BY <1>1, <1>4, <1>12 DEF allVars, gateVars, FateTyped
<1> QED
  BY <1>5, <1>6, <1>7, <1>8, <1>9, <1>10, <1>11, <1>12 DEF GateNext

-----------------------------------------------------------------------------
(* What a step does to the queue *)

(* Every command of the guard leaves what the consumer sees alone, sends a record
   of a user, writes "waiting" for a user, or deletes the user's mark. *)
LEMMA GateStepSimulates == GateTypeOK /\ [GateNext]_allVars => [Next]_vars
<1> SUFFICES ASSUME GateTypeOK, [GateNext]_allVars PROVE [Next]_vars
  OBVIOUS
<1>1. ASSUME NEW w \in Users, Produce(w) PROVE Next
  BY <1>1 DEF Next, Environment
<1>2. ASSUME NEW w \in Users, NEW m \in {"none", "waiting"}, WriteGate(w, m) PROVE Next
  BY <1>2 DEF Next, Environment
<1>3. ASSUME NEW r \in Requests, Step(r) PROVE [Next]_vars
  <2>1. CASE ReadRank(r) \/ ReadState(r) \/ PollFinds(r) \/ PollEnds(r) \/ Recheck(r)
             \/ EnsureQueueFront(r) \/ GetDetail(r)
    BY <2>1 DEF ReadRank, ReadState, PollFinds, PollEnds, Recheck, EnsureQueueFront,
                GetDetail, Reads
  <2>2. CASE Send(r)
    <3>1. User(r) \in Users
      BY <2>2, GuardHasUser DEF Send, At, Guarding
    <3>2. Produce(User(r))
      BY <2>2 DEF Send, Sends
    <3> QED
      BY <3>1, <3>2 DEF Next, Environment, Produce
  <2>3. CASE Delete(r)
    <3>1. User(r) \in Users
      BY <2>3, GuardHasUser DEF Delete, At, Guarding
    <3>2. WriteGate(User(r), "none")
      BY <2>3 DEF Delete, Writes
    <3> QED
      BY <3>1, <3>2 DEF Next, Environment, WriteGate
  <2>4. CASE MarkWaiting(r) \/ Remark(r)
    <3>1. User(r) \in Users
      BY <2>4, GuardHasUser DEF MarkWaiting, Remark, At, Guarding
    <3>2. WriteGate(User(r), "waiting")
      BY <2>4 DEF MarkWaiting, Remark, Writes
    <3> QED
      BY <3>1, <3>2 DEF Next, Environment, WriteGate
  <2> QED
    BY <1>3, <2>1, <2>2, <2>3, <2>4 DEF Step
<1>4. ASSUME NEW r \in Requests, StepFails(r) PROVE [Next]_vars
  <2>1. CASE RedisFails(r) \/ SendTimesOut(r) \/ DetailFails(r)
    BY <2>1 DEF RedisFails, SendTimesOut, DetailFails
  <2>2. CASE DeleteReplyLost(r)
    <3>1. User(r) \in Users
      BY <2>2, GuardHasUser DEF DeleteReplyLost, At, Guarding
    <3>2. WriteGate(User(r), "none")
      BY <2>2 DEF DeleteReplyLost
    <3> QED
      BY <3>1, <3>2 DEF Next, Environment, WriteGate
  <2> QED
    BY <1>4, <2>1, <2>2 DEF StepFails
<1>5. ASSUME NEW r \in Requests, NEW w \in Users \cup {NoUser}, Arrive(r, w)
      PROVE  [Next]_vars
  BY <1>5 DEF Arrive, Reads
<1>6. CASE \/ \E send \in late : LateDelivery(send)
           \/ \E w \in Users : Expire(w) \/ Enqueue(w)
  <2>1. \A send \in late : send[1] \in Users
    BY DEF GateTypeOK
  <2> QED
    BY <1>1, <1>2, <1>6, <2>1 DEF LateDelivery, Expire, Enqueue, Sends
<1>7. CASE ConsumerRuns
  BY <1>7 DEF ConsumerRuns, Next, Consumer, Dequeue, Failure
<1>8. CASE Shutdown \/ Death
  BY <1>8 DEF Shutdown, Death, Next, Consumer, Failure
<1>9. CASE UNCHANGED allVars
  BY <1>9 DEF allVars
<1> QED
  BY <1>3, <1>4, <1>5, <1>6, <1>7, <1>8, <1>9 DEF GateNext

LEMMA GateInvariant == GateSpec => [](TypeOK /\ GateTypeOK)
<1>1. TypeOK /\ GateTypeOK /\ [GateNext]_allVars => (TypeOK /\ GateTypeOK)'
  BY GateTypeStep, GateStepSimulates, TypeStep
<1> QED
  BY <1>1, GateTypeInit, PTL DEF GateSpec

(* The requests keep their types; in particular the guard of a request only ever
   works on behalf of a user (concert_router.py:49-53). *)
THEOREM GateTypeCorrect == GateSpec => []GateTypeOK
BY GateInvariant, PTL

(* The gate never does to the queue what QueueConsumer does not allow for: it
   sends records and writes or deletes gate marks, nothing else. *)
THEOREM GateImplementsConsumer == GateSpec => ImplementsConsumer
<1>1. GateInit => Init
  BY DEF GateInit
<1> QED
  BY <1>1, GateInvariant, GateStepSimulates, PTL
  DEF GateSpec, Spec, ImplementsConsumer

(* So the queue stays first come, first served with the gate in front of it, and
   loses no ticket. *)
THEOREM GateKeepsOrder ==
  GateSpec => [](ScoreIsOffset /\ LatestTicket /\ FifoRelease /\ TicketsAccounted)
<1>1. Spec => [](ScoreIsOffset /\ LatestTicket /\ FifoRelease /\ TicketsAccounted)
  BY FirstComeFirstServed, NoTicketVanishes, PTL
<1> QED
  BY <1>1, GateImplementsConsumer, PTL DEF ImplementsConsumer

(* And the queue is a fair line with the gate in front of it, whatever befalls the
   requests, as long as no crash makes Kafka redeliver (queue_consumer.py:53-56, 75-82). *)
THEOREM GateKeepsLine ==
  ASSUME "crash" \notin FaultKinds
  PROVE  GateSpec => ImplementsFairLine
<1>1. Spec => ImplementsFairLine
  BY QueueIsFairLine
<1> QED
  BY <1>1, GateImplementsConsumer, PTL DEF ImplementsConsumer

-----------------------------------------------------------------------------
(* A request ends: what of RequestsAnswered is safety *)

\* How many awaits a request is from its answer, at most.
Distance(pc) ==
  CASE pc = "idle" -> 0
    [] pc = "detail" -> 1
    [] pc \in {"front", "delete"} -> 2
    [] pc \in {"remark", "recheck"} -> 3
    [] pc = "poll" -> 4
    [] pc = "mark" -> 5
    [] pc = "send" -> 6
    [] pc = "state" -> 7
    [] pc = "rank" -> 8

Descends(r) == req'[r] = req[r] \/ Distance(req'[r].pc) < Distance(req[r].pc)

(* A request in progress is never sent back to an earlier command: a step leaves it as it
   is or brings it nearer to its answer (concert_router.py:37-97). *)
RequestsDescend == [][\A r \in Requests : ~ At(r, "idle") => Descends(r)]_allVars

LEMMA Distances ==
  /\ Distance("idle") = 0 /\ Distance("detail") = 1 /\ Distance("front") = 2
  /\ Distance("delete") = 2 /\ Distance("remark") = 3 /\ Distance("recheck") = 3
  /\ Distance("poll") = 4 /\ Distance("mark") = 5 /\ Distance("send") = 6
  /\ Distance("state") = 7 /\ Distance("rank") = 8
BY DEF Distance

LEMMA OwnStepDescends ==
  ASSUME GateTypeOK, NEW r \in Requests, Step(r) \/ StepFails(r)
  PROVE  Distance(req'[r].pc) < Distance(req[r].pc) /\ req' = [req EXCEPT ![r] = req'[r]]
<1> USE DEF At
<1>1. req \in [Requests -> RequestType]
  BY DEF GateTypeOK, RequestType
<1>2. CASE StepFails(r) \/ GetDetail(r)
  <2>1. req' = [req EXCEPT ![r] = req'[r]] /\ req'[r].pc = "idle"
    BY <1>1, <1>2 DEF StepFails, RedisFails, DeleteReplyLost, SendTimesOut, DetailFails, GetDetail,
       Reply, Over
  <2>2. req[r].pc \in PCs \ {"idle"}
    BY <1>1, <1>2 DEF StepFails, RedisFails, DeleteReplyLost, SendTimesOut, DetailFails, GetDetail,
       RequestType
  <2> QED
    BY <2>1, <2>2, Distances DEF PCs
<1>3. CASE ReadRank(r)
  <2>1. req[r].pc = "rank" /\ req'[r].pc = "state" /\ req' = [req EXCEPT ![r] = req'[r]]
    BY <1>1, <1>3 DEF ReadRank, RequestType
  <2> QED
    BY <2>1, Distances
<1>4. CASE ReadState(r)
  <2>1. /\ req[r].pc = "state" /\ req' = [req EXCEPT ![r] = req'[r]]
        /\ req'[r].pc \in {"delete", "detail", "front", "send", "poll", "recheck"}
    BY <1>1, <1>4 DEF ReadState, AfterReads, RequestType
  <2> QED
    BY <2>1, Distances
<1>5. CASE \/ Delete(r) \/ Send(r) \/ MarkWaiting(r) \/ PollFinds(r) \/ PollEnds(r) \/ Remark(r)
           \/ Recheck(r) \/ EnsureQueueFront(r)
  <2>1. \/ \E pc \in PCs : Goto(r, pc) /\ Distance(pc) < Distance(req[r].pc)
        \/ \E answer \in Answers : Reply(r, answer) /\ Distance("idle") < Distance(req[r].pc)
    BY <1>5, Distances DEF Delete, Send, MarkWaiting, PollFinds, PollEnds, Remark, Recheck,
       EnsureQueueFront, AfterSend, PCs, Answers
  <2>2. CASE \E pc \in PCs : Goto(r, pc) /\ Distance(pc) < Distance(req[r].pc)
    <3>1. PICK pc \in PCs : /\ req' = [req EXCEPT ![r].pc = pc]
                            /\ Distance(pc) < Distance(req[r].pc)
      BY <2>2 DEF Goto
    <3>2. req'[r].pc = pc /\ req' = [req EXCEPT ![r] = req'[r]]
      BY <1>1, <3>1 DEF RequestType
    <3> QED
      BY <3>1, <3>2
  <2>3. CASE \E answer \in Answers : Reply(r, answer) /\ Distance("idle") < Distance(req[r].pc)
    <3>1. req'[r].pc = "idle" /\ req' = [req EXCEPT ![r] = req'[r]]
      BY <1>1, <2>3 DEF Reply, Over
    <3> QED
      BY <2>3, <3>1
  <2> QED
    BY <2>1, <2>2, <2>3
<1> QED
  BY <1>2, <1>3, <1>4, <1>5 DEF Step

(* Nothing sends a request back: whatever it finds, whatever fails and whatever the others
   do, each of its awaits brings it nearer to its answer, which is at most eight away
   (concert_router.py:37-97). *)
THEOREM RequestsComeCloser == GateSpec => RequestsDescend
<1>1. ASSUME GateTypeOK, [GateNext]_allVars, NEW r \in Requests, ~ At(r, "idle")
      PROVE  Descends(r)
  <2>1. req \in [Requests -> RequestType] /\ req[r].pc \in PCs \ {"idle"}
    BY <1>1 DEF GateTypeOK, RequestType, At
  <2>2. ASSUME NEW s \in Requests, Step(s) \/ StepFails(s) PROVE Descends(r)
    <3>1. Distance(req'[s].pc) < Distance(req[s].pc) /\ req' = [req EXCEPT ![s] = req'[s]]
      BY <1>1, <2>2, OwnStepDescends
    <3>2. r # s => req'[r] = req[r]
      BY <2>1, <3>1
    <3> QED
      BY <3>1, <3>2 DEF Descends
  <2>3. ASSUME NEW s \in Requests, NEW w \in Users \cup {NoUser}, Arrive(s, w) PROVE Descends(r)
    BY <1>1, <2>1, <2>3 DEF Arrive, At, Descends
  <2>4. CASE Death
    BY <2>1, <2>4, Distances DEF Death, At, Over, PCs, Descends
  <2>5. \/ UNCHANGED req \/ Death
        \/ \E s \in Requests : Step(s) \/ StepFails(s) \/ \E w \in Users \cup {NoUser} : Arrive(s, w)
    BY <1>1 DEF GateNext, LateDelivery, Expire, Enqueue, ConsumerRuns, Shutdown, allVars, gateVars
  <2> QED
    BY <2>2, <2>3, <2>4, <2>5 DEF Descends
<1>2. GateTypeOK /\ [GateNext]_allVars
      => [\A r \in Requests : ~ At(r, "idle") => Descends(r)]_allVars
  BY <1>1
<1> QED
  BY <1>2, GateInvariant, PTL DEF GateSpec, RequestsDescend

-----------------------------------------------------------------------------
(* No request is held up by the bound of the model *)

\* The requests that may still send a record.
Sending == {r \in Requests : req[r].pc \in {"rank", "state", "send"}}

\* Every record that may still be sent has its place in the partition.
RoomKept == Len(log) + Cardinality(late) + Cardinality(Sending) <= MaxRecords

(* A request about to send a record is not held up by the bound on the partition. *)
SendsHaveRoom == \A r \in Requests : At(r, "send") => Len(log) < MaxRecords

LEMMA RoomKeptStep ==
  ASSUME IsFiniteSet(Requests), TypeOK, GateTypeOK, RoomKept, [GateNext]_allVars
  PROVE  RoomKept'
<1>1. /\ IsFiniteSet(late) /\ IsFiniteSet(Sending) /\ Sending \subseteq Requests
      /\ log \in Seq(Users) /\ req \in [Requests -> RequestType]
      /\ Len(log) \in Nat /\ MaxRecords \in Nat
  BY LateFinite, FS_Subset, ConsumerConstants DEF Sending, TypeOK, GateTypeOK, RequestType
<1>2. Cardinality(late) \in Nat /\ Cardinality(Sending) \in Nat
  BY <1>1, FS_CardinalityType
<1>3. ASSUME log' = log, late' \subseteq late, Sending' \subseteq Sending PROVE RoomKept'
  <2>1. Cardinality(late') <= Cardinality(late) /\ Cardinality(Sending') <= Cardinality(Sending)
        /\ Cardinality(late') \in Nat /\ Cardinality(Sending') \in Nat
    BY <1>1, <1>3, FS_Subset, FS_CardinalityType
  <2> QED
    BY <1>1, <1>2, <1>3, <2>1 DEF RoomKept
<1>4. ASSUME NEW r \in Requests, req' = [req EXCEPT ![r] = req'[r]]
      PROVE  /\ Sending' \subseteq Sending \cup {r}
             /\ req'[r].pc \notin {"rank", "state", "send"} => Sending' = Sending \ {r}
  BY <1>1, <1>4 DEF Sending
<1>5. ASSUME NEW w, Produce(w) PROVE Len(log') = Len(log) + 1
  BY <1>1, <1>5 DEF Produce
<1>6. ASSUME NEW r \in Requests, Send(r) \/ SendTimesOut(r) PROVE RoomKept'
  <2>1. r \in Sending /\ req' = [req EXCEPT ![r] = req'[r]] /\ req'[r].pc \in {"mark", "idle"}
    BY <1>1, <1>6 DEF Send, SendTimesOut, At, Goto, Reply, Over, Sending, RequestType
  <2>2. Sending' = Sending \ {r}
    BY <1>4, <2>1
  <2>3. Cardinality(Sending') = Cardinality(Sending) - 1
    BY <1>1, <2>1, <2>2, FS_RemoveElement
  <2>4. CASE Send(r)
    BY <1>1, <1>2, <1>5, <2>3, <2>4 DEF Send, Sends, RoomKept
  <2>5. CASE SendTimesOut(r)
    <3>1. log' = log /\ late' = late \cup {<<User(r), mishaps'>>}
      BY <2>5 DEF SendTimesOut, vars, projector
    <3>2. Cardinality(late') \in {Cardinality(late), Cardinality(late) + 1}
      BY <1>1, <3>1, FS_AddElement
    <3> QED
      BY <1>1, <1>2, <2>3, <3>1, <3>2 DEF RoomKept
  <2> QED
    BY <1>6, <2>4, <2>5
<1>7. ASSUME NEW r \in Requests,
             \/ StepFails(r) /\ ~ SendTimesOut(r)
             \/ Step(r) /\ ~ Send(r)
      PROVE  RoomKept'
  <2>1. log' = log /\ late' = late
    BY <1>7 DEF Step, StepFails, ReadRank, ReadState, Delete, MarkWaiting, PollFinds, PollEnds,
       Remark, Recheck, EnsureQueueFront, GetDetail, RedisFails, DeleteReplyLost, DetailFails,
       Reads, Writes, WriteGate, vars, projector
  <2>2. req' = [req EXCEPT ![r] = req'[r]] /\ Distance(req'[r].pc) < Distance(req[r].pc)
    BY <1>7, OwnStepDescends
  <2>3. r \in Sending \/ req'[r].pc \notin {"rank", "state", "send"}
    BY <1>1, <2>2, Distances DEF Sending, RequestType, PCs
  <2>4. Sending' \subseteq Sending
    BY <1>4, <2>2, <2>3
  <2> QED
    BY <1>3, <2>1, <2>4
<1>8. ASSUME NEW r \in Requests, NEW w \in Users \cup {NoUser}, Arrive(r, w) PROVE RoomKept'
  <2>1. log' = log /\ late' = late /\ req' = [req EXCEPT ![r] = req'[r]]
    BY <1>1, <1>8 DEF Arrive, Reads, vars, projector
  <2>2. CASE w = NoUser
    <3>1. req'[r].pc \notin {"rank", "state", "send"}
      BY <1>1, <1>8, <2>2 DEF Arrive, Over
    <3> QED
      BY <1>3, <1>4, <2>1, <3>1
  <2>3. CASE w # NoUser
    <3>1. Len(log) + Cardinality(late) + Cardinality(Sending) < MaxRecords
      BY <1>8, <2>3 DEF Arrive, Room, Sending
    <3>2. /\ IsFiniteSet(Sending \cup {r})
          /\ Cardinality(Sending \cup {r}) \in {Cardinality(Sending), Cardinality(Sending) + 1}
      BY <1>1, FS_AddElement
    <3>3. Cardinality(Sending') <= Cardinality(Sending \cup {r}) /\ Cardinality(Sending') \in Nat
      BY <1>4, <2>1, <3>2, FS_Subset, FS_CardinalityType
    <3> QED
      BY <1>1, <1>2, <2>1, <3>1, <3>2, <3>3 DEF RoomKept
  <2> QED
    BY <2>2, <2>3
<1>9. ASSUME NEW send \in late, LateDelivery(send) PROVE RoomKept'
  <2>1. late' = late \ {send} /\ Sending' = Sending
    BY <1>9 DEF LateDelivery, Sending
  <2>2. Cardinality(late') = Cardinality(late) - 1
    BY <1>1, <2>1, FS_RemoveElement
  <2>3. Len(log') \in {Len(log), Len(log) + 1}
    BY <1>5, <1>9 DEF LateDelivery, vars, projector
  <2> QED
    BY <1>1, <1>2, <2>1, <2>2, <2>3 DEF RoomKept
<1>10. ASSUME NEW u \in Users, Enqueue(u) PROVE RoomKept'
  <2>1. Len(log') = Len(log) + 1 /\ late' = late /\ Sending' = Sending
    BY <1>5, <1>10 DEF Enqueue, Sends, Sending
  <2> QED
    BY <1>1, <1>2, <1>10, <2>1 DEF Enqueue, Room, Sending, RoomKept
<1>11. CASE ConsumerRuns \/ Shutdown \/ Death \/ (\E u \in Users : Expire(u)) \/ UNCHANGED allVars
  <2>1. log' = log /\ late' = late
    BY <1>11 DEF ConsumerRuns, Shutdown, Death, Expire, allVars, gateVars, Start, StartFails,
       DequeuerDies, AutoCommit, Consume, Fetch, Add, Publish, Pop, Mark, PublishRelease,
       AddFails, PopFails, MarkFails, Stop, LoopRaises, Crash, Halt, WriteGate, vars, projector
  <2>2. req' = req \/ Death
    BY <1>11 DEF ConsumerRuns, Shutdown, Expire, allVars, gateVars
  <2>3. Sending' \subseteq Sending
    BY <2>2 DEF Death, Over, At, Sending
  <2> QED
    BY <1>3, <2>1, <2>3
<1> QED
  BY <1>6, <1>7, <1>8, <1>9, <1>10, <1>11 DEF GateNext

(* The bound on the partition holds up no request: one that is about to send finds
   room.  It is the only step of a request with a guard besides its place, so with
   RequestsComeCloser every request in progress has a step to take that brings it
   nearer to its answer; what is left of RequestsAnswered is the fairness of the loop. *)
THEOREM BoundHoldsUpNobody ==
  ASSUME IsFiniteSet(Requests)
  PROVE  GateSpec => []SendsHaveRoom
<1>1. GateInit => RoomKept
  <2> SUFFICES ASSUME GateInit PROVE RoomKept
    OBVIOUS
  <2>1. Len(log) = 0 /\ late = {} /\ Sending = {}
    BY DEF GateInit, Init, Sending, Over
  <2> QED
    BY <2>1, FS_EmptySet, ConsumerConstants DEF RoomKept
<1>2. TypeOK /\ GateTypeOK /\ RoomKept /\ [GateNext]_allVars => RoomKept'
  BY RoomKeptStep
<1>3. TypeOK /\ GateTypeOK /\ RoomKept => SendsHaveRoom
  <2> SUFFICES ASSUME TypeOK, GateTypeOK, RoomKept, NEW r \in Requests, At(r, "send")
               PROVE  Len(log) < MaxRecords
    BY DEF SendsHaveRoom
  <2>1. r \in Sending /\ IsFiniteSet(Sending) /\ IsFiniteSet(late)
    BY LateFinite, FS_Subset DEF Sending, At
  <2>2. Cardinality(Sending) \in Nat /\ Cardinality(Sending) # 0 /\ Cardinality(late) \in Nat
    BY <2>1, FS_CardinalityType, FS_EmptySet
  <2> QED
    BY <2>2, ConsumerConstants DEF RoomKept, TypeOK
<1> QED
  BY <1>1, <1>2, <1>3, GateInvariant, PTL DEF GateSpec
==============================================================================
