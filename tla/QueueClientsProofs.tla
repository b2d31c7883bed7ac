--------------------------- MODULE QueueClientsProofs ---------------------------
(***************************************************************************)
(* Streams and enqueue requests against the consumer, for any number of     *)
(* them and of users: they do nothing to the queue but send records, a      *)
(* stream is never stale without a reason, and the rank of an accepted      *)
(* request is that of its record.                                          *)
(***************************************************************************)
EXTENDS QueueClients, QueueConsumerProofs

-----------------------------------------------------------------------------
(* Types *)

StreamType ==
  [pc : StreamPCs, user : Users, rank : Nat, shown : Nat \X Nat,
   subscribed : BOOLEAN, inbox : Nat, missed : BOOLEAN]

StreamsTyped ==
  /\ stream \in [Streams -> StreamType]
  /\ \A s \in Streams : stream[s].inbox > 0 => stream[s].subscribed

CallType(n) ==
  [pc : CallPCs, user : Users, ticket : 0..n, place : 0..n, before : BOOLEAN]

CallsTyped == call \in [Calls -> CallType(Len(log))]

LEMMA TypeParts ==
  ClientTypeOK <=> StreamsTyped /\ CallsTyped /\ mishaps \in 0..MaxMishaps
BY DEF ClientTypeOK, StreamsTyped, StreamType, CallsTyped, CallType

LEMMA Blanks ==
  /\ Somebody \in Users
  /\ \A u \in Users : Closed(u) \in StreamType /\ ~ Closed(u).inbox > 0
  /\ \A u \in Users, n \in Nat : Called(u) \in CallType(n)
<1>1. Somebody \in Users
  BY ClientConstants DEF Somebody
<1> QED
  BY <1>1 DEF Closed, StreamType, StreamPCs, Called, CallType, CallPCs

(* ZRANK and ZCARD are numbers. *)
LEMMA ViewType == Total \in Nat /\ \A u \in Users : RankOf(u) \in Nat
<1>1. \A S \in SUBSET Users : Cardinality(S) \in Nat
  BY UsersFinite, FS_Subset, FS_CardinalityType
<1>2. Members(zset) \subseteq Users /\ \A u \in Users : Ahead(zset, u) \subseteq Users
  BY DEF Members, Ahead
<1> QED
  BY <1>1, <1>2 DEF Total, RankOf, Rank

LEMMA ClientTypeInit == ClientInit => TypeOK /\ ClientTypeOK
<1> SUFFICES ASSUME ClientInit PROVE TypeOK /\ ClientTypeOK
  OBVIOUS
<1>1. TypeOK /\ Len(log) \in Nat
  BY TypeInit DEF ClientInit, TypeOK
<1>2. StreamsTyped
  BY Blanks DEF ClientInit, StreamsTyped
<1>3. CallsTyped
  BY <1>1, Blanks DEF ClientInit, CallsTyped
<1> QED
  BY <1>1, <1>2, <1>3, TypeParts, ClientConstants DEF ClientInit

(* The partition only grows, so what was an offset stays one. *)
LEMMA CallsStayTyped ==
  ASSUME TypeOK, CallsTyped, call' = call, Len(log') \in Nat, Len(log) <= Len(log')
  PROVE  CallsTyped'
<1>1. CallType(Len(log)) \subseteq CallType(Len(log'))
  BY DEF CallType, TypeOK
<1> QED
  BY <1>1 DEF CallsTyped

LEMMA OneStream ==
  ASSUME StreamsTyped, NEW s \in Streams, NEW q \in StreamType,
         q.inbox > 0 => q.subscribed, stream' = [stream EXCEPT ![s] = q]
  PROVE  StreamsTyped'
BY DEF StreamsTyped

LEMMA StreamStepType ==
  ASSUME StreamsTyped, NEW s \in Streams,
         \/ StreamStep(s) \/ Close(s) \/ StreamFails(s)
         \/ \E u \in Watchers : Open(s, u)
  PROVE  StreamsTyped'
<1>1. stream[s] \in StreamType /\ (stream[s].inbox > 0 => stream[s].subscribed)
  BY DEF StreamsTyped
<1>2. ASSUME NEW u \in Watchers, Open(s, u) PROVE StreamsTyped'
  <2> DEFINE k == Closed(u)
             q == [k EXCEPT !.pc = "rank"]
  <2>1. k \in StreamType /\ ~ k.inbox > 0
    BY ClientConstants, Blanks
  <2>2. stream' = [stream EXCEPT ![s] = q]
    BY <1>2 DEF Open
  <2> HIDE DEF k
  <2>3. q \in StreamType /\ ~ q.inbox > 0
    BY <2>1 DEF StreamType, StreamPCs
  <2> QED
    BY <2>2, <2>3, OneStream
<1>3. CASE ReadRank(s)
  <2> DEFINE n == RankOf(stream[s].user)
             q == [stream[s] EXCEPT !.pc = "total", !.rank = n, !.missed = FALSE]
  <2>1. n \in Nat
    BY <1>1, ViewType DEF StreamType
  <2>2. stream' = [stream EXCEPT ![s] = q]
    BY <1>3 DEF ReadRank
  <2> HIDE DEF n
  <2>3. q \in StreamType /\ (q.inbox > 0 => q.subscribed)
    BY <1>1, <2>1 DEF StreamType, StreamPCs
  <2> QED
    BY <2>2, <2>3, OneStream
<1>4. CASE ReadTotal(s)
  <2> DEFINE pc == IF stream[s].subscribed THEN "listen" ELSE "subscribe"
             v == <<stream[s].rank, Total>>
             q == [stream[s] EXCEPT !.pc = pc, !.rank = 0, !.shown = v]
  <2>1. v \in Nat \X Nat /\ pc \in StreamPCs
    BY <1>1, ViewType DEF StreamType, StreamPCs
  <2>2. stream' = [stream EXCEPT ![s] = q]
    BY <1>4 DEF ReadTotal
  <2> HIDE DEF v, pc
  <2>3. q \in StreamType /\ (q.inbox > 0 => q.subscribed)
    BY <1>1, <2>1 DEF StreamType
  <2> QED
    BY <2>2, <2>3, OneStream
<1>5. CASE Subscribe(s)
  <2> DEFINE q == [stream[s] EXCEPT !.pc = "listen", !.subscribed = TRUE]
  <2>1. q \in StreamType /\ q.subscribed
    BY <1>1 DEF StreamType, StreamPCs
  <2> QED
    BY <1>5, <2>1, OneStream DEF Subscribe
<1>6. CASE Wake(s)
  <2> DEFINE n == stream[s].inbox - 1
             q == [stream[s] EXCEPT !.pc = "rank", !.inbox = n]
  <2>1. stream' = [stream EXCEPT ![s] = q]
    BY <1>6 DEF Wake
  <2>2. stream[s].inbox \in Nat /\ stream[s].inbox > 0
    BY <1>1, <1>6 DEF Wake, StreamType
  <2>3. n \in Nat /\ stream[s].subscribed
    BY <1>1, <2>2
  <2> HIDE DEF n
  <2>4. q \in StreamType /\ q.subscribed
    BY <1>1, <2>3 DEF StreamType, StreamPCs
  <2> QED
    BY <2>1, <2>4, OneStream
<1>7. CASE Close(s) \/ StreamFails(s)
  BY <1>7, Blanks, OneStream DEF Close, StreamFails
<1> QED
  BY <1>2, <1>3, <1>4, <1>5, <1>6, <1>7 DEF StreamStep

LEMMA CallStepType ==
  ASSUME TypeOK, CallsTyped, NEW c \in Calls,
         \/ CallStep(c) \/ SendFails(c) \/ CallFails(c)
         \/ \E u \in Callers : Enqueue(c, u)
  PROVE  CallsTyped'
<1>1. /\ Len(log) \in Nat /\ zset \in [Users -> 0..Len(log)]
      /\ call \in [Calls -> CallType(Len(log))] /\ call[c] \in CallType(Len(log))
  BY DEF TypeOK, CallsTyped
<1>2. ASSUME NEW q \in CallType(Len(log)), call' = [call EXCEPT ![c] = q], log' = log
      PROVE  CallsTyped'
  BY <1>1, <1>2 DEF CallsTyped
<1>3. ASSUME NEW u \in Callers, Enqueue(c, u) PROVE CallsTyped'
  <2> DEFINE k == Called(u)
             q == [k EXCEPT !.pc = "send"]
  <2>1. k \in CallType(Len(log))
    BY <1>1, ClientConstants, Blanks
  <2>2. call' = [call EXCEPT ![c] = q] /\ log' = log
    BY <1>3 DEF Enqueue, vars, projector
  <2> HIDE DEF k
  <2>3. q \in CallType(Len(log))
    BY <2>1 DEF CallType, CallPCs
  <2> QED
    BY <1>2, <2>2, <2>3
<1>4. CASE Send(c)
  <2> DEFINE t == Len(log) + 1
             b == InLine(call[c].user)
             q == [call[c] EXCEPT !.pc = "poll", !.ticket = t, !.before = b]
  <2>1. call' = [call EXCEPT ![c] = q]
    BY <1>4 DEF Send
  <2>2. b \in BOOLEAN
    BY DEF InLine
  <2>3. Len(log') = t
    BY <1>4 DEF Send, Produce, TypeOK
  <2>4. CallType(Len(log)) \subseteq CallType(t) /\ t \in 0..t
    BY <1>1 DEF CallType
  <2>5. call[c] \in CallType(t)
    BY <1>1, <2>4
  <2> HIDE DEF b, t
  <2>6. q \in CallType(t)
    BY <2>2, <2>4, <2>5 DEF CallType, CallPCs
  <2> QED
    BY <1>1, <2>1, <2>3, <2>4, <2>6 DEF CallsTyped
<1>5. CASE PollFinds(c)
  <2> DEFINE p == zset[call[c].user]
  <2>1. p \in 0..Len(log)
    BY <1>1 DEF CallType
  <2> HIDE DEF p
  <2>2. [call[c] EXCEPT !.pc = "total", !.place = p] \in CallType(Len(log))
    BY <1>1, <2>1 DEF CallType, CallPCs
  <2> QED
    BY <1>2, <1>5, <2>2 DEF PollFinds, vars, projector, p
<1>6. CASE PollEnds(c)
  <2>1. [call[c] EXCEPT !.pc = "estimate"] \in CallType(Len(log))
    BY <1>1 DEF CallType, CallPCs
  <2> QED
    BY <1>2, <1>6, <2>1 DEF PollEnds, vars, projector
<1>7. CASE Accept(c) \/ SendFails(c) \/ CallFails(c)
  BY <1>1, <1>2, <1>7, Blanks DEF Accept, SendFails, CallFails, vars, projector
<1> QED
  BY <1>3, <1>4, <1>5, <1>6, <1>7 DEF CallStep

(* What the messages of the consumer do to the streams. *)
LEMMA MessagesType ==
  ASSUME StreamsTyped, stream' \in {stream, Announced, Unannounced}
  PROVE  StreamsTyped'
<1> SUFFICES ASSUME stream' \in {Announced, Unannounced} PROVE StreamsTyped'
  BY DEF StreamsTyped
<1>1. ASSUME NEW s \in Streams
      PROVE  stream'[s] \in StreamType /\ (stream'[s].inbox > 0 => stream'[s].subscribed)
  <2>1. stream[s] \in StreamType /\ (stream[s].inbox > 0 => stream[s].subscribed)
    BY DEF StreamsTyped
  <2>2. CASE stream' = Announced /\ stream[s].subscribed
    <3>1. stream'[s] = [stream[s] EXCEPT !.inbox = @ + 1]
      BY <2>2 DEF Announced
    <3> QED
      BY <2>1, <2>2, <3>1 DEF StreamType
  <2>3. CASE stream' = Unannounced \/ ~ stream[s].subscribed
    <3> DEFINE m == stream[s].pc # "idle"
    <3>1. stream'[s] = [stream[s] EXCEPT !.missed = m] /\ m \in BOOLEAN
      BY <2>3 DEF Announced, Unannounced
    <3> HIDE DEF m
    <3> QED
      BY <2>1, <3>1 DEF StreamType
  <2> QED
    BY <2>2, <2>3
<1>2. stream' = [s \in Streams |-> stream'[s]]
  BY DEF Announced, Unannounced
<1> QED
  BY <1>1, <1>2 DEF StreamsTyped

(* The consumer sends no record. *)
LEMMA ConsumerKeepsLog == Consumer => log' = log
BY DEF Consumer, Start, StartFails, DequeuerDies, AutoCommit, Consume, Dequeue, Failure,
       Fetch, Add, AddFails, Publish, Pop, PopFails, Mark, MarkFails, PublishRelease, Stop,
       LoopRaises, Crash, Halt, projector

LEMMA ClientTypeStep ==
  ASSUME TypeOK, TypeOK', ClientTypeOK, [ClientNext]_allVars
  PROVE  ClientTypeOK'
<1>1. StreamsTyped /\ CallsTyped /\ mishaps \in 0..MaxMishaps
  BY TypeParts
<1> DEFINE Parts == StreamsTyped' /\ CallsTyped' /\ mishaps' \in 0..MaxMishaps
<1>2. SUFFICES Parts
  BY DEF ClientTypeOK, StreamsTyped, StreamType, CallsTyped, CallType
<1>3. UNCHANGED stream => StreamsTyped'
  BY <1>1 DEF StreamsTyped
<1>4. UNCHANGED <<log, call>> => CallsTyped'
  BY <1>1 DEF CallsTyped
<1>5. ASSUME NEW kind, Mishap(kind) PROVE mishaps' \in 0..MaxMishaps
  BY <1>1, <1>5, ClientConstants DEF Mishap
<1>6. ASSUME NEW s \in Streams,
             \/ StreamStep(s) \/ Close(s) \/ StreamFails(s)
             \/ \E u \in Watchers : Open(s, u)
      PROVE  Parts
  <2>1. StreamsTyped'
    BY <1>1, <1>6, StreamStepType
  <2>2. UNCHANGED <<log, call>>
    BY <1>6 DEF StreamStep, ReadRank, ReadTotal, Subscribe, Wake, Close, StreamFails, Open,
                vars, projector
  <2>3. mishaps' \in 0..MaxMishaps
    BY <1>1, <1>5, <1>6 DEF StreamStep, ReadRank, ReadTotal, Subscribe, Wake, Close,
                            StreamFails, Open
  <2> QED
    BY <1>4, <2>1, <2>2, <2>3
<1>7. ASSUME NEW c \in Calls,
             \/ CallStep(c) \/ SendFails(c) \/ CallFails(c)
             \/ \E u \in Callers : Enqueue(c, u)
      PROVE  Parts
  <2>1. CallsTyped'
    BY <1>1, <1>7, CallStepType
  <2>2. UNCHANGED stream
    BY <1>7 DEF CallStep, Send, PollFinds, PollEnds, Accept, SendFails, CallFails, Enqueue
  <2>3. mishaps' \in 0..MaxMishaps
    BY <1>1, <1>5, <1>7 DEF CallStep, Send, PollFinds, PollEnds, Accept, SendFails,
                            CallFails, Enqueue
  <2> QED
    BY <1>3, <2>1, <2>2, <2>3
<1>8. ASSUME NEW u \in Users, Others(u) PROVE Parts
  <2>1. UNCHANGED <<stream, call, mishaps>> /\ log' = Append(log, u)
    BY <1>8 DEF Others, Produce, clientVars
  <2>2. Len(log') = Len(log) + 1 /\ Len(log) \in Nat
    BY <2>1 DEF TypeOK
  <2> QED
    BY <1>1, <1>3, <2>1, <2>2, CallsStayTyped
<1>9. CASE ConsumerSilent \/ ConsumerPublishes \/ PublishFails
  <2>1. Consumer
    BY <1>9 DEF ConsumerSilent, ConsumerPublishes, PublishFails, Consumer, Consume, Dequeue,
                Failure
  <2>2. stream' \in {stream, Announced, Unannounced} /\ UNCHANGED call
    BY <1>9 DEF ConsumerSilent, ConsumerPublishes, PublishFails
  <2>3. mishaps' \in 0..MaxMishaps
    BY <1>1, <1>5, <1>9 DEF ConsumerSilent, ConsumerPublishes, PublishFails
  <2> QED
    BY <1>1, <1>4, <2>1, <2>2, <2>3, ConsumerKeepsLog, MessagesType
<1>10. CASE Shutdown
  BY <1>1, <1>3, <1>4, <1>10, ConsumerKeepsLog DEF Shutdown, clientVars, Consumer, Failure
<1>11. CASE Death
  <2>1. StreamsTyped'
    BY <1>11, Blanks DEF Death, StreamsTyped
  <2>2. Len(log') \in Nat
    BY DEF TypeOK
  <2>3. CallsTyped'
    BY <1>11, <2>2, Blanks DEF Death, CallsTyped
  <2> QED
    BY <1>1, <1>11, <2>1, <2>3 DEF Death
<1>12. CASE UNCHANGED allVars
  BY <1>1, <1>3, <1>4, <1>12 DEF allVars, clientVars, vars, projector
<1> QED
  BY <1>6, <1>7, <1>8, <1>9, <1>10, <1>11, <1>12 DEF ClientNext

-----------------------------------------------------------------------------
(* What a step does to the queue *)

LEMMA ClientStepSimulates == ClientTypeOK /\ [ClientNext]_allVars => [Next]_vars
<1> SUFFICES ASSUME ClientTypeOK, [ClientNext]_allVars PROVE [Next]_vars
  OBVIOUS
<1>1. ASSUME NEW s \in Streams,
             \/ StreamStep(s) \/ Close(s) \/ StreamFails(s)
             \/ \E u \in Watchers : Open(s, u)
      PROVE  UNCHANGED vars
  BY <1>1 DEF StreamStep, ReadRank, ReadTotal, Subscribe, Wake, Close, StreamFails, Open
<1>2. ASSUME NEW c \in Calls,
             \/ CallStep(c) \/ SendFails(c) \/ CallFails(c)
             \/ \E u \in Callers : Enqueue(c, u)
      PROVE  [Next]_vars
  <2>1. CASE Send(c)
    <3>1. call[c].user \in Users
      BY DEF ClientTypeOK
    <3>2. Produce(call[c].user)
      BY <2>1 DEF Send
    <3> QED
      BY <3>1, <3>2 DEF Next, Environment, Produce
  <2>2. CASE ~ Send(c)
    BY <1>2, <2>2 DEF CallStep, PollFinds, PollEnds, Accept, SendFails, CallFails, Enqueue
  <2> QED
    BY <2>1, <2>2
<1>3. ASSUME NEW u \in Users, Others(u) PROVE Next
  BY <1>3 DEF Others, Next, Environment
<1>4. CASE ConsumerSilent \/ ConsumerPublishes \/ PublishFails
  BY <1>4 DEF ConsumerSilent, ConsumerPublishes, PublishFails, Next, Consumer, Consume,
              Dequeue, Failure
<1>5. CASE Shutdown \/ Death
  BY <1>5 DEF Shutdown, Death, Next, Consumer, Failure
<1>6. CASE UNCHANGED allVars
  BY <1>6 DEF allVars
<1> QED
  BY <1>1, <1>2, <1>3, <1>4, <1>5, <1>6 DEF ClientNext

LEMMA ClientTypes == ClientSpec => [](TypeOK /\ ClientTypeOK)
<1>1. TypeOK /\ ClientTypeOK /\ [ClientNext]_allVars => (TypeOK /\ ClientTypeOK)'
  BY ClientTypeStep, ClientStepSimulates, TypeStep
<1> QED
  BY <1>1, ClientTypeInit, PTL DEF ClientSpec

(* Streams and requests keep their types: a stream has messages only while it is
   subscribed, and no request reports a place that is not an offset
   (sse_router.py:33-51, queue_router.py:27-61). *)
THEOREM ClientTypeCorrect == ClientSpec => []ClientTypeOK
BY ClientTypes, PTL

(* The clients do nothing to the queue that QueueConsumer does not allow for. *)
THEOREM ClientsImplementConsumer == ClientSpec => ImplementsConsumer
<1>1. ClientInit => Init
  BY DEF ClientInit
<1> QED
  BY <1>1, ClientTypes, ClientStepSimulates, PTL DEF ClientSpec, Spec, ImplementsConsumer

-----------------------------------------------------------------------------
(* Streams are told *)

(* What a stream knows between two of its awaits.  What it has read is still so, or
   it will be told: by a message in its inbox, or by the PUBLISH that is due.  A
   stream that is not subscribed has no inbox; there a message is missed. *)
Informed(s) ==
  /\ stream[s].pc = "listen" => stream[s].subscribed
  /\ stream[s].pc \in {"idle", "subscribe"} => ~ stream[s].subscribed
  /\ stream[s].pc \in {"subscribe", "listen"} =>
       \/ stream[s].shown = View(stream[s].user)
       \/ stream[s].inbox > 0 \/ stream[s].missed \/ AnnouncementDue
  /\ stream[s].pc = "total" =>
       \/ stream[s].rank = RankOf(stream[s].user)
       \/ stream[s].inbox > 0 \/ stream[s].missed \/ AnnouncementDue

AllInformed == \A s \in Streams : Informed(s)

LEMMA InformedInit == ClientInit => AllInformed
BY DEF ClientInit, AllInformed, Informed, Closed

(* A stream that a step leaves alone stays informed if the queue is as it was, or
   the change will be announced. *)
LEMMA InformedKept ==
  ASSUME NEW s \in Streams, Informed(s), stream'[s] = stream[s],
         \/ zset' = zset /\ (AnnouncementDue => AnnouncementDue')
         \/ AnnouncementDue'
  PROVE  Informed(s)'
BY DEF Informed, View, RankOf, Total, Rank, Ahead, Members

LEMMA InformedOwnStep ==
  ASSUME StreamsTyped, AllInformed, NEW s \in Streams,
         \/ StreamStep(s) \/ Close(s) \/ StreamFails(s)
         \/ \E u \in Watchers : Open(s, u)
  PROVE  AllInformed'
<1>1. UNCHANGED vars
  BY DEF StreamStep, ReadRank, ReadTotal, Subscribe, Wake, Close, StreamFails, Open
<1>2. zset' = zset /\ AnnouncementDue' = AnnouncementDue
  BY <1>1 DEF vars, store, projector, dequeuer, AnnouncementDue
<1>3. \A u : View(u)' = View(u) /\ RankOf(u)' = RankOf(u) /\ Total' = Total
  BY <1>2 DEF View, RankOf, Total, Rank, Ahead, Members
<1>4. stream \in [Streams -> StreamType] /\ Informed(s)
  BY DEF StreamsTyped, AllInformed
<1>5. ASSUME NEW q, stream' = [stream EXCEPT ![s] = q], Informed(s)' PROVE AllInformed'
  <2>1. \A t \in Streams \ {s} : stream'[t] = stream[t]
    BY <1>4, <1>5
  <2> QED
    BY <1>2, <1>5, <2>1, InformedKept DEF AllInformed
<1> USE DEF StreamType, StreamPCs
<1>6. CASE \E u \in Watchers : Open(s, u)
  BY <1>4, <1>5, <1>6 DEF Open, Closed, Informed
<1>7. CASE ReadRank(s)
  <2> DEFINE q == [stream[s] EXCEPT !.pc = "total", !.rank = RankOf(stream[s].user),
                                    !.missed = FALSE]
  <2>1. stream' = [stream EXCEPT ![s] = q] /\ stream'[s] = q
    BY <1>4, <1>7 DEF ReadRank
  <2>2. q.pc = "total" /\ q.user = stream[s].user /\ q.rank = RankOf(q.user)
    BY <1>4
  <2> HIDE DEF q
  <2>3. Informed(s)'
    BY <1>3, <2>1, <2>2 DEF Informed
  <2> QED
    BY <1>5, <2>1, <2>3
<1>8. CASE ReadTotal(s)
  BY <1>2, <1>3, <1>4, <1>5, <1>8 DEF ReadTotal, Informed, View
<1>9. CASE Subscribe(s)
  BY <1>2, <1>3, <1>4, <1>5, <1>9 DEF Subscribe, Informed
<1>10. CASE Wake(s)
  BY <1>2, <1>3, <1>4, <1>5, <1>10 DEF Wake, Informed
<1>11. CASE Close(s) \/ StreamFails(s)
  BY <1>4, <1>5, <1>11 DEF Close, StreamFails, Closed, Informed
<1> QED
  BY <1>6, <1>7, <1>8, <1>9, <1>10, <1>11 DEF StreamStep

(* A message sent, or the failure of one, leaves every stream with something: a
   message, or the mark that it missed one. *)
LEMMA InformedByMessage ==
  ASSUME StreamsTyped, AllInformed, stream' \in {Announced, Unannounced}
  PROVE  AllInformed'
<1> SUFFICES ASSUME NEW s \in Streams PROVE Informed(s)'
  BY DEF AllInformed
<1>1. stream[s] \in StreamType /\ Informed(s)
  BY DEF StreamsTyped, AllInformed
<1>2. CASE stream' = Announced /\ stream[s].subscribed
  <2>1. stream'[s] = [stream[s] EXCEPT !.inbox = @ + 1]
    BY <1>2 DEF Announced
  <2>2. stream'[s].inbox > 0 /\ stream'[s].pc = stream[s].pc /\ stream'[s].subscribed
    BY <1>1, <1>2, <2>1 DEF StreamType
  <2> QED
    BY <1>1, <1>2, <2>2 DEF Informed
<1>3. CASE stream' = Unannounced \/ ~ stream[s].subscribed
  <2>1. stream'[s] = [stream[s] EXCEPT !.missed = stream[s].pc # "idle"]
    BY <1>3 DEF Announced, Unannounced
  <2>2. /\ stream'[s].missed = (stream[s].pc # "idle") /\ stream'[s].pc = stream[s].pc
        /\ stream'[s].subscribed = stream[s].subscribed
    BY <1>1, <2>1 DEF StreamType
  <2> QED
    BY <1>1, <2>2 DEF Informed
<1> QED
  BY <1>2, <1>3

LEMMA InformedStep ==
  ASSUME TypeOK, StreamsTyped, AllInformed, [ClientNext]_allVars
  PROVE  AllInformed'
<1>1. ASSUME UNCHANGED stream,
             \/ zset' = zset /\ (AnnouncementDue => AnnouncementDue')
             \/ AnnouncementDue'
      PROVE  AllInformed'
  BY <1>1, InformedKept DEF AllInformed
<1>2. ASSUME UNCHANGED <<stream, zset, loop, dq>> PROVE AllInformed'
  BY <1>1, <1>2 DEF AnnouncementDue
<1>3. ASSUME NEW c \in Calls,
             \/ CallStep(c) \/ SendFails(c) \/ CallFails(c)
             \/ \E u \in Callers : Enqueue(c, u)
      PROVE  AllInformed'
  BY <1>2, <1>3 DEF CallStep, Send, Produce, PollFinds, PollEnds, Accept, SendFails,
                    CallFails, Enqueue, vars, projector, store, dequeuer
<1>4. ASSUME NEW u \in Users, Others(u) PROVE AllInformed'
  BY <1>2, <1>4 DEF Others, Produce, clientVars, store, dequeuer
<1>5. CASE ConsumerSilent
  <2>1. CASE stream' = Unannounced
    BY <2>1, InformedByMessage
  <2>2. CASE UNCHANGED stream /\ (Add \/ Pop \/ \E u \in Users : Mark(u))
    <3>1. AnnouncementDue'
      BY <2>2 DEF Add, Pop, Mark, AnnouncementDue
    <3> QED
      BY <1>1, <2>2, <3>1
  <2>3. CASE /\ UNCHANGED stream
             /\ Start \/ StartFails \/ DequeuerDies \/ AutoCommit \/ Fetch \/ AddFails
    <3>1. CASE Start \/ DequeuerDies
      BY <1>1, <2>3, <3>1 DEF Start, DequeuerDies, AnnouncementDue, store, TypeOK
    <3>2. CASE StartFails \/ AutoCommit \/ Fetch \/ AddFails
      BY <1>1, <2>3, <3>2 DEF StartFails, AutoCommit, Fetch, AddFails, AnnouncementDue,
                              store, dequeuer
    <3> QED
      BY <2>3, <3>1, <3>2
  <2>4. CASE LoopRaises /\ ~ AnnouncementDue /\ UNCHANGED stream
    BY <1>1, <2>4 DEF LoopRaises, Halt, store
  <2> QED
    BY <1>5, <2>1, <2>2, <2>3, <2>4 DEF ConsumerSilent
<1>6. CASE ConsumerPublishes \/ PublishFails
  BY <1>6, InformedByMessage DEF ConsumerPublishes, PublishFails
<1>7. CASE Shutdown
  <2>1. \A s \in Streams : stream'[s] = stream[s] /\ stream[s].pc = "idle"
    BY <1>7 DEF Shutdown, clientVars
  <2> QED
    BY <2>1 DEF AllInformed, Informed
<1>8. CASE Death
  BY <1>8 DEF Death, AllInformed, Informed, Closed
<1>9. CASE UNCHANGED allVars
  BY <1>2, <1>9 DEF allVars, clientVars, vars, projector, store, dequeuer
<1> QED
  BY <1>3, <1>4, <1>5, <1>6, <1>7, <1>8, <1>9, InformedOwnStep DEF ClientNext

(* A stream that waits shows what is so, or will be told, but for the messages it
   missed (sse_router.py:46-51). *)
THEOREM StreamsAreTold == ClientSpec => []StaleMeansNotified
<1>1. ClientTypeOK => StreamsTyped
  BY TypeParts
<1>2. AllInformed => StaleMeansNotified
  BY DEF AllInformed, Informed, StaleMeansNotified
<1>3. ClientInit => AllInformed
  BY InformedInit
<1>4. TypeOK /\ ClientTypeOK /\ AllInformed /\ [ClientNext]_allVars => AllInformed'
  BY <1>1, InformedStep
<1> QED
  BY <1>2, <1>3, <1>4, ClientTypes, PTL DEF ClientSpec

-----------------------------------------------------------------------------
(* The rank is that of the record *)

(* A request whose user was not in line before the send: whatever may still give the
   user a place, and the place they have, comes from this record or a later one. *)
Placed(c) ==
  LET u == call[c].user
      t == call[c].ticket
  IN  /\ call[c].pc = "poll" /\ ~ call[c].before =>
           /\ zset[u] # Absent => t <= zset[u]
           /\ loop = "add" /\ log[position] = u => t <= position
           /\ \A o \in position+1..Len(log) : log[o] = u => t <= o
      /\ call[c].pc = "total" /\ ~ call[c].before => t <= call[c].place

AllPlaced == \A c \in Calls : Placed(c)

LEMMA PlacedInit == ClientInit => AllPlaced
BY DEF ClientInit, AllPlaced, Placed, Called

LEMMA PlacedStep ==
  ASSUME TypeOK, CallsTyped, AllPlaced, [ClientNext]_allVars
  PROVE  AllPlaced'
<1> USE DEF Absent
<1>1. /\ log \in Seq(Users) /\ Len(log) \in Nat /\ position \in 0..Len(log)
      /\ zset \in [Users -> 0..Len(log)]
      /\ loop = "add" => position > 0
  BY DEF TypeOK
<1>2. /\ call \in [Calls -> CallType(Len(log))]
      /\ \A c \in Calls : call[c].user \in Users /\ call[c].ticket \in 0..Len(log)
  BY DEF CallsTyped, CallType
<1>3. ASSUME UNCHANGED <<log, position, loop, zset, call>> PROVE AllPlaced'
  BY <1>3 DEF AllPlaced, Placed
<1>4. ASSUME NEW c \in Calls, NEW q, UNCHANGED <<log, position, loop, zset>>,
             call' = [call EXCEPT ![c] = q], Placed(c)'
      PROVE  AllPlaced'
  BY <1>2, <1>4 DEF AllPlaced, Placed
<1>5. ASSUME NEW s \in Streams,
             \/ StreamStep(s) \/ Close(s) \/ StreamFails(s)
             \/ \E u \in Watchers : Open(s, u)
      PROVE  AllPlaced'
  BY <1>3, <1>5 DEF StreamStep, ReadRank, ReadTotal, Subscribe, Wake, Close, StreamFails,
                    Open, vars, projector, store
<1>6. ASSUME NEW w \in Users, Produce(w), NEW c \in Calls, call'[c] = call[c]
      PROVE  Placed(c)'
  <2>1. log' = Append(log, w) /\ UNCHANGED <<position, loop, zset>>
    BY <1>6 DEF Produce, store
  <2>2. Len(log') = Len(log) + 1 /\ \A o \in 1..Len(log) : log'[o] = log[o]
    BY <1>1, <2>1
  <2>3. Placed(c) /\ call[c].ticket \in 0..Len(log)
    BY <1>2 DEF AllPlaced
  <2> QED
    BY <1>1, <1>6, <2>1, <2>2, <2>3 DEF Placed
<1>7. ASSUME NEW c \in Calls, Send(c) PROVE AllPlaced'
  <2> DEFINE u == call[c].user
             q == [call[c] EXCEPT !.pc = "poll", !.ticket = Len(log) + 1, !.before = InLine(u)]
  <2>1. Produce(u) /\ call' = [call EXCEPT ![c] = q] /\ u \in Users
    BY <1>2, <1>7 DEF Send
  <2>2. /\ q.pc = "poll" /\ q.ticket = Len(log) + 1 /\ q.user = u
        /\ q.before = InLine(u)
    BY <1>2 DEF CallType
  <2>3. log' = Append(log, u) /\ UNCHANGED <<position, loop, zset>>
    BY <2>1 DEF Produce, store
  <2>4. Len(log') = Len(log) + 1 /\ \A o \in 1..Len(log) : log'[o] = log[o]
    BY <1>1, <2>1, <2>3
  <2>5. ~ InLine(u) => /\ zset[u] = Absent
                       /\ ~ (loop = "add" /\ log[position] = u)
                       /\ \A o \in position+1..Len(log) : log[o] # u
    BY <2>1 DEF InLine, Members
  <2>6. call'[c] = q
    BY <1>2, <2>1
  <2> HIDE DEF q
  <2>7. Placed(c)'
    BY <1>1, <2>2, <2>3, <2>4, <2>5, <2>6 DEF Placed
  <2>8. \A d \in Calls \ {c} : call'[d] = call[d]
    BY <1>2, <2>1
  <2> QED
    BY <1>6, <2>1, <2>7, <2>8 DEF AllPlaced
<1>8. ASSUME NEW c \in Calls, PollFinds(c) PROVE AllPlaced'
  <2>1. UNCHANGED <<log, position, loop, zset>>
    BY <1>8 DEF PollFinds, vars, projector, store
  <2>2. Placed(c)'
    BY <1>2, <1>8, <2>1 DEF PollFinds, AllPlaced, Placed, Members, CallType
  <2> QED
    BY <1>4, <1>8, <2>1, <2>2 DEF PollFinds
<1>9. ASSUME NEW c \in Calls,
             \/ PollEnds(c) \/ Accept(c) \/ SendFails(c) \/ CallFails(c)
             \/ \E u \in Callers : Enqueue(c, u)
      PROVE  AllPlaced'
  <2>1. UNCHANGED <<log, position, loop, zset>>
    BY <1>9 DEF PollEnds, Accept, SendFails, CallFails, Enqueue, vars, projector, store
  <2>2. call'[c].pc \notin {"poll", "total"}
    <3>1. CASE PollEnds(c)
      BY <1>2, <3>1 DEF PollEnds, CallType
    <3>2. CASE Accept(c) \/ SendFails(c) \/ CallFails(c)
      BY <1>2, <3>2 DEF Accept, SendFails, CallFails, Called
    <3>3. CASE \E u \in Callers : Enqueue(c, u)
      BY <1>2, <3>3 DEF Enqueue, Called
    <3> QED
      BY <1>9, <3>1, <3>2, <3>3
  <2>3. Placed(c)'
    BY <2>2 DEF Placed
  <2> QED
    BY <1>4, <1>9, <2>1, <2>3 DEF PollEnds, Accept, SendFails, CallFails, Enqueue
<1>10. ASSUME NEW u \in Users, Others(u) PROVE AllPlaced'
  BY <1>6, <1>10 DEF Others, clientVars, AllPlaced
<1>11. CASE ConsumerSilent \/ ConsumerPublishes \/ PublishFails
  <2>1. UNCHANGED call
    BY <1>11 DEF ConsumerSilent, ConsumerPublishes, PublishFails
  <2>2. CASE Fetch
    <3>1. /\ position' = position + 1 /\ position < Len(log)
          /\ loop' = "add" /\ UNCHANGED <<log, zset>>
      BY <2>2 DEF Fetch, store
    <3>2. position' \in position+1..Len(log) /\ position'+1..Len(log) \subseteq position+1..Len(log)
      BY <1>1, <3>1
    <3>3. ASSUME NEW c \in Calls PROVE Placed(c)'
      <4>1. Placed(c) /\ call'[c] = call[c]
        BY <2>1 DEF AllPlaced
      <4> QED
        BY <3>1, <3>2, <4>1 DEF Placed
    <3> QED
      BY <3>3 DEF AllPlaced
  <2>3. CASE Add
    <3>1. /\ zset' = [zset EXCEPT ![log[position]] = position]
          /\ loop = "add" /\ loop' = "publish" /\ UNCHANGED <<log, position>>
      BY <2>3 DEF Add, ZAdd
    <3>2. \A u \in Users : zset'[u] = IF u = log[position] THEN position ELSE zset[u]
      BY <1>1, <3>1
    <3> QED
      BY <1>1, <1>2, <2>1, <3>1, <3>2 DEF AllPlaced, Placed
  <2>4. CASE Pop \/ PopFails
    <3>1. /\ zset' = ZRemove(zset, Lowest(zset, PerSec))
          /\ UNCHANGED <<log, position, loop>>
      BY <2>4 DEF Pop, PopFails, projector
    <3>2. \A u \in Users : zset'[u] \in {zset[u], Absent}
      BY <3>1 DEF ZRemove
    <3> QED
      BY <1>2, <2>1, <3>1, <3>2 DEF AllPlaced, Placed
  <2>5. CASE \/ Start \/ StartFails \/ DequeuerDies \/ AutoCommit \/ AddFails \/ MarkFails
             \/ LoopRaises \/ Publish \/ PublishRelease \/ \E u \in Users : Mark(u)
    <3>1. UNCHANGED <<log, position, zset>> /\ (loop' = "add" => loop = "add")
      BY <2>5 DEF Start, StartFails, DequeuerDies, AutoCommit, AddFails, MarkFails, LoopRaises,
                  Halt, Publish, PublishRelease, Mark, store, projector
    <3> QED
      BY <2>1, <3>1 DEF AllPlaced, Placed
  <2> QED
    BY <1>11, <2>2, <2>3, <2>4, <2>5 DEF ConsumerSilent, ConsumerPublishes, PublishFails
<1>12. CASE Shutdown
  BY <1>12 DEF Shutdown, clientVars, AllPlaced, Placed
<1>13. CASE Death
  BY <1>13 DEF Death, Called, AllPlaced, Placed
<1>14. CASE UNCHANGED allVars
  BY <1>3, <1>14 DEF allVars, clientVars, vars, projector, store
<1> QED
  BY <1>5, <1>7, <1>8, <1>9, <1>10, <1>11, <1>12, <1>13, <1>14 DEF ClientNext, CallStep

(* The rank of a 202 with projected = true belongs to the record the request sent, or
   to a later one of the user (queue_router.py:41-50). *)
THEOREM RankBelongsToRecord == ClientSpec => []RankIsOfThisRecord
<1>1. ClientTypeOK => CallsTyped
  BY TypeParts
<1>2. TypeOK /\ ClientTypeOK /\ AllPlaced => RankIsOfThisRecord
  BY <1>1 DEF CallsTyped, CallType, TypeOK, AllPlaced, Placed, RankIsOfThisRecord
<1>3. TypeOK /\ ClientTypeOK /\ AllPlaced /\ [ClientNext]_allVars => AllPlaced'
  BY <1>1, PlacedStep
<1> QED
  BY <1>2, <1>3, PlacedInit, ClientTypes, PTL DEF ClientSpec

(* First come, first served, with streams and enqueue requests at the queue. *)
THEOREM ClientsKeepOrder ==
  ClientSpec => [](ScoreIsOffset /\ LatestTicket /\ FifoRelease /\ TicketsAccounted)
<1>1. Spec => [](ScoreIsOffset /\ LatestTicket /\ FifoRelease /\ TicketsAccounted)
  BY FirstComeFirstServed, NoTicketVanishes, PTL
<1> QED
  BY <1>1, ClientsImplementConsumer, PTL DEF ImplementsConsumer

(* The queue is a fair line with the clients at it, as long as no crash makes Kafka
   redeliver: an enqueue request sends its user to the end of the line and does
   nothing else to it (queue_router.py:27-54, queue_consumer.py:53-56, 75-82). *)
THEOREM ClientsKeepLine ==
  ASSUME "crash" \notin FaultKinds
  PROVE  ClientSpec => ImplementsFairLine
<1>1. Spec => ImplementsFairLine
  BY QueueIsFairLine
<1> QED
  BY <1>1, ClientsImplementConsumer, PTL DEF ImplementsConsumer
==============================================================================
