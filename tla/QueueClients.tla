------------------------------ MODULE QueueClients ------------------------------
(***************************************************************************)
(* The clients of the waiting queue other than the detail gate, run against *)
(* the consumer: POST /queue/enqueue, which sends a record and polls for    *)
(* its projection (routers/queue_router.py), and GET /queue/stream, which   *)
(* reports the user's rank and total once and then after every message of   *)
(* the channel q:chn:{concert} (routers/sse_router.py).  GET /queue/status  *)
(* is a stream whose client leaves after the snapshot.                      *)
(*                                                                         *)
(* Pub/Sub keeps nothing: a PUBLISH reaches the connections subscribed at   *)
(* that moment.  Rank and total are two commands, so what is reported may   *)
(* never have been true at any one time.                                    *)
(***************************************************************************)
EXTENDS QueueConsumer

CONSTANTS
  Streams,      \* the streams that may be open at once
  Calls,        \* the enqueue requests that may be in progress at once
  Watchers,     \* the users who open streams
  Callers,      \* the users who call POST /queue/enqueue
  MishapKinds,  \* the kinds of failure that may befall a client or a message
  MaxMishaps    \* bound on the number of those failures

ASSUME ClientConstants ==
  /\ Users # {}
  /\ Watchers \subseteq Users
  /\ Callers \subseteq Users
  /\ MishapKinds \subseteq {"redis", "kafka", "publish"}
  /\ MaxMishaps \in Nat

VARIABLES
  stream,   \* the streams: where each is, what it has read and reported
  call,     \* the enqueue requests: where each is, its record and its answer
  mishaps   \* number of failures so far

clientVars == <<stream, call, mishaps>>
allVars == <<vars, clientVars>>

StreamPCs == {"idle", "rank", "total", "subscribe", "listen"}
CallPCs == {"idle", "send", "poll", "total", "estimate"}

ClientTypeOK ==
  /\ stream \in [Streams -> [pc : StreamPCs, user : Users, rank : Nat, shown : Nat \X Nat,
                             subscribed : BOOLEAN, inbox : Nat, missed : BOOLEAN]]
  /\ \A s \in Streams : stream[s].inbox > 0 => stream[s].subscribed
  /\ call \in [Calls -> [pc : CallPCs, user : Users, ticket : 0..Len(log),
                         place : 0..Len(log), before : BOOLEAN]]
  /\ mishaps \in 0..MaxMishaps

\* A stream that is not open, and a request that is over.
Closed(u) == [pc |-> "idle", user |-> u, rank |-> 0, shown |-> <<0, 0>>,
              subscribed |-> FALSE, inbox |-> 0, missed |-> FALSE]
Called(u) == [pc |-> "idle", user |-> u, ticket |-> 0, place |-> 0,
              before |-> FALSE]

Somebody == CHOOSE u \in Users : TRUE

ClientInit ==
  /\ Init
  /\ stream = [s \in Streams |-> Closed(Somebody)]
  /\ call = [c \in Calls |-> Called(Somebody)]
  /\ mishaps = 0

Mishap(kind) ==
  /\ kind \in MishapKinds
  /\ mishaps < MaxMishaps
  /\ mishaps' = mishaps + 1

-----------------------------------------------------------------------------
(* GET /queue/stream *)

\* The rank reported for u (1 for the head; 0 stands for -1, not in the queue) and
\* the total, if they were read together.
RankOf(u) == IF u \in Members(zset) THEN Rank(zset, u) + 1 ELSE 0
Total == Cardinality(Members(zset))
View(u) == <<RankOf(u), Total>>

\* A client connects.  The wait for the user's projection before the snapshot ends
\* with the user in the queue or at its deadline, and keeps nothing of what it read.
Open(s, u) ==
  /\ stream[s].pc = "idle"
  /\ stream' = [stream EXCEPT ![s] = [Closed(u) EXCEPT !.pc = "rank"]]
  /\ UNCHANGED <<vars, call, mishaps>>

\* rank = await r.zrank(zkey, user)
ReadRank(s) ==
  /\ stream[s].pc = "rank"
  /\ stream' = [stream EXCEPT ![s].pc = "total", ![s].rank = RankOf(stream[s].user),
                              ![s].missed = FALSE]
  /\ UNCHANGED <<vars, call, mishaps>>

\* Mutant: messages that came in during the two reads are thrown away.
ReadTotalDrains(s) ==
  /\ stream[s].pc = "total"
  /\ stream' = [stream EXCEPT
       ![s].pc = IF stream[s].subscribed THEN "listen" ELSE "subscribe",
       ![s].inbox = 0, ![s].rank = 0, ![s].shown = <<stream[s].rank, Total>>]
  /\ UNCHANGED <<vars, call, mishaps>>

\* total = await r.zcard(zkey), and the event is sent: the snapshot, or an update.
ReadTotal(s) ==
  /\ stream[s].pc = "total"
  /\ stream' = [stream EXCEPT
       ![s].pc = IF stream[s].subscribed THEN "listen" ELSE "subscribe",
       ![s].rank = 0, ![s].shown = <<stream[s].rank, Total>>]
  /\ UNCHANGED <<vars, call, mishaps>>

\* await pubsub.subscribe(channel), after the snapshot.
Subscribe(s) ==
  /\ stream[s].pc = "subscribe"
  /\ stream' = [stream EXCEPT ![s].pc = "listen", ![s].subscribed = TRUE]
  /\ UNCHANGED <<vars, call, mishaps>>

\* Mutant: the confirmation of the SUBSCRIBE is taken for a message.
WakeUnfiltered(s) ==
  /\ stream[s].pc = "listen"
  /\ stream' = [stream EXCEPT ![s].pc = "rank", ![s].inbox = @ - 1]
  /\ UNCHANGED <<vars, call, mishaps>>

\* One message of pubsub.listen().
Wake(s) ==
  /\ stream[s].pc = "listen"
  /\ stream[s].inbox > 0
  /\ stream' = [stream EXCEPT ![s].pc = "rank", ![s].inbox = @ - 1]
  /\ UNCHANGED <<vars, call, mishaps>>

\* The client leaves: the response is cancelled, the subscription closed.
Close(s) ==
  /\ stream[s].pc # "idle"
  /\ stream' = [stream EXCEPT ![s] = Closed(Somebody)]
  /\ UNCHANGED <<vars, call, mishaps>>

\* A Redis command of the stream raises: the response ends there.
StreamFails(s) ==
  /\ stream[s].pc # "idle"
  /\ Mishap("redis")
  /\ stream' = [stream EXCEPT ![s] = Closed(Somebody)]
  /\ UNCHANGED <<vars, call>>

-----------------------------------------------------------------------------
(* POST /queue/enqueue *)

\* The bound on the partition: there is room for what the requests will send.
Room == Len(log) + Cardinality({c \in Calls : call[c].pc = "send"}) < MaxRecords

Enqueue(c, u) ==
  /\ call[c].pc = "idle"
  /\ Room
  /\ call' = [call EXCEPT ![c] = [Called(u) EXCEPT !.pc = "send"]]
  /\ UNCHANGED <<vars, stream, mishaps>>

\* The user is in the queue, or has a record that will still put them there.
InLine(u) ==
  \/ u \in Members(zset)
  \/ loop = "add" /\ log[position] = u
  \/ \E o \in position+1..Len(log) : log[o] = u

\* Mutant: the handler puts the user into the sorted set itself.
SendAdds(c) ==
  /\ call[c].pc = "send"
  /\ Len(log) < MaxRecords
  /\ log' = Append(log, call[c].user)
  /\ zset' = ZAdd(zset, call[c].user, Len(log) + 1)
  /\ call' = [call EXCEPT ![c].pc = "poll", ![c].ticket = Len(log) + 1,
                          ![c].before = InLine(call[c].user)]
  /\ UNCHANGED <<position, committed, loop, gate, dequeuer, faults, history, stream,
                 mishaps>>

\* await kafka_async.send(..)
Send(c) ==
  /\ call[c].pc = "send"
  /\ Produce(call[c].user)
  /\ call' = [call EXCEPT ![c].pc = "poll", ![c].ticket = Len(log) + 1,
                          ![c].before = InLine(call[c].user)]
  /\ UNCHANGED <<stream, mishaps>>

\* The send raises or times out: a 500; the record may still arrive (see Others).
SendFails(c) ==
  /\ call[c].pc = "send"
  /\ Mishap("kafka")
  /\ call' = [call EXCEPT ![c] = Called(Somebody)]
  /\ UNCHANGED <<vars, stream>>

\* Mutant: the wait ends when anybody is in the queue.
PollFindsAnybody(c) ==
  /\ call[c].pc = "poll"
  /\ Members(zset) # {}
  /\ call' = [call EXCEPT ![c].pc = "total", ![c].place = zset[call[c].user]]
  /\ UNCHANGED <<vars, stream, mishaps>>

\* The ZRANK every 50 ms finds the user ..
PollFinds(c) ==
  /\ call[c].pc = "poll"
  /\ call[c].user \in Members(zset)
  /\ call' = [call EXCEPT ![c].pc = "total", ![c].place = zset[call[c].user]]
  /\ UNCHANGED <<vars, stream, mishaps>>

\* .. or does not, and the deadline has passed.
PollEnds(c) ==
  /\ call[c].pc = "poll"
  /\ call[c].user \notin Members(zset)
  /\ call' = [call EXCEPT ![c].pc = "estimate"]
  /\ UNCHANGED <<vars, stream, mishaps>>

\* The ZCARD, and the 202: with the rank found, or the total and one.
Accept(c) ==
  /\ call[c].pc \in {"total", "estimate"}
  /\ call' = [call EXCEPT ![c] = Called(Somebody)]
  /\ UNCHANGED <<vars, stream, mishaps>>

\* A Redis command of the request raises: a 500, with the record in the partition.
CallFails(c) ==
  /\ call[c].pc \in {"poll", "total", "estimate"}
  /\ Mishap("redis")
  /\ call' = [call EXCEPT ![c] = Called(Somebody)]
  /\ UNCHANGED <<vars, stream>>

\* The detail gate, or a send that had timed out.
Others(u) ==
  /\ Room
  /\ Produce(u)
  /\ UNCHANGED clientVars

-----------------------------------------------------------------------------
(* The consumer, and what its PUBLISH does to the streams *)

\* Subscribed streams get the message; the others miss it.
Announced ==
  [s \in Streams |->
     IF stream[s].subscribed
     THEN [stream[s] EXCEPT !.inbox = @ + 1]
     ELSE [stream[s] EXCEPT !.missed = stream[s].pc # "idle"]]

Unannounced ==
  [s \in Streams |-> [stream[s] EXCEPT !.missed = stream[s].pc # "idle"]]

\* A task has changed the sorted set and not come to its PUBLISH yet.
AnnouncementDue == loop = "publish" \/ dq \in {"mark", "publish"}

\* Steps that send no message: ZPOPMIN and SETEX failures skip theirs, and so does the end
\* of the loop for a release that was under way.
ConsumerSilent ==
  /\ \/ /\ Start \/ StartFails \/ DequeuerDies \/ AutoCommit \/ Fetch \/ Add \/ AddFails \/ Pop
           \/ \E u \in Users : Mark(u)
        /\ UNCHANGED stream
     \/ /\ PopFails \/ MarkFails
        /\ stream' = Unannounced
     \/ /\ LoopRaises
        /\ stream' = IF AnnouncementDue THEN Unannounced ELSE stream
  /\ UNCHANGED <<call, mishaps>>

\* await r.publish(channel, "update"), in either task ..
ConsumerPublishes ==
  /\ Publish \/ PublishRelease
  /\ stream' = Announced
  /\ UNCHANGED <<call, mishaps>>

\* .. or it raises, and both tasks go on as if it had not.
PublishFails ==
  /\ Publish \/ PublishRelease
  /\ Mishap("publish")
  /\ stream' = Unannounced
  /\ UNCHANGED call

\* The end of the process: of itself once every client is gone, or a crash.
Shutdown ==
  /\ Stop
  /\ \A s \in Streams : stream[s].pc = "idle"
  /\ \A c \in Calls : call[c].pc = "idle"
  /\ UNCHANGED clientVars

Death ==
  /\ Crash
  /\ stream' = [s \in Streams |-> Closed(Somebody)]
  /\ call' = [c \in Calls |-> Called(Somebody)]
  /\ UNCHANGED mishaps

StreamStep(s) == ReadRank(s) \/ ReadTotal(s) \/ Subscribe(s) \/ Wake(s)
CallStep(c) == Send(c) \/ PollFinds(c) \/ PollEnds(c) \/ Accept(c)

ClientNext ==
  \/ \E s \in Streams : \/ \E u \in Watchers : Open(s, u)
                        \/ StreamStep(s) \/ Close(s) \/ StreamFails(s)
  \/ \E c \in Calls : \/ \E u \in Callers : Enqueue(c, u)
                      \/ CallStep(c) \/ SendFails(c) \/ CallFails(c)
  \/ \E u \in Users : Others(u)
  \/ ConsumerSilent \/ ConsumerPublishes \/ PublishFails \/ Shutdown \/ Death

ClientSpec == ClientInit /\ [][ClientNext]_allVars

-----------------------------------------------------------------------------
(* Properties *)

(* A stream that waits for a message shows the user's rank and the total as they
   are, or will read them again: a message is in its inbox or about to be sent,
   although it reads them with two commands, while two tasks change them.  The
   two ways to miss a message are named: it was sent after the snapshot's ZRANK
   and before the SUBSCRIBE (sse_router.py:46-50), or it was never sent. *)
StaleMeansNotified ==
  \A s \in Streams :
    stream[s].pc = "listen" =>
      \/ stream[s].shown = View(stream[s].user)
      \/ stream[s].inbox > 0
      \/ stream[s].missed
      \/ AnnouncementDue

(* "projected" is said of the record just sent: the rank in the answer is the place
   of that record or of a later one, unless the user was in line before the send,
   when it may be the place they are about to lose (queue_router.py:41-50). *)
RankIsOfThisRecord ==
  \A c \in Calls :
    call[c].pc = "total" => call[c].before \/ call[c].place >= call[c].ticket

(* To the consumer, the clients are the environment it allows for. *)
ImplementsConsumer == Spec
==============================================================================
