----------------------------- MODULE KafkaProducer -----------------------------
(***************************************************************************)
(* utils/kafka_client.py: the one AIOKafkaProducer of the process, created  *)
(* and started by the first request that sends a record, shared by all of   *)
(* them.  ConcertGate and QueueClients see a send as one step that succeeds *)
(* or does not; here it is taken apart.                                     *)
(*                                                                         *)
(* aiokafka is the external part: a producer that has started takes records *)
(* into a buffer and delivers them when it can, again if an acknowledgement *)
(* is lost, whether or not the sender is still waiting.  A producer whose   *)
(* start() raised takes nothing: nobody fetches the metadata send() awaits. *)
(***************************************************************************)
EXTENDS Naturals

CONSTANT Sends    \* the calls of send(), each with a record of its own

VARIABLES
  kafka,      \* can the broker be reached?
  producer,   \* _producer: None, or what has become of its start()
  created,    \* history: producers this process has created
  send,       \* where each call is
  kept,       \* records in the producer's buffer
  partition   \* records in the partition

vars == <<kafka, producer, created, send, kept, partition>>

InProgress == {"starting", "sending", "waiting"}

TypeOK ==
  /\ kafka \in BOOLEAN
  /\ producer \in {"none", "starting", "started", "broken"}
  /\ created \in Nat
  /\ send \in [Sends -> {"new", "accepted", "failed"} \cup InProgress]
  /\ kept \subseteq Sends
  /\ partition \subseteq Sends
  /\ kept # {} => producer = "started"

Init ==
  /\ kafka \in BOOLEAN
  /\ producer = "none"
  /\ created = 0
  /\ send = [s \in Sends |-> "new"]
  /\ kept = {}
  /\ partition = {}

Goto(s, pc) == send' = [send EXCEPT ![s] = pc]

-----------------------------------------------------------------------------
(* start_producer *)

\* Mutant: _producer is assigned when start() has returned.
CallAssignsLate(s) ==
  /\ send[s] = "new"
  /\ IF producer \in {"none", "starting"}
     THEN Goto(s, "starting") /\ producer' = "starting" /\ created' = created + 1
     ELSE Goto(s, "sending") /\ UNCHANGED <<producer, created>>
  /\ UNCHANGED <<kafka, kept, partition>>

\* if self._producer is None: create it, and await its start().
Call(s) ==
  /\ send[s] = "new"
  /\ IF producer = "none"
     THEN Goto(s, "starting") /\ producer' = "starting" /\ created' = created + 1
     ELSE Goto(s, "sending") /\ UNCHANGED <<producer, created>>
  /\ UNCHANGED <<kafka, kept, partition>>

Started(s) ==
  /\ send[s] = "starting"
  /\ kafka
  /\ producer' = "started"
  /\ Goto(s, "sending")
  /\ UNCHANGED <<kafka, created, kept, partition>>

\* start() raises out of send(), which is not in its try yet; _producer stays set.
StartFails(s) ==
  /\ send[s] = "starting"
  /\ ~ kafka
  /\ producer' = "broken"
  /\ Goto(s, "failed")
  /\ UNCHANGED <<kafka, created, kept, partition>>

-----------------------------------------------------------------------------
(* send_and_wait, under wait_for *)

\* Mutant: send instead of send_and_wait.
TakeUnacknowledged(s) ==
  /\ send[s] = "sending"
  /\ producer = "started"
  /\ kept' = kept \cup {s}
  /\ Goto(s, "accepted")
  /\ UNCHANGED <<kafka, producer, created, partition>>

\* The producer takes the record into its buffer.
Take(s) ==
  /\ send[s] = "sending"
  /\ producer = "started"
  /\ kept' = kept \cup {s}
  /\ Goto(s, "waiting")
  /\ UNCHANGED <<kafka, producer, created, partition>>

\* The record is written; its acknowledgement is lost, and it will be sent again ..
Write(s) ==
  /\ s \in kept
  /\ kafka
  /\ partition' = partition \cup {s}
  /\ UNCHANGED <<kafka, producer, created, send, kept>>

\* .. or arrives, perhaps after the sender has given up.
Acknowledge(s) ==
  /\ s \in kept
  /\ kafka
  /\ partition' = partition \cup {s}
  /\ kept' = kept \ {s}
  /\ IF send[s] = "waiting" THEN Goto(s, "accepted") ELSE UNCHANGED send
  /\ UNCHANGED <<kafka, producer, created>>

\* The producer drops the record: expired, or refused by the broker.
Drop(s) ==
  /\ s \in kept
  /\ kept' = kept \ {s}
  /\ IF send[s] = "waiting" THEN Goto(s, "failed") ELSE UNCHANGED send
  /\ UNCHANGED <<kafka, producer, created, partition>>

\* Mutant: the time-out covers the acknowledgement alone.
TimesOutWaiting(s) ==
  /\ send[s] = "waiting"
  /\ Goto(s, "failed")
  /\ UNCHANGED <<kafka, producer, created, kept, partition>>

\* wait_for cancels the send after timeout_sec; what is in the buffer stays there.
TimesOut(s) ==
  /\ send[s] \in {"sending", "waiting"}
  /\ Goto(s, "failed")
  /\ UNCHANGED <<kafka, producer, created, kept, partition>>

-----------------------------------------------------------------------------
(* Broker and process *)

KafkaComesOrGoes ==
  /\ kafka' = ~ kafka
  /\ UNCHANGED <<producer, created, send, kept, partition>>

\* Mutant: the buffer outlives the process.
RestartKeepsBuffer ==
  /\ producer' = "none"
  /\ created' = 0
  /\ send' = [s \in Sends |-> IF send[s] \in InProgress THEN "failed" ELSE send[s]]
  /\ UNCHANGED <<kafka, kept, partition>>

\* The process ends, by a crash or a shutdown, which stops no producer: the buffer
\* goes with it.
Restart ==
  /\ producer' = "none"
  /\ created' = 0
  /\ send' = [s \in Sends |-> IF send[s] \in InProgress THEN "failed" ELSE send[s]]
  /\ kept' = {}
  /\ UNCHANGED <<kafka, partition>>

Starting(s) == Call(s) \/ Started(s) \/ StartFails(s)
Sending(s) == Take(s) \/ Write(s) \/ Acknowledge(s) \/ Drop(s) \/ TimesOut(s)

Next ==
  \/ \E s \in Sends : Starting(s) \/ Sending(s)
  \/ KafkaComesOrGoes
  \/ Restart

Spec == Init /\ [][Next]_vars

\* start() returns or raises, and the timer of wait_for fires.
Fairness ==
  \A s \in Sends : WF_vars(Started(s) \/ StartFails(s)) /\ WF_vars(TimesOut(s))

FairSpec == Spec /\ Fairness

-----------------------------------------------------------------------------
(* Properties *)

(* However many requests send first, a process makes one producer: two would each
   have a buffer, and a user's records could overtake each other
   (kafka_client.py:25-35). *)
OneProducer == created <= 1

(* An accepted send is a record in the partition, whatever times out, is sent again
   or dies in between (kafka_client.py:44-52). *)
AcceptedIsRecorded == \A s \in Sends : send[s] = "accepted" => s \in partition

(* Every send ends, even one that meets a producer that never started. *)
SendsEnd == \A s \in Sends : send[s] \in InProgress ~> send[s] \notin InProgress

(* kafka_client.py:14 promises a lazy start "when needed": a request that has got
   past start_producer has a producer that has started, or that another request
   is starting. *)
StartedWhenNeeded ==
  \A s \in Sends : send[s] = "sending" => producer \in {"starting", "started"}

-----------------------------------------------------------------------------
(* Refinement: to its callers, the shared producer, its buffer and its retries are
   sends that are answered once, and whose records arrive or do not
   (kafka_client.py:25-52). *)
Told == [s \in Sends |-> IF send[s] \in InProgress THEN "pending" ELSE send[s]]

Caller == INSTANCE RecordSend WITH answer <- Told

ImplementsRecordSend == Caller!Spec
==============================================================================
