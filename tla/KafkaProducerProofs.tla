-------------------------- MODULE KafkaProducerProofs --------------------------
(***************************************************************************)
(* Proofs about KafkaProducer, for any set of sends.                       *)
(***************************************************************************)
EXTENDS KafkaProducer, TLAPS

(* The inductive invariant.  That the buffer belongs to a producer that has started
   (TypeOK) needs the one request that is starting it: nobody else can, and there
   is nothing to start once it has started or failed. *)
OneStarter ==
  \A s \in Sends : send[s] = "starting"
    => producer = "starting" /\ \A t \in Sends : send[t] = "starting" => t = s

Inductive ==
  /\ TypeOK
  /\ OneStarter
  /\ producer = "none" => created = 0
  /\ OneProducer
  /\ AcceptedIsRecorded

LEMMA InductiveInit == Init => Inductive
BY DEF Init, Inductive, TypeOK, OneStarter, OneProducer, AcceptedIsRecorded, InProgress

LEMMA InductiveStep == Inductive /\ [Next]_vars => Inductive'
<1> SUFFICES ASSUME Inductive, [Next]_vars PROVE Inductive'
  OBVIOUS
<1> USE DEF Inductive, TypeOK, OneStarter, OneProducer, AcceptedIsRecorded, InProgress
<1>1. ASSUME NEW s \in Sends, Call(s) PROVE Inductive'
  BY <1>1 DEF Call, Goto
<1>2. ASSUME NEW s \in Sends, Started(s) PROVE Inductive'
  BY <1>2 DEF Started, Goto
<1>3. ASSUME NEW s \in Sends, StartFails(s) PROVE Inductive'
  BY <1>3 DEF StartFails, Goto
<1>4. ASSUME NEW s \in Sends, Take(s) PROVE Inductive'
  BY <1>4 DEF Take, Goto
<1>5. ASSUME NEW s \in Sends, Write(s) PROVE Inductive'
  BY <1>5 DEF Write
<1>6. ASSUME NEW s \in Sends, Acknowledge(s) PROVE Inductive'
  BY <1>6 DEF Acknowledge, Goto
<1>7. ASSUME NEW s \in Sends, Drop(s) PROVE Inductive'
  BY <1>7 DEF Drop, Goto
<1>8. ASSUME NEW s \in Sends, TimesOut(s) PROVE Inductive'
  BY <1>8 DEF TimesOut, Goto
<1>9. CASE KafkaComesOrGoes
  BY <1>9 DEF KafkaComesOrGoes
<1>10. CASE Restart
  BY <1>10 DEF Restart
<1>11. CASE UNCHANGED vars
  BY <1>11 DEF vars
<1> QED
  BY <1>1, <1>2, <1>3, <1>4, <1>5, <1>6, <1>7, <1>8, <1>9, <1>10, <1>11
     DEF Next, Starting, Sending

(* However many requests race to send first, the process makes one producer
   (kafka_client.py:25-35). *)
THEOREM OnlyOneProducer == Spec => []OneProducer
<1>1. Inductive => OneProducer
  BY DEF Inductive
<1> QED
  BY <1>1, InductiveInit, InductiveStep, PTL DEF Spec

(* What a sender is told was accepted is in the partition (kafka_client.py:44-52). *)
THEOREM AcceptedSendsAreRecorded == Spec => [](TypeOK /\ AcceptedIsRecorded)
<1>1. Inductive => TypeOK /\ AcceptedIsRecorded
  BY DEF Inductive
<1> QED
  BY <1>1, InductiveInit, InductiveStep, PTL DEF Spec

(* The types; in particular only a producer that has started holds records in its buffer. *)
THEOREM ProducerTypeCorrect == Spec => []TypeOK
BY AcceptedSendsAreRecorded, PTL

-----------------------------------------------------------------------------
(* What a caller may count on *)

\* The buffer holds the records of calls that wait for their acknowledgement, or have
\* given up on it.
KeptUnaccepted == \A s \in kept : send[s] \in {"waiting", "failed"}

LEMMA KeptUnacceptedStep == TypeOK /\ KeptUnaccepted /\ [Next]_vars => KeptUnaccepted'
<1> SUFFICES ASSUME TypeOK, KeptUnaccepted, [Next]_vars PROVE KeptUnaccepted'
  OBVIOUS
<1> USE DEF TypeOK, KeptUnaccepted
<1>1. ASSUME NEW s \in Sends, Starting(s) PROVE KeptUnaccepted'
  BY <1>1 DEF Starting, Call, Started, StartFails, Goto
<1>2. ASSUME NEW s \in Sends, Sending(s) PROVE KeptUnaccepted'
  BY <1>2 DEF Sending, Take, Write, Acknowledge, Drop, TimesOut, Goto
<1>3. CASE KafkaComesOrGoes \/ Restart \/ UNCHANGED vars
  BY <1>3 DEF KafkaComesOrGoes, Restart, vars
<1> QED
  BY <1>1, <1>2, <1>3 DEF Next

(* A call that moves on within InProgress is told nothing; one that leaves it is. *)
LEMMA GotoTells ==
  ASSUME TypeOK, NEW s \in Sends, NEW pc, Goto(s, pc)
  PROVE  Told' = [Told EXCEPT ![s] = IF pc \in InProgress THEN "pending" ELSE pc]
BY DEF TypeOK, Goto, Told

LEMMA CallerStep ==
  ASSUME TypeOK, KeptUnaccepted, [Next]_vars
  PROVE  [Caller!Next]_(Caller!vars)
<1>1. Told = [s \in Sends |-> Told[s]] /\ Told' = [s \in Sends |-> Told'[s]]
  BY DEF Told
<1>2. \A s \in Sends : /\ send[s] \in InProgress => Told[s] = "pending"
                       /\ send[s] \notin InProgress => Told[s] = send[s]
  BY DEF Told
<1>3. send' = send => Told' = Told
  BY DEF Told
<1>4. ASSUME NEW s \in Sends, NEW pc \in InProgress, send[s] \in InProgress, Goto(s, pc)
      PROVE  Told' = Told
  BY <1>1, <1>2, <1>4, GotoTells
<1>5. ASSUME NEW s \in Sends, send[s] \in InProgress, Goto(s, "failed"), partition' = partition
      PROVE  Caller!Next
  <2>1. Told' = [t \in Sends |-> IF t \in {s} THEN "failed" ELSE Told[t]]
    BY <1>1, <1>5, GotoTells DEF InProgress
  <2>2. Caller!Fail({s})
    BY <1>2, <1>5, <2>1 DEF Caller!Fail
  <2> QED
    BY <2>2 DEF Caller!Next
<1>6. ASSUME NEW s \in Sends, Call(s) PROVE Caller!Next
  <2>1. PICK pc \in InProgress : Goto(s, pc)
    BY <1>6 DEF Call, InProgress
  <2>2. Caller!Call(s)
    BY <1>2, <1>6, <2>1, GotoTells DEF Call, Caller!Call, Caller!Tell, InProgress
  <2> QED
    BY <2>2 DEF Caller!Next
<1>7. ASSUME NEW s \in Sends, Started(s) \/ Take(s) PROVE Told' = Told /\ partition' = partition
  BY <1>4, <1>7 DEF Started, Take, InProgress
<1>8. ASSUME NEW s \in Sends, StartFails(s) \/ TimesOut(s) PROVE Caller!Next
  BY <1>5, <1>8 DEF StartFails, TimesOut, InProgress
<1>9. ASSUME NEW s \in Sends, partition' = partition \cup {s}, s \in kept, send' = send
      PROVE  Caller!Next
  <2>1. Told[s] \in {"pending", "failed"}
    BY <1>2, <1>9 DEF KeptUnaccepted, InProgress
  <2>2. Caller!Arrive(s)
    BY <1>3, <1>9, <2>1 DEF Caller!Arrive
  <2> QED
    BY <2>2 DEF Caller!Next
<1>10. ASSUME NEW s \in Sends, Acknowledge(s) PROVE Caller!Next
  <2>1. CASE send[s] = "waiting"
    <3>1. Goto(s, "accepted") /\ partition' = partition \cup {s} /\ Told[s] = "pending"
      BY <1>2, <1>10, <2>1 DEF Acknowledge, InProgress
    <3>2. Caller!Accept(s)
      BY <3>1, GotoTells DEF Caller!Accept, Caller!Tell, InProgress
    <3> QED
      BY <3>2 DEF Caller!Next
  <2>2. CASE send[s] # "waiting"
    BY <1>9, <1>10, <2>2 DEF Acknowledge
  <2> QED
    BY <2>1, <2>2
<1>11. ASSUME NEW s \in Sends, Drop(s) PROVE Caller!Next \/ UNCHANGED Caller!vars
  <2>1. CASE send[s] = "waiting"
    BY <1>5, <1>11, <2>1 DEF Drop, InProgress
  <2>2. CASE send[s] # "waiting"
    BY <1>3, <1>11, <2>2 DEF Drop, Caller!vars
  <2> QED
    BY <2>1, <2>2
<1>12. CASE Restart
  <2> DEFINE S == {s \in Sends : send[s] \in InProgress}
  <2>1. Told' = [s \in Sends |-> IF s \in S THEN "failed" ELSE Told[s]]
    BY <1>12 DEF Restart, Told, InProgress
  <2>2. Caller!Fail(S)
    BY <1>2, <1>12, <2>1 DEF Restart, Caller!Fail
  <2> QED
    BY <2>2 DEF Caller!Next
<1>13. CASE KafkaComesOrGoes \/ UNCHANGED vars
  BY <1>3, <1>13 DEF KafkaComesOrGoes, vars, Caller!vars
<1> QED
  BY <1>6, <1>7, <1>8, <1>9, <1>10, <1>11, <1>12, <1>13 DEF Next, Starting, Sending, Write, Caller!vars

(* The shared producer, with its buffer, its retries and its restarts, is what its callers
   take it for: a send answered once, accepted only with its record in the
   partition, and no record of a call that was not made (kafka_client.py:25-52). *)
THEOREM ProducerSendsRecords == Spec => ImplementsRecordSend
<1>1. Init => KeptUnaccepted /\ Caller!Init
  BY DEF Init, KeptUnaccepted, Caller!Init, Told, InProgress
<1>2. TypeOK /\ KeptUnaccepted /\ [Next]_vars => KeptUnaccepted' /\ [Caller!Next]_(Caller!vars)
  BY KeptUnacceptedStep, CallerStep
<1> QED
  BY <1>1, <1>2, ProducerTypeCorrect, PTL DEF Spec, ImplementsRecordSend, Caller!Spec
==============================================================================
