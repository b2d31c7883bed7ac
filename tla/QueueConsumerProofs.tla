-------------------------- MODULE QueueConsumerProofs --------------------------
(***************************************************************************)
(* Proofs about QueueConsumer, for every set of users, pace, set of fault  *)
(* kinds and bounds.                                                       *)
(***************************************************************************)
EXTENDS QueueConsumer, FiniteSetTheorems, TLAPS

-----------------------------------------------------------------------------
(* The sorted set *)

(* ZPOPMIN takes a prefix: whoever is left has a higher score than whoever is
   taken (queue_consumer.py:56). *)
LEMMA LowestIsPrefix ==
  ASSUME NEW z \in Zset, NEW n \in Nat,
         NEW u \in Lowest(z, n), NEW a \in Members(z) \ Lowest(z, n)
  PROVE  z[u] < z[a]
<1>1. /\ u \in Users /\ a \in Users
      /\ z[u] \in Nat /\ z[a] \in Nat
  BY DEF Lowest, Members, Zset
<1>2. \A v \in Users : IsFiniteSet(Ahead(z, v))
  BY UsersFinite, FS_Subset DEF Ahead, Members
<1>3. Rank(z, u) < n /\ ~ (Rank(z, a) < n)
  BY DEF Lowest
<1>4. Rank(z, u) \in Nat /\ Rank(z, a) \in Nat
  BY <1>1, <1>2, FS_CardinalityType DEF Rank
<1>5. SUFFICES ASSUME z[a] <= z[u] PROVE FALSE
  BY <1>1
<1>6. Ahead(z, a) \subseteq Ahead(z, u)
  BY <1>1, <1>5 DEF Ahead, Members, Zset
<1>7. Rank(z, a) <= Rank(z, u)
  BY <1>1, <1>2, <1>6, FS_Subset DEF Rank
<1> QED
  BY <1>3, <1>4, <1>7

(* What a ZADD and a removal leave in the sorted set. *)
LEMMA ZAddMembers ==
  ASSUME NEW z \in Zset, NEW u \in Users, NEW s \in Nat \ {0}
  PROVE  /\ Members(ZAdd(z, u, s)) = Members(z) \cup {u}
         /\ ZAdd(z, u, s)[u] = s
         /\ \A v \in Users \ {u} : ZAdd(z, u, s)[v] = z[v]
BY DEF Members, ZAdd, Zset, Absent

LEMMA ZRemoveMembers ==
  ASSUME NEW z \in Zset, NEW S
  PROVE  /\ Members(ZRemove(z, S)) = Members(z) \ S
         /\ \A v \in Members(z) \ S : ZRemove(z, S)[v] = z[v]
BY DEF Members, ZRemove, Zset, Absent

-----------------------------------------------------------------------------
(* Types *)

LEMMA TypeInit == Init => TypeOK
BY ConsumerConstants
   DEF Init, TypeOK, EmptyZset, Members, Absent, GateStates, Offsets

LEMMA ScoresAreOffsets ==
  ASSUME NEW n \in Nat, NEW z \in [Users -> 0..n]
  PROVE  Scores(z) \subseteq 1..n
BY DEF Scores, Members, Absent

LEMMA PartsKeepType ==
  ASSUME NEW n \in Nat, NEW z \in [Users -> 0..n], NEW S
  PROVE  /\ ZRemove(z, S) \in [Users -> 0..n]
         /\ ZKeep(z, S) \in [Users -> 0..n]
BY DEF ZRemove, ZKeep, Absent

LEMMA EmptyType == \A n \in Nat : EmptyZset \in [Users -> 0..n]
BY DEF EmptyZset, Absent

(* What TypeOK says of the scores the dequeue loop moves around. *)
LEMMA ScoreTypes ==
  ASSUME TypeOK
  PROVE  /\ Len(log) \in Nat
         /\ EmptyZset \in [Users -> 0..Len(log)]
         /\ Members(EmptyZset) = {}
         /\ \A S : ZRemove(zset, S) \in [Users -> 0..Len(log)]
         /\ \A S : ZKeep(zset, S) \in [Users -> 0..Len(log)]
         /\ \A S : ZRemove(batch, S) \in [Users -> 0..Len(log)]
         /\ \A S : Scores(ZKeep(zset, S)) \subseteq Offsets
         /\ Scores(batch) \subseteq Offsets
<1>1. /\ Len(log) \in Nat
      /\ zset \in [Users -> 0..Len(log)]
      /\ batch \in [Users -> 0..Len(log)]
  BY DEF TypeOK
<1>2. EmptyZset \in [Users -> 0..Len(log)] /\ Members(EmptyZset) = {}
  BY <1>1, EmptyType DEF EmptyZset, Members
<1>3. \A S : ZRemove(zset, S) \in [Users -> 0..Len(log)]
  BY <1>1, PartsKeepType
<1>4. \A S : ZKeep(zset, S) \in [Users -> 0..Len(log)]
  BY <1>1, PartsKeepType
<1>5. \A S : ZRemove(batch, S) \in [Users -> 0..Len(log)]
  BY <1>1, PartsKeepType
<1>6. \A S : Scores(ZKeep(zset, S)) \subseteq Offsets
  BY <1>1, <1>4, ScoresAreOffsets DEF Offsets
<1>7. Scores(batch) \subseteq Offsets
  BY <1>1, ScoresAreOffsets DEF Offsets
<1> QED
  BY <1>1, <1>2, <1>3, <1>4, <1>5, <1>6, <1>7

LEMMA HaltType ==
  ASSUME TypeOK, Halt(position) \/ Halt(committed), faults' \in 0..MaxFaults
  PROVE  TypeOK'
<1> USE DEF TypeOK, Offsets, Halt, store
<1>1. log' = log /\ zset' = zset /\ gate' = gate /\ marked' = marked
  OBVIOUS
<1>2. batch' \in [Users -> 0..Len(log)] /\ Members(batch') = {}
  BY ScoreTypes
<1>3. skipped' \in SUBSET Offsets
  <2>1. skipped' \subseteq skipped \cup (IF loop = "add" THEN {position} ELSE {})
    OBVIOUS
  <2>2. loop = "add" => position \in 1..Len(log)
    OBVIOUS
  <2> QED
    BY <1>1, <2>1, <2>2
<1>4. forfeited' \in SUBSET Offsets
  BY ScoreTypes
<1>5. position' \in 0..Len(log) /\ committed' \in 0..position'
  BY <1>1
<1> QED
  BY <1>1, <1>2, <1>3, <1>4, <1>5

LEMMA TypeStep == TypeOK /\ [Next]_vars => TypeOK'
<1> SUFFICES ASSUME TypeOK, [Next]_vars PROVE TypeOK'
  OBVIOUS
<1> USE ConsumerConstants DEF TypeOK, Offsets
<1> USE DEF store, dequeuer, projector, history
<1>1. CASE Start
  BY <1>1 DEF Start
<1>2. CASE AutoCommit
  BY <1>2 DEF AutoCommit
<1>3. CASE Fetch
  BY <1>3 DEF Fetch
<1>4. CASE Add
  <2>1. log[position] \in Users /\ position \in 0..Len(log)
    BY <1>4 DEF Add
  <2>2. zset' \in [Users -> 0..Len(log)]
    BY <1>4, <2>1 DEF Add, ZAdd
  <2> QED
    BY <1>4, <2>2 DEF Add
<1>5. CASE Publish
  BY <1>5 DEF Publish
<1>6. CASE Pop
  <2>1. /\ zset' \in [Users -> 0..Len(log)]
        /\ batch' \in [Users -> 0..Len(log)]
    BY <1>6, ScoreTypes DEF Pop
  <2> QED
    BY <1>6, <2>1 DEF Pop
<1>7. CASE PublishRelease
  BY <1>7 DEF PublishRelease
<1>8. ASSUME NEW u \in Users, Mark(u) PROVE TypeOK'
  <2>1. batch' \in [Users -> 0..Len(log)]
    BY <1>8, ScoreTypes DEF Mark
  <2>2. batch[u] \in Offsets
    BY <1>8 DEF Mark, Lowest, Members, Absent
  <2>3. dq' # "mark" => Members(batch') = {}
    BY <1>8, batch \in Zset, ZRemoveMembers DEF Mark, Zset
  <2> QED
    BY <1>8, <2>1, <2>2, <2>3 DEF Mark, GateStates
<1>9. CASE AddFails
  BY <1>9 DEF AddFails, Fault
<1>10. CASE PopFails
  <2>1. zset' \in [Users -> 0..Len(log)]
    BY <1>10, ScoreTypes DEF PopFails
  <2>2. forfeited' \in SUBSET Offsets
    BY <1>10, ScoreTypes DEF PopFails
  <2> QED
    BY <1>10, <2>1, <2>2 DEF PopFails, Fault
<1>11. CASE MarkFails
  <2>1. batch' \in [Users -> 0..Len(log)] /\ Members(batch') = {}
    BY <1>11, ScoreTypes DEF MarkFails
  <2>2. forfeited' \in SUBSET Offsets
    BY <1>11, ScoreTypes DEF MarkFails
  <2> QED
    BY <1>11, <2>1, <2>2 DEF MarkFails, Fault
<1>12. CASE Stop \/ LoopRaises
  <2>1. faults' \in 0..MaxFaults
    BY <1>12 DEF Stop, LoopRaises, Fault, Halt
  <2> HIDE DEF TypeOK
  <2> QED
    BY <1>12, <2>1, HaltType DEF Stop, LoopRaises
<1>13. CASE Crash
  <2>1. faults' \in 0..MaxFaults
    BY <1>13 DEF Crash, Fault
  <2> HIDE DEF TypeOK
  <2> QED
    BY <1>13, <2>1, HaltType DEF Crash
<1>14. ASSUME NEW u \in Users, Produce(u) PROVE TypeOK'
  <2>1. log' \in Seq(Users) /\ Len(log') = Len(log) + 1
    BY <1>14 DEF Produce
  <2> QED
    BY <1>14, <2>1 DEF Produce
<1>15. ASSUME NEW u \in Users, NEW m \in {"none", "waiting"}, WriteGate(u, m)
       PROVE  TypeOK'
  BY <1>15 DEF WriteGate, GateStates
<1>16. CASE UNCHANGED vars
  BY <1>16 DEF vars
<1>17. CASE StartFails
  BY <1>17 DEF StartFails, Fault
<1>18. CASE DequeuerDies
  BY <1>18 DEF DequeuerDies, Fault, Members
<1> QED
  BY <1>1, <1>2, <1>3, <1>4, <1>5, <1>6, <1>7, <1>8, <1>9, <1>10, <1>11, <1>12,
     <1>13, <1>14, <1>15, <1>16, <1>17, <1>18
  DEF Next, Consumer, Consume, Dequeue, Failure, Environment

(* Every variable keeps its type, whatever fails and however the two tasks
   interleave; in particular the committed offset never passes the position,
   nor the position the end of the partition. *)
THEOREM TypeCorrect == Spec => []TypeOK
BY TypeInit, TypeStep, PTL DEF Spec

-----------------------------------------------------------------------------
(* The order of the queue *)

Order == ScoreIsOffset /\ LatestTicket /\ FifoRelease

LEMMA OrderInit == Init => Order
BY DEF Init, Order, ScoreIsOffset, LatestTicket, FifoRelease, Handled, Members,
       EmptyZset

(* A handled offset is one of the partition's. *)
LEMMA HandledOffsets ==
  ASSUME TypeOK
  PROVE  /\ Handled \subseteq 1..position
         /\ Handled \subseteq Offsets
         /\ \A o \in Handled : log[o] \in Users
BY DEF TypeOK, Handled, Offsets

(* Steps that leave the sorted set alone and finish no record: whatever happens
   to the position, the batch and the end of the partition, order is kept. *)
LEMMA OrderKept ==
  ASSUME TypeOK, Order, Handled' \subseteq Handled, zset' = zset,
         Len(log) <= Len(log'), \A o \in Offsets : log'[o] = log[o],
         \A u \in Users : batch'[u] \in {batch[u], Absent}
  PROVE  Order'
<1>1. \A u \in Users : /\ zset[u] \in 0..Len(log) /\ batch[u] \in 0..Len(log)
                       /\ zset[u] # Absent => zset[u] \in Offsets
                       /\ batch[u] # Absent => batch[u] \in Offsets
  BY DEF TypeOK, Offsets, Absent
<1>2. ScoreIsOffset'
  BY <1>1 DEF Order, ScoreIsOffset
<1>3. Members(zset') = Members(zset)
  OBVIOUS
<1>4. \A o \in Handled' : o \in Handled /\ log'[o] = log[o]
  BY HandledOffsets
<1>5. LatestTicket'
  BY <1>3, <1>4 DEF Order, LatestTicket
<1>6. FifoRelease'
  BY <1>3, <1>4 DEF Order, FifoRelease
<1> QED
  BY <1>2, <1>5, <1>6 DEF Order

(* A ZPOPMIN, its reply received or lost, keeps it: by LatestTicket the users it
   takes have no handled record beyond their score. *)
LEMMA OrderReleased ==
  ASSUME TypeOK, Order, Handled' = Handled, log' = log,
         zset' = ZRemove(zset, Lowest(zset, PerSec)),
         \A u \in Users : batch'[u] \in {batch[u], zset[u], Absent}
  PROVE  Order'
<1>1. zset \in Zset /\ PerSec \in Nat
  BY ConsumerConstants DEF TypeOK, Zset
<1>2. /\ Members(zset') = Members(zset) \ Lowest(zset, PerSec)
      /\ \A u \in Members(zset') : zset'[u] = zset[u]
  BY <1>1, ZRemoveMembers
<1>3. ScoreIsOffset'
  <2>1. \A u \in Users : zset'[u] \in {zset[u], Absent}
    BY DEF ZRemove
  <2> QED
    BY <2>1 DEF Order, ScoreIsOffset
<1>4. LatestTicket'
  BY <1>2 DEF Order, LatestTicket
<1>5. FifoRelease'
  <2> SUFFICES ASSUME NEW o \in Handled, log[o] \notin Members(zset'),
                      NEW a \in Members(zset')
               PROVE  o < zset'[a]
    BY DEF FifoRelease
  <2>1. CASE log[o] \notin Members(zset)
    BY <2>1, <1>2 DEF Order, FifoRelease
  <2>2. CASE log[o] \in Members(zset)
    <3>1. log[o] \in Lowest(zset, PerSec) /\ a \in Members(zset) \ Lowest(zset, PerSec)
      BY <2>2, <1>2
    <3>2. zset[log[o]] < zset[a]
      BY <1>1, <3>1, LowestIsPrefix
    <3>3. o <= zset[log[o]]
      BY <2>2 DEF Order, LatestTicket
    <3>4. o \in Nat /\ zset[log[o]] \in Nat /\ zset[a] \in Nat
      BY <2>2, <1>1, <1>2, HandledOffsets DEF Zset, Members
    <3> QED
      BY <1>2, <3>2, <3>3, <3>4
  <2> QED
    BY <2>1, <2>2
<1> QED
  BY <1>3, <1>4, <1>5 DEF Order

(* A ZADD puts the user behind everybody the loop has handled. *)
LEMMA OrderAdded ==
  ASSUME TypeOK, Order, Add
  PROVE  Order'
<1> DEFINE w == log[position]
<1>1. /\ w \in Users /\ position \in Nat \ {0} /\ zset \in Zset
      /\ log' = log /\ position' = position /\ batch' = batch
  <2>1. zset \in Zset
    BY DEF TypeOK, Zset
  <2>2. position \in 1..Len(log)
    BY DEF TypeOK, Add
  <2>3. w \in Users
    BY <2>2 DEF TypeOK
  <2> QED
    BY <2>1, <2>2, <2>3 DEF Add, dequeuer
<1>2. /\ Members(zset') = Members(zset) \cup {w}
      /\ zset'[w] = position
      /\ \A v \in Users \ {w} : zset'[v] = zset[v]
  BY <1>1, ZAddMembers DEF Add
<1>3. Handled' = Handled \cup {position} /\ Handled \subseteq 1..position-1
  BY <1>1 DEF Add, Handled
<1>4. ScoreIsOffset'
  BY <1>1, <1>2 DEF Order, ScoreIsOffset
<1>5. LatestTicket'
  <2> SUFFICES ASSUME NEW u \in Members(zset'), NEW o \in Handled', log[o] = u
               PROVE  o <= zset'[u]
    BY <1>1 DEF LatestTicket
  <2>1. CASE u = w
    <3>1. o \in 1..position
      BY <1>1, <1>3
    <3> QED
      BY <2>1, <3>1, <1>2
  <2>2. CASE u # w
    BY <2>2, <1>2, <1>3 DEF Order, LatestTicket, Members
  <2> QED
    BY <2>1, <2>2
<1>6. FifoRelease'
  <2> SUFFICES ASSUME NEW o \in Handled', log[o] \notin Members(zset'),
                      NEW a \in Members(zset')
               PROVE  o < zset'[a]
    BY <1>1 DEF FifoRelease
  <2>1. o \in Handled /\ o < position
    BY <1>1, <1>2, <1>3
  <2>2. CASE a = w
    BY <2>1, <2>2, <1>2
  <2>3. CASE a # w
    BY <2>1, <2>3, <1>2 DEF Order, FifoRelease, Members
  <2> QED
    BY <2>2, <2>3
<1> QED
  BY <1>4, <1>5, <1>6 DEF Order

(* Every other step hands out, finishes or gives up a record without touching
   the sorted set. *)
LEMMA OrderStep == TypeOK /\ TypeOK' /\ Order /\ [Next]_vars => Order'
<1> SUFFICES ASSUME TypeOK, TypeOK', Order, [Next]_vars PROVE Order'
  OBVIOUS
<1> USE DEF store, dequeuer, projector, history
<1> DEFINE Quiet == /\ Handled' \subseteq Handled
                    /\ zset' = zset
                    /\ Len(log) <= Len(log')
                    /\ \A o \in Offsets : log'[o] = log[o]
                    /\ \A u \in Users : batch'[u] \in {batch[u], Absent}
<1>q. Quiet => Order'
  BY OrderKept
<1>l. Len(log) \in Nat /\ position \in Nat /\ committed \in 0..position
  BY DEF TypeOK
<1> HIDE DEF Quiet
<1>1. CASE Start
  BY <1>1, <1>l, <1>q DEF Start, Quiet, Handled
<1>2. CASE AutoCommit
  BY <1>2, <1>l, <1>q DEF AutoCommit, Quiet, Handled
<1>3. CASE Fetch
  BY <1>3, <1>l, <1>q DEF Fetch, Quiet, Handled
<1>4. CASE Add
  BY <1>4, OrderAdded
<1>5. CASE Publish
  BY <1>5, <1>l, <1>q DEF Publish, Quiet, Handled
<1>6. CASE Pop
  <2>1. \A u \in Users : batch'[u] \in {batch[u], zset[u], Absent}
    BY <1>6 DEF Pop, ZKeep
  <2> QED
    BY <1>6, <2>1, OrderReleased DEF Pop, Handled
<1>7. CASE PublishRelease
  BY <1>7, <1>l, <1>q DEF PublishRelease, Quiet, Handled
<1>8. ASSUME NEW u \in Users, Mark(u) PROVE Order'
  BY <1>8, <1>l, <1>q DEF Mark, Quiet, Handled, ZRemove
<1>9. CASE AddFails \/ StartFails \/ DequeuerDies
  BY <1>9, <1>l, <1>q DEF AddFails, StartFails, DequeuerDies, Quiet, Handled
<1>10. CASE PopFails
  BY <1>10, OrderReleased DEF PopFails, Handled
<1>11. CASE MarkFails
  BY <1>11, <1>l, <1>q DEF MarkFails, Quiet, Handled, EmptyZset
<1>12. ASSUME Halt(position) \/ Halt(committed) PROVE Order'
  BY <1>12, <1>l, <1>q DEF Halt, Quiet, Handled, EmptyZset
<1>14. ASSUME NEW u \in Users, Produce(u) PROVE Order'
  <2>1. Len(log) <= Len(log') /\ \A o \in Offsets : log'[o] = log[o]
    BY <1>14 DEF Produce, TypeOK, Offsets
  <2> QED
    BY <1>14, <2>1, <1>q DEF Produce, Quiet, Handled
<1>15. ASSUME NEW u \in Users, NEW m \in {"none", "waiting"}, WriteGate(u, m)
       PROVE  Order'
  BY <1>15, <1>l, <1>q DEF WriteGate, Quiet, Handled
<1>16. CASE UNCHANGED vars
  BY <1>16, <1>l, <1>q DEF vars, Quiet, Handled
<1> QED
  BY <1>1, <1>2, <1>3, <1>4, <1>5, <1>6, <1>7, <1>8, <1>9, <1>10, <1>11, <1>12,
     <1>14, <1>15, <1>16
  DEF Next, Consumer, Consume, Dequeue, Failure, Environment, Stop, LoopRaises, Crash

(* Redis order is arrival order, a waiting user stands at the place of their
   latest handled record, and release is first come, first served, for any
   number of users, records and faults, redeliveries after a crash included
   (queue_consumer.py:23-103). *)
THEOREM FirstComeFirstServed ==
  Spec => [](ScoreIsOffset /\ LatestTicket /\ FifoRelease)
<1>1. Init => TypeOK /\ Order
  BY TypeInit, OrderInit
<1>2. TypeOK /\ Order /\ [Next]_vars => (TypeOK /\ Order)'
  BY TypeStep, OrderStep
<1>3. Order => ScoreIsOffset /\ LatestTicket /\ FifoRelease
  BY DEF Order
<1> QED
  BY <1>1, <1>2, <1>3, PTL DEF Spec

(* A score is the offset of one of the user's own records (queue_consumer.py:79-81). *)
THEOREM ScoresStayOffsets == Spec => []ScoreIsOffset
BY FirstComeFirstServed, PTL

(* A user in the queue stands at the place of the latest record handled (queue_consumer.py:81). *)
THEOREM LatestPlaceHolds == Spec => []LatestTicket
BY FirstComeFirstServed, PTL

-----------------------------------------------------------------------------
(* Where every ticket is *)

Accounted(o) ==
  \/ LaterTicket(o)
  \/ o \in {zset[log[o]], batch[log[o]]}
  \/ o \in marked \cup forfeited

(* The partition only grows. *)
LEMMA LogGrows ==
  ASSUME TypeOK, [Next]_vars
  PROVE  /\ Len(log) \in Nat /\ Len(log') \in Nat
         /\ Len(log) <= Len(log')
         /\ \A o \in Offsets : log'[o] = log[o]
<1>1. CASE log' = log
  BY <1>1 DEF TypeOK
<1>2. ASSUME NEW u \in Users, Produce(u)
      PROVE  Len(log') = Len(log) + 1 /\ \A o \in Offsets : log'[o] = log[o]
  BY <1>2 DEF Produce, TypeOK, Offsets
<1>3. (\E u \in Users : Produce(u)) \/ log' = log
  BY DEF Next, Consumer, Consume, Dequeue, Failure, Environment, vars, projector,
         Start, AutoCommit, Fetch, Add, Publish, Pop, PublishRelease, Mark,
         StartFails, DequeuerDies, AddFails, PopFails, MarkFails, Stop, LoopRaises, Crash, Halt, WriteGate
<1>4. Len(log) \in Nat
  BY DEF TypeOK
<1> QED
  BY <1>1, <1>2, <1>3, <1>4

(* So a record that is superseded stays so. *)
LEMMA LaterTicketStays ==
  ASSUME TypeOK, [Next]_vars, NEW o \in Offsets, LaterTicket(o)
  PROVE  LaterTicket(o)'
<1>1. PICK p \in o+1..Len(log) : log[p] = log[o]
  BY DEF LaterTicket
<1>2. o \in 1..Len(log)
  BY DEF Offsets
<1>3. p \in 1..Len(log) /\ p \in o+1..Len(log')
  BY <1>1, <1>2, LogGrows
<1>4. log'[p] = log'[o]
  BY <1>1, <1>2, <1>3, LogGrows DEF Offsets
<1> QED
  BY <1>3, <1>4 DEF LaterTicket

(* A step that keeps the places of a user's tickets, or notes where they went,
   keeps the ticket accounted for. *)
LEMMA AccountedKept ==
  ASSUME TypeOK, [Next]_vars, NEW o \in Offsets, Accounted(o),
         o = zset[log[o]] => \/ o \in {zset'[log[o]], batch'[log[o]]}
                             \/ o \in forfeited' \/ LaterTicket(o)',
         o = batch[log[o]] => \/ o = batch'[log[o]]
                              \/ o \in marked' \cup forfeited',
         marked \subseteq marked', forfeited \subseteq forfeited'
  PROVE  Accounted(o)'
<1>1. log'[o] = log[o]
  BY LogGrows
<1>2. LaterTicket(o) => LaterTicket(o)'
  BY LaterTicketStays
<1> QED
  BY <1>1, <1>2 DEF Accounted

LEMMA AccountedInit == Init => TicketsAccounted
BY DEF Init, TicketsAccounted, Handled

(* The ZADD moves the user's place: the ticket that stood there is superseded. *)
LEMMA AccountedAdd ==
  ASSUME TypeOK, [Next]_vars, Add, TicketsAccounted
  PROVE  TicketsAccounted'
<1> SUFFICES ASSUME NEW o \in Handled' PROVE Accounted(o)'
  BY DEF TicketsAccounted, Accounted
<1> DEFINE w == log[position]
<1>1. /\ w \in Users /\ zset \in [Users -> 0..Len(log)] /\ position \in 1..Len(log)
  <2>1. zset \in [Users -> 0..Len(log)] /\ position \in 1..Len(log)
    BY DEF TypeOK, Add
  <2> QED
    BY <2>1 DEF TypeOK
<1>2. /\ log' = log /\ batch' = batch /\ marked' = marked /\ forfeited' = forfeited
      /\ zset' = [zset EXCEPT ![w] = position]
  BY DEF Add, ZAdd, dequeuer
<1>3. CASE o = position
  BY <1>1, <1>2, <1>3 DEF Accounted
<1>4. CASE o # position
  <2>1. o \in Handled /\ o < position
    BY <1>1, <1>4 DEF Add, Handled
  <2>2. o \in Offsets /\ Accounted(o)
    BY <2>1, HandledOffsets DEF TicketsAccounted, Accounted
  <2>3. log[o] = w => LaterTicket(o)'
    BY <1>1, <1>2, <2>1, <2>2 DEF LaterTicket, Offsets
  <2>4. log[o] # w => zset'[log[o]] = zset[log[o]]
    BY <1>1, <1>2, <2>1, HandledOffsets
  <2> QED
    BY <1>2, <2>2, <2>3, <2>4, AccountedKept
<1> QED
  BY <1>3, <1>4

LEMMA AccountedStep == TypeOK /\ [Next]_vars /\ TicketsAccounted => TicketsAccounted'
<1> SUFFICES ASSUME TypeOK, [Next]_vars, TicketsAccounted, ~ Add
             PROVE  TicketsAccounted'
  BY AccountedAdd
<1> USE DEF store, dequeuer, projector, history
<1>1. Handled' \subseteq Handled
  <2>1. position \in Nat /\ committed \in 0..position
    BY DEF TypeOK
  <2> DEFINE Same == UNCHANGED <<position, skipped>> /\ (loop' = "add" <=> loop = "add")
  <2>2. Same \/ Fetch \/ AddFails \/ Halt(position) \/ Halt(committed)
    BY DEF Next, Consumer, Consume, Dequeue, Failure, Environment, vars, Start,
         StartFails, DequeuerDies, AutoCommit, Publish, Pop, PublishRelease, Mark, PopFails, MarkFails,
         Stop, LoopRaises, Crash, WriteGate, Produce
  <2>3. CASE Same
    BY <2>3 DEF Handled
  <2>4. CASE Fetch
    BY <2>1, <2>4 DEF Handled, Fetch
  <2>5. CASE AddFails
    BY <2>1, <2>5 DEF Handled, AddFails
  <2>6. CASE Halt(position) \/ Halt(committed)
    BY <2>1, <2>6 DEF Handled, Halt
  <2> QED
    BY <2>2, <2>3, <2>4, <2>5, <2>6
<1> SUFFICES ASSUME NEW o \in Handled, NEW w \in Users, w = log[o], o \in Offsets,
                    Accounted(o)
             PROVE  Accounted(o)'
  BY <1>1, HandledOffsets DEF TicketsAccounted, Accounted
<1>2. /\ o \in Nat \ {0} /\ PerSec \in Nat
      /\ o = zset[w] => w \in Members(zset)
      /\ o = batch[w] => w \in Members(batch)
  BY ConsumerConstants DEF Offsets, Members, Absent, TypeOK
<1>3. CASE UNCHANGED <<zset, batch, marked, forfeited>>
  BY <1>3, AccountedKept
<1>4. CASE Pop
  <2>1. /\ o = zset[w] => o \in {zset'[w], batch'[w]}
        /\ o # batch[w]
    BY <1>2, <1>4 DEF Pop, ZKeep, ZRemove, TypeOK
  <2> QED
    BY <1>4, <2>1, AccountedKept DEF Pop
<1>5. CASE PopFails
  <2>1. o = zset[w] => o = zset'[w] \/ o \in Scores(ZKeep(zset, Lowest(zset, PerSec)))
    BY <1>2, <1>5 DEF PopFails, ZKeep, ZRemove, Scores, Members, Absent
  <2> QED
    BY <1>5, <2>1, AccountedKept DEF PopFails
<1>6. ASSUME NEW u \in Users, Mark(u) PROVE Accounted(o)'
  <2>1. o = batch[w] => o = batch'[w] \/ o \in marked'
    BY <1>2, <1>6 DEF Mark, ZRemove
  <2> QED
    BY <1>6, <2>1, AccountedKept DEF Mark
<1>7. ASSUME forfeited' = forfeited \cup Scores(batch), UNCHANGED <<zset, marked>>
      PROVE  Accounted(o)'
  <2>1. o = batch[w] => o \in forfeited'
    BY <1>2, <1>7 DEF Scores
  <2> QED
    BY <1>7, <2>1, AccountedKept
<1>8. MarkFails \/ Stop \/ LoopRaises \/ Crash =>
        forfeited' = forfeited \cup Scores(batch) /\ UNCHANGED <<zset, marked>>
  BY DEF MarkFails, Stop, LoopRaises, Crash, Halt
<1>9. \/ UNCHANGED <<zset, batch, marked, forfeited>>
      \/ Pop \/ PopFails \/ MarkFails \/ Stop \/ LoopRaises \/ Crash \/ \E u \in Users : Mark(u)
  BY DEF Next, Consumer, Consume, Dequeue, Failure, Environment, vars, Start,
         StartFails, DequeuerDies, AutoCommit, Fetch, Publish, PublishRelease, AddFails, WriteGate, Produce
<1> QED
  BY <1>3, <1>4, <1>5, <1>6, <1>7, <1>8, <1>9

(* No ticket vanishes without a trace, whatever fails and whenever: every record
   the loop is done with is waiting, in the batch, released, forfeited by a fault
   or superseded (queue_consumer.py:41-87). *)
THEOREM NoTicketVanishes == Spec => []TicketsAccounted
BY TypeInit, TypeStep, AccountedInit, AccountedStep, PTL DEF Spec

-----------------------------------------------------------------------------
(* What a fault can cost *)

(* Where no two members tie, ZPOPMIN key n returns at most n of them: their ranks differ
   (queue_consumer.py:56). *)
LEMMA LowestIsBounded ==
  ASSUME NEW z \in Zset, NEW n \in Nat,
         \A u, v \in Members(z) : z[u] = z[v] => u = v
  PROVE  Cardinality(Lowest(z, n)) <= n
<1> DEFINE S == Lowest(z, n)
           f == [u \in S |-> Rank(z, u)]
<1>1. S \subseteq Members(z) /\ Members(z) \subseteq Users /\ \A u \in Users : z[u] \in Nat
  BY DEF Lowest, Members, Zset
<1>2. \A u \in Users : IsFiniteSet(Ahead(z, u))
  BY UsersFinite, FS_Subset DEF Ahead, Members
<1>3. \A u \in S : Rank(z, u) \in 0..(n - 1)
  BY <1>1, <1>2, FS_CardinalityType DEF Rank, Lowest
<1>4. \A u, v \in S : z[u] < z[v] => Rank(z, u) < Rank(z, v)
  <2> SUFFICES ASSUME NEW u \in S, NEW v \in S, z[u] < z[v] PROVE Rank(z, u) < Rank(z, v)
    OBVIOUS
  <2>1. Ahead(z, u) \subseteq Ahead(z, v) /\ u \in Ahead(z, v) /\ u \notin Ahead(z, u)
    BY <1>1 DEF Ahead
  <2>2. /\ Cardinality(Ahead(z, u)) <= Cardinality(Ahead(z, v))
        /\ Cardinality(Ahead(z, u)) # Cardinality(Ahead(z, v))
    BY <1>1, <1>2, <2>1, FS_Subset
  <2> QED
    BY <1>1, <1>2, <2>2, FS_CardinalityType DEF Rank
<1>5. f \in [S -> 0..(n - 1)]
  BY <1>3
<1>6. \A u, v \in S : f[u] = f[v] => u = v
  <2> SUFFICES ASSUME NEW u \in S, NEW v \in S, Rank(z, u) = Rank(z, v) PROVE u = v
    OBVIOUS
  <2>1. ~ (z[u] < z[v]) /\ ~ (z[v] < z[u])
    BY <1>3, <1>4
  <2> QED
    BY <1>1, <2>1
<1> HIDE DEF S, f
<1>7. f \in Injection(S, 0..(n - 1))
  BY <1>5, <1>6 DEF Injection, IsInjective
<1>8. IsFiniteSet(0..(n - 1)) /\ Cardinality(0..(n - 1)) = n
  BY FS_Interval
<1> QED
  BY <1>7, <1>8, FS_Injection DEF S

(* There are no more scores than members. *)
LEMMA ScoresAreBounded ==
  ASSUME NEW z
  PROVE  /\ IsFiniteSet(Members(z)) /\ IsFiniteSet(Scores(z))
         /\ Cardinality(Members(z)) \in Nat /\ Cardinality(Scores(z)) \in Nat
         /\ Cardinality(Scores(z)) <= Cardinality(Members(z))
<1> DEFINE f == [u \in Members(z) |-> z[u]]
<1>1. IsFiniteSet(Members(z))
  BY UsersFinite, FS_Subset DEF Members
<1>2. f \in [Members(z) -> Scores(z)] /\ \A s \in Scores(z) : \E u \in Members(z) : f[u] = s
  BY DEF Scores
<1> HIDE DEF f
<1>3. f \in Surjection(Members(z), Scores(z))
  BY <1>2 DEF Surjection
<1> QED
  BY <1>1, <1>3, FS_Surjection, FS_CardinalityType

Loss == LossBound /\ Cardinality(Members(batch)) <= PerSec

LEMMA LossInit == Init => Loss
BY FS_EmptySet, ConsumerConstants DEF Init, Loss, LossBound, Members, EmptyZset

(* The two history sets are finite: they hold offsets of the partition. *)
LEMMA HistoryFinite ==
  ASSUME TypeOK
  PROVE  /\ IsFiniteSet(skipped) /\ Cardinality(skipped) \in Nat
         /\ IsFiniteSet(forfeited) /\ Cardinality(forfeited) \in Nat
<1>1. Len(log) \in Nat /\ skipped \subseteq 1..Len(log) /\ forfeited \subseteq 1..Len(log)
  BY DEF TypeOK, Offsets
<1>2. IsFiniteSet(1..Len(log))
  BY <1>1, FS_Interval
<1>3. IsFiniteSet(skipped) /\ IsFiniteSet(forfeited)
  BY <1>1, <1>2, FS_Subset
<1> QED
  BY <1>3, FS_CardinalityType

(* A fault that gives up at most the record in hand keeps the first bound .. *)
LEMMA SkipsOne ==
  ASSUME TypeOK, LossBound, faults' = faults + 1, NEW s, s \subseteq skipped \cup {position}
  PROVE  Cardinality(s) <= faults'
<1>1. /\ IsFiniteSet(skipped \cup {position})
      /\ Cardinality(skipped \cup {position}) <= Cardinality(skipped) + 1
  <2>1. IsFiniteSet(skipped) /\ Cardinality(skipped) \in Nat
    BY HistoryFinite
  <2>2. /\ IsFiniteSet(skipped \cup {position})
        /\ Cardinality(skipped \cup {position})
             = IF position \in skipped THEN Cardinality(skipped) ELSE Cardinality(skipped) + 1
    BY <2>1, FS_AddElement
  <2> QED
    BY <2>1, <2>2
<1>2. Cardinality(s) <= Cardinality(skipped) + 1
  BY <1>1, HistoryFinite, FS_Subset, FS_CardinalityType
<1>3. IsFiniteSet(s) /\ Cardinality(s) \in Nat
  BY <1>1, FS_Subset, FS_CardinalityType
<1> QED
  BY <1>2, <1>3, HistoryFinite DEF LossBound, TypeOK

(* .. and one that loses at most PerSec scores the second. *)
LEMMA LosesOneBatch ==
  ASSUME TypeOK, LossBound, faults' = faults + 1, NEW z, Cardinality(Members(z)) <= PerSec
  PROVE  Cardinality(forfeited \cup Scores(z)) <= PerSec * faults'
<1>1. Cardinality(Scores(z)) \in Nat /\ Cardinality(Scores(z)) <= PerSec
  BY ScoresAreBounded, ConsumerConstants
<1>2. Cardinality(forfeited \cup Scores(z)) <= Cardinality(forfeited) + Cardinality(Scores(z))
  <2>1. IsFiniteSet(forfeited) /\ IsFiniteSet(Scores(z)) /\ IsFiniteSet(forfeited \cap Scores(z))
    BY HistoryFinite, ScoresAreBounded, FS_Subset
  <2>2. Cardinality(forfeited \cap Scores(z)) \in Nat
    BY <2>1, FS_CardinalityType
  <2>3. Cardinality(forfeited \cup Scores(z))
          = Cardinality(forfeited) + Cardinality(Scores(z)) - Cardinality(forfeited \cap Scores(z))
    BY <2>1, FS_Union
  <2> QED
    BY <1>1, <2>2, <2>3, HistoryFinite
<1>3. Cardinality(forfeited \cup Scores(z)) \in Nat
  BY HistoryFinite, ScoresAreBounded, FS_Union, FS_CardinalityType
<1>4. PerSec * faults' = PerSec * faults + PerSec /\ PerSec * faults \in Nat
  BY ConsumerConstants DEF TypeOK
<1> DEFINE cost == PerSec * faults
<1>5. Cardinality(forfeited) <= cost
  BY DEF LossBound
<1>6. cost \in Nat /\ PerSec \in Nat /\ PerSec * faults' = cost + PerSec
  BY <1>4, ConsumerConstants
<1> HIDE DEF cost
<1> QED
  BY <1>1, <1>2, <1>3, <1>5, <1>6, HistoryFinite

(* Steps that are no faults and lose nothing. *)
LEMMA NothingLost ==
  ASSUME TypeOK, Loss, faults' = faults, forfeited' = forfeited, skipped' \subseteq skipped,
         Cardinality(Members(batch')) <= PerSec
  PROVE  Loss'
<1>1. Cardinality(skipped') <= Cardinality(skipped) /\ Cardinality(skipped') \in Nat
  BY HistoryFinite, FS_Subset, FS_CardinalityType
<1>2. Cardinality(skipped') <= faults'
  BY <1>1, HistoryFinite DEF Loss, LossBound, TypeOK
<1>3. Members(batch)' = Members(batch')
  BY DEF Members
<1> QED
  BY <1>2, <1>3 DEF Loss, LossBound

LEMMA LossStep == TypeOK /\ ScoreIsOffset /\ Loss /\ [Next]_vars => Loss'
<1> SUFFICES ASSUME TypeOK, ScoreIsOffset, Loss, [Next]_vars PROVE Loss'
  OBVIOUS
<1> DEFINE first == ZKeep(zset, Lowest(zset, PerSec))
<1>1. /\ zset \in Zset /\ \A u \in Users : zset[u] \in 0..Len(log) /\ batch[u] \in 0..Len(log)
      /\ Len(log) \in Nat /\ PerSec \in Nat
      /\ LossBound /\ Cardinality(Members(batch)) <= PerSec
  BY ConsumerConstants DEF TypeOK, Zset, Loss
<1>2. Cardinality(Members(first)) <= PerSec
  <2>1. \A u, v \in Members(zset) : zset[u] = zset[v] => u = v
    BY DEF ScoreIsOffset, Members
  <2>2. Members(first) = Lowest(zset, PerSec)
    BY <1>1 DEF Members, ZKeep, Lowest, Absent
  <2> QED
    BY <1>1, <2>1, <2>2, LowestIsBounded
<1> HIDE DEF first
<1>3. Members(EmptyZset) = {} /\ Cardinality(Members(EmptyZset)) <= PerSec
  <2>1. Members(EmptyZset) = {}
    BY DEF Members, EmptyZset
  <2> QED
    BY <1>1, <2>1, FS_EmptySet
<1>4. \A z : Members(z) \subseteq Members(batch) => Cardinality(Members(z)) <= PerSec
  BY <1>1, ScoresAreBounded, FS_Subset
<1>5. Members(batch)' = Members(batch')
  BY DEF Members
<1>6. CASE AddFails \/ StartFails \/ DequeuerDies
  <2>1. /\ faults' = faults + 1 /\ skipped' \subseteq skipped \cup {position}
        /\ UNCHANGED <<forfeited, batch>>
    BY <1>6 DEF AddFails, StartFails, DequeuerDies, Fault, dequeuer, history
  <2>2. Scores(EmptyZset) = {}
    BY <1>3 DEF Scores
  <2>3. Cardinality(skipped') <= faults' /\ Cardinality(forfeited') <= PerSec * faults'
    BY <1>1, <1>3, <2>1, <2>2, SkipsOne, LosesOneBatch
  <2> QED
    BY <1>1, <1>5, <2>1, <2>3 DEF Loss, LossBound
<1>7. CASE PopFails
  <2>1. /\ faults' = faults + 1 /\ forfeited' = forfeited \cup Scores(first)
        /\ skipped' = skipped /\ batch' = batch
    BY <1>7 DEF PopFails, Fault, dequeuer, first
  <2>2. Cardinality(skipped') <= faults' /\ Cardinality(forfeited') <= PerSec * faults'
    BY <1>1, <1>2, <2>1, SkipsOne, LosesOneBatch
  <2> QED
    BY <1>1, <1>5, <2>1, <2>2 DEF Loss, LossBound
<1>8. CASE MarkFails \/ (loop # "dead" /\ Stop) \/ LoopRaises \/ Crash
  <2>1. /\ faults' = faults + 1 /\ forfeited' = forfeited \cup Scores(batch)
        /\ skipped' \subseteq skipped \cup {position} /\ batch' = EmptyZset
    BY <1>8 DEF MarkFails, Stop, LoopRaises, Crash, Halt, Fault
  <2>2. Cardinality(skipped') <= faults' /\ Cardinality(forfeited') <= PerSec * faults'
    BY <1>1, <2>1, SkipsOne, LosesOneBatch
  <2> QED
    BY <1>3, <1>5, <2>1, <2>2 DEF Loss, LossBound
<1>9. CASE loop = "dead" /\ Stop
  <2>1. Scores(batch) = {}
    BY <1>9 DEF TypeOK, Scores
  <2>2. faults' = faults /\ forfeited' = forfeited /\ skipped' = skipped /\ batch' = EmptyZset
    BY <1>9, <2>1 DEF Stop, Halt
  <2> QED
    BY <1>3, <2>2, NothingLost
<1>10. CASE Pop
  <2>1. /\ batch' = first /\ UNCHANGED <<faults, skipped, forfeited>>
    BY <1>10 DEF Pop, first, history
  <2> QED
    BY <1>2, <2>1, NothingLost
<1>11. ASSUME NEW u \in Users, Mark(u) PROVE Loss'
  <2>1. batch' = ZRemove(batch, {u}) /\ UNCHANGED <<faults, skipped, forfeited>>
    BY <1>11 DEF Mark
  <2>2. Members(batch') \subseteq Members(batch)
    BY <2>1 DEF Members, ZRemove
  <2> QED
    BY <1>4, <2>1, <2>2, NothingLost
<1>12. CASE /\ batch' = batch /\ faults' = faults /\ forfeited' = forfeited
            /\ skipped' \subseteq skipped
  BY <1>1, <1>12, NothingLost
<1>13. \/ AddFails \/ PopFails \/ MarkFails \/ Stop \/ LoopRaises \/ Crash
       \/ StartFails \/ DequeuerDies \/ Pop
       \/ \E u \in Users : Mark(u)
       \/ /\ batch' = batch /\ faults' = faults /\ forfeited' = forfeited
          /\ skipped' \subseteq skipped
  BY DEF Next, Consumer, Consume, Dequeue, Failure, Environment, vars, dequeuer, history,
         Start, AutoCommit, Fetch, Add, Publish, PublishRelease, WriteGate, Produce
<1> QED
  BY <1>6, <1>7, <1>8, <1>9, <1>10, <1>11, <1>12, <1>13

(* A fault costs one record and one batch, however the two tasks interleave with it, for
   any pace and any number of faults (queue_consumer.py:52-103). *)
THEOREM LossIsBounded == Spec => []LossBound
<1>1. Init => TypeOK /\ Order /\ Loss
  BY TypeInit, OrderInit, LossInit
<1>2. TypeOK /\ Order /\ Loss /\ [Next]_vars => (TypeOK /\ Order /\ Loss)'
  BY TypeStep, OrderStep, LossStep DEF Order
<1>3. Loss => LossBound
  BY DEF Loss
<1> QED
  BY <1>1, <1>2, <1>3, PTL DEF Spec

-----------------------------------------------------------------------------
(* The queue is a fair line *)

(* Without a crash the position never goes back, so no score is beyond it, and
   the record at hand comes after everybody in the queue. *)
NoneBeyond ==
  \A u \in Members(zset) : /\ zset[u] <= position
                           /\ loop = "add" => zset[u] < position

LEMMA NoneBeyondStep ==
  ASSUME "crash" \notin FaultKinds, TypeOK, NoneBeyond, [Next]_vars
  PROVE  NoneBeyond'
<1> USE DEF store, dequeuer, projector, history
<1>1. zset \in Zset /\ position \in Nat
  BY DEF TypeOK, Zset
<1> DEFINE Shrinks == /\ \A u \in Members(zset') : u \in Members(zset) /\ zset'[u] = zset[u]
                      /\ position' = position
                      /\ loop' = "add" => loop = "add"
<1>2. CASE Shrinks
  BY <1>2 DEF NoneBeyond
<1>3. CASE Fetch
  BY <1>1, <1>3 DEF Fetch, NoneBeyond, Members, Zset
<1>4. CASE Add
  <2>1. log[position] \in Users /\ position \in Nat \ {0}
    <3>1. position \in 1..Len(log)
      BY <1>4 DEF Add, TypeOK
    <3> QED
      BY <3>1 DEF TypeOK
  <2>2. /\ Members(zset') = Members(zset) \cup {log[position]}
        /\ zset'[log[position]] = position
        /\ \A v \in Users \ {log[position]} : zset'[v] = zset[v]
    BY <1>1, <1>4, <2>1, ZAddMembers DEF Add
  <2> QED
    BY <1>1, <1>4, <2>1, <2>2 DEF Add, NoneBeyond, Members
<1>5. Pop \/ PopFails => Shrinks
  BY <1>1, ZRemoveMembers DEF Pop, PopFails
<1>6. Stop \/ LoopRaises => Shrinks
  BY DEF Stop, LoopRaises, Halt
<1>7. Shrinks \/ Fetch \/ Add
  BY <1>5, <1>6
  DEF Next, Consumer, Consume, Dequeue, Failure, Environment, vars, Start,
      StartFails, DequeuerDies, AutoCommit, Publish, PublishRelease, Mark, AddFails,
      MarkFails, Crash, Fault, WriteGate, Produce
<1> QED
  BY <1>2, <1>3, <1>4, <1>7

(* A ZADD sends the user to the end of the line. *)
LEMMA AddJoins ==
  ASSUME TypeOK, NoneBeyond, Add
  PROVE  Line!Next
<1> DEFINE w == log[position]
<1>1. zset \in Zset /\ w \in Users /\ position \in Nat \ {0}
  <2>1. zset \in Zset /\ position \in 1..Len(log)
    BY DEF TypeOK, Zset, Add
  <2> QED
    BY <2>1 DEF TypeOK
<1>2. /\ Members(zset') = Members(zset) \cup {w}
      /\ zset'[w] = position
      /\ \A v \in Users \ {w} : zset'[v] = zset[v]
  BY <1>1, ZAddMembers DEF Add
<1>3. Members(zset) \subseteq Users
  BY DEF Members
<1>4. \A v \in Members(zset) : zset[v] \in Nat /\ zset[v] < position
  BY <1>1, <1>3 DEF NoneBeyond, Add, Zset
<1>5. Ahead(zset', w) = Members(zset) \ {w}
  BY <1>1, <1>2, <1>3, <1>4 DEF Ahead
<1>6. \A v \in Members(zset) \ {w} : Ahead(zset', v) = Ahead(zset, v) \ {w}
  BY <1>1, <1>2, <1>3, <1>4 DEF Ahead
<1>7. Line!Join(w)
  BY <1>1, <1>2, <1>5, <1>6 DEF Line!Join
<1> QED
  BY <1>1, <1>7 DEF Line!Next, Line!Join

(* A ZPOPMIN lets the front of the line go. *)
LEMMA PopLeaves ==
  ASSUME TypeOK, zset' = ZRemove(zset, Lowest(zset, PerSec))
  PROVE  Line!Next
<1> DEFINE S == Lowest(zset, PerSec)
<1>1. zset \in Zset /\ PerSec \in Nat /\ S \subseteq Members(zset)
  BY ConsumerConstants DEF TypeOK, Zset, Lowest
<1>2. /\ Members(zset') = Members(zset) \ S
      /\ \A v \in Members(zset) \ S : zset'[v] = zset[v]
  BY <1>1, ZRemoveMembers
<1>3. Members(zset) \subseteq Users /\ \A v \in Members(zset) : zset[v] \in Nat
  BY <1>1 DEF Members, Zset
<1>4. \A u \in S : Ahead(zset, u) \subseteq S
  <2> SUFFICES ASSUME NEW u \in S, NEW a \in Ahead(zset, u), a \notin S
               PROVE  FALSE
    OBVIOUS
  <2>1. a \in Members(zset) \ S /\ zset[a] < zset[u]
    BY DEF Ahead
  <2>2. zset[u] < zset[a]
    BY <1>1, <2>1, LowestIsPrefix
  <2> QED
    BY <1>1, <1>3, <2>1, <2>2
<1>5. \A v \in Members(zset) \ S : Ahead(zset', v) = Ahead(zset, v) \ S
  BY <1>2 DEF Ahead
<1> HIDE DEF S
<1>6. Line!Leave(S)
  BY <1>1, <1>2, <1>3, <1>4, <1>5 DEF Line!Leave
<1> QED
  BY <1>1, <1>6 DEF Line!Next, Line!Leave

(* Whatever Redis commands fail and however often the server is restarted, the
   sorted set is a line which users enter at the end and leave from the front, as
   long as no crash makes Kafka redeliver (queue_consumer.py:53-56, 75-82). *)
THEOREM QueueIsFairLine ==
  ASSUME "crash" \notin FaultKinds
  PROVE  Spec => ImplementsFairLine
<1>1. Init => TypeOK /\ NoneBeyond /\ Line!Init
  <2>1. Init => Members(zset) = {}
    BY DEF Init, Members, EmptyZset
  <2> QED
    BY <2>1, TypeInit DEF NoneBeyond, Line!Init
<1>2. TypeOK /\ NoneBeyond /\ [Next]_vars => (TypeOK /\ NoneBeyond)'
  BY TypeStep, NoneBeyondStep
<1>3. TypeOK /\ NoneBeyond /\ [Next]_vars => [Line!Next]_(Line!vars)
  <2> SUFFICES ASSUME TypeOK, NoneBeyond, [Next]_vars
               PROVE  Line!Next \/ UNCHANGED Line!vars
    OBVIOUS
  <2>1. zset' = zset => UNCHANGED Line!vars
    BY DEF Line!vars, Ahead, Members
  <2>2. Pop \/ PopFails => zset' = ZRemove(zset, Lowest(zset, PerSec))
    BY DEF Pop, PopFails
  <2>3. zset' = zset \/ Add \/ Pop \/ PopFails
    BY DEF Next, Consumer, Consume, Dequeue, Failure, Environment, vars, projector,
         store, dequeuer, Start, AutoCommit, Fetch, Publish, PublishRelease, Mark,
         StartFails, DequeuerDies, AddFails, MarkFails, Stop, LoopRaises, Crash, Halt,
         WriteGate, Produce
  <2> QED
    BY <2>1, <2>2, <2>3, AddJoins, PopLeaves
<1> QED
  BY <1>1, <1>2, <1>3, PTL DEF Spec, ImplementsFairLine, Line!Spec
==============================================================================
