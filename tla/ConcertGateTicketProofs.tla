------------------------ MODULE ConcertGateTicketProofs ------------------------
(***************************************************************************)
(* What the marks and the records of a user have to do with each other, for *)
(* any number of users and requests: the mark "waiting" has a record behind *)
(* it, a ready mark lets in once, and nobody is queued twice.               *)
(***************************************************************************)
EXTENDS ConcertGateProofs

-----------------------------------------------------------------------------
(* A user's records, and what a step of the consumer does to them *)

Lost(u) == \E o \in skipped \cup forfeited : log[o] = u

HasRecord(u) == Live(u) # {} \/ Lost(u)

\* The consumer and its environment, but for the SETEX that marks a user ready.
Quiet ==
  \/ Start \/ StartFails \/ DequeuerDies \/ AutoCommit \/ Consume \/ Pop \/ PublishRelease
  \/ AddFails \/ PopFails \/ MarkFails \/ Stop \/ LoopRaises \/ Crash
  \/ \E w \in Users : Produce(w)
  \/ UNCHANGED vars

LEMMA LiveParts ==
  ASSUME TypeOK, NEW u \in Users
  PROVE  /\ Live(u) \subseteq Offsets
         /\ zset[u] \in 0..Len(log) /\ batch[u] \in 0..Len(log) /\ Len(log) \in Nat
         /\ position \in 0..Len(log) /\ committed \in 0..position
         /\ skipped \subseteq Offsets /\ forfeited \subseteq Offsets
BY DEF Live, TypeOK, Offsets

(* A record a step leaves alone stays where it is. *)
LEMMA RecordsStay ==
  ASSUME TypeOK, NEW u \in Users, HasRecord(u),
         UNCHANGED <<log, position>>, zset'[u] = zset[u], batch'[u] = batch[u],
         loop = "add" => loop' = "add", skipped \subseteq skipped', forfeited \subseteq forfeited'
  PROVE  HasRecord(u)'
BY DEF HasRecord, Live, Lost, Offsets

(* Whatever the consumer does with a record of a user, the user has one afterwards,
   or it is on record as lost (queue_consumer.py:52-103). *)
LEMMA QuietKeepsRecords ==
  ASSUME TypeOK, NEW u \in Users, HasRecord(u), Quiet
  PROVE  HasRecord(u)'
<1> USE DEF projector, store, dequeuer, history
<1>1. /\ Live(u) \subseteq Offsets
      /\ zset[u] \in 0..Len(log) /\ batch[u] \in 0..Len(log) /\ Len(log) \in Nat
      /\ position \in 0..Len(log) /\ committed \in 0..position
      /\ skipped \subseteq Offsets /\ forfeited \subseteq Offsets
  BY LiveParts
<1>2. CASE \/ Start \/ StartFails \/ DequeuerDies \/ AutoCommit \/ Publish \/ PublishRelease
           \/ UNCHANGED vars
  <2>1. /\ UNCHANGED <<log, position, zset, batch, skipped, forfeited>>
        /\ loop = "add" => loop' = "add"
    BY <1>2 DEF Start, StartFails, DequeuerDies, AutoCommit, Publish, PublishRelease, vars
  <2> QED
    BY <2>1, RecordsStay
<1>3. CASE Fetch
  <2>1. /\ UNCHANGED <<log, zset, batch, skipped, forfeited>>
        /\ position' = position + 1 /\ loop' = "add" /\ loop = "fetch"
    BY <1>3 DEF Fetch
  <2> QED
    BY <1>1, <2>1 DEF HasRecord, Live, Lost, Offsets
<1>4. CASE Add
  <2> DEFINE w == log[position]
  <2>1. /\ zset' = ZAdd(zset, w, position)
        /\ UNCHANGED <<log, position, batch, forfeited>>
        /\ skipped' = skipped \ {position} /\ position \in Offsets
    BY <1>1, <1>4 DEF Add, TypeOK, Offsets
  <2>2. CASE w = u
    <3>1. zset'[u] = position
      BY <2>1, <2>2 DEF ZAdd, TypeOK
    <3>2. position \in Live(u)'
      BY <2>1, <2>2, <3>1 DEF Live, Offsets
    <3> QED
      BY <3>2 DEF HasRecord
  <2>3. CASE w # u
    <3>1. zset'[u] = zset[u]
      BY <2>1, <2>3 DEF ZAdd, TypeOK
    <3>2. \A o \in Live(u) : o # position
      BY <2>3 DEF Live
    <3>3. Live(u) \subseteq Live(u)'
      BY <2>1, <3>1, <3>2 DEF Live, Offsets
    <3>4. Lost(u) => Lost(u)'
      BY <2>1, <2>3 DEF Lost
    <3> QED
      BY <3>3, <3>4 DEF HasRecord
  <2> QED
    BY <2>2, <2>3
<1>5. CASE AddFails
  <2>1. /\ UNCHANGED <<log, position, zset, batch, forfeited>>
        /\ skipped' = skipped \cup {position}
    BY <1>5 DEF AddFails
  <2>2. Lost(u) => Lost(u)'
    BY <2>1 DEF Lost
  <2>3. ASSUME NEW o \in Live(u), o # position PROVE o \in Live(u)'
    BY <2>1, <2>3 DEF Live, Offsets
  <2>4. position \in Live(u) => Lost(u)'
    BY <2>1 DEF Live, Lost
  <2> QED
    BY <2>2, <2>3, <2>4 DEF HasRecord
<1>6. CASE Pop
  <2> DEFINE S == Lowest(zset, PerSec)
  <2>1. /\ zset' = ZRemove(zset, S) /\ batch' = ZKeep(zset, S) /\ batch[u] = Absent
        /\ UNCHANGED <<log, position, loop, skipped, forfeited>>
    BY <1>6 DEF Pop, TypeOK, Members
  <2>2. zset[u] \in {zset'[u], batch'[u]}
    BY <2>1 DEF ZRemove, ZKeep
  <2>3. Live(u) \subseteq Live(u)'
    BY <2>1, <2>2 DEF Live, Offsets, Absent
  <2>4. Lost(u) => Lost(u)'
    BY <2>1 DEF Lost
  <2> QED
    BY <2>3, <2>4 DEF HasRecord
<1>7. CASE PopFails
  <2> DEFINE S == Lowest(zset, PerSec)
  <2>1. /\ zset' = ZRemove(zset, S) /\ forfeited' = forfeited \cup Scores(ZKeep(zset, S))
        /\ UNCHANGED <<log, position, loop, batch, skipped>>
    BY <1>7 DEF PopFails
  <2>2. zset[u] # Absent => zset'[u] = zset[u] \/ zset[u] \in forfeited'
    BY <2>1 DEF ZRemove, ZKeep, Scores, Members
  <2>3. Lost(u) => Lost(u)'
    BY <2>1 DEF Lost
  <2>4. ASSUME NEW o \in Live(u) PROVE HasRecord(u)'
    <3>1. o \in Offsets /\ o # Absent /\ log[o] = u
      BY <1>1 DEF Live, Offsets, Absent
    <3>2. CASE o = zset[u] /\ o \in forfeited'
      BY <2>1, <3>1, <3>2 DEF HasRecord, Lost
    <3>3. CASE ~ (o = zset[u] /\ o \in forfeited')
      <4>1. o \in Live(u)'
        BY <2>1, <2>2, <3>1, <3>3 DEF Live, Offsets
      <4> QED
        BY <4>1 DEF HasRecord
    <3> QED
      BY <3>2, <3>3
  <2> QED
    BY <2>3, <2>4 DEF HasRecord
<1>8. ASSUME NEW c \in {position, committed}, Halt(c) \/ MarkFails PROVE HasRecord(u)'
  <2>1. /\ forfeited' = forfeited \cup Scores(batch) /\ skipped \subseteq skipped'
        /\ UNCHANGED <<log, zset>>
    BY <1>8 DEF Halt, MarkFails
  <2>2. Lost(u) => Lost(u)'
    BY <2>1 DEF Lost
  <2>3. ASSUME NEW o \in Live(u) PROVE HasRecord(u)'
    <3>1. o \in Offsets /\ o # Absent /\ log[o] = u
      BY <1>1 DEF Live, Offsets, Absent
    <3>2. CASE o = batch[u]
      <4>1. o \in forfeited'
        BY <2>1, <3>1, <3>2 DEF Scores, Members
      <4> QED
        BY <2>1, <3>1, <4>1 DEF HasRecord, Lost
    <3>3. CASE o # batch[u] /\ o = position /\ loop = "add" /\ Halt(position)
      <4>1. o \in skipped'
        BY <3>3 DEF Halt
      <4> QED
        BY <2>1, <3>1, <4>1 DEF HasRecord, Lost
    <3>4. CASE o # batch[u] /\ ~ (o = position /\ loop = "add" /\ Halt(position))
      <4>1. \/ MarkFails /\ UNCHANGED <<position, loop>>
            \/ Halt(c) /\ position' = c
        BY <1>8 DEF MarkFails, Halt
      <4>2. o \in Live(u)'
        BY <1>1, <2>1, <3>1, <3>4, <4>1 DEF Live, Offsets
      <4> QED
        BY <4>2 DEF HasRecord
    <3> QED
      BY <3>2, <3>3, <3>4
  <2> QED
    BY <2>2, <2>3 DEF HasRecord
<1>9. ASSUME NEW w \in Users, Produce(w) PROVE HasRecord(u)'
  <2>1. /\ log' = Append(log, w) /\ log \in Seq(Users)
        /\ UNCHANGED <<position, loop, zset, batch, skipped, forfeited>>
    BY <1>9 DEF Produce, TypeOK
  <2>2. Len(log') = Len(log) + 1 /\ \A o \in Offsets : log'[o] = log[o]
    BY <2>1 DEF Offsets
  <2>3. Live(u) \subseteq Live(u)'
    BY <1>1, <2>1, <2>2 DEF Live, Offsets
  <2>4. Lost(u) => Lost(u)'
    BY <1>1, <2>1, <2>2 DEF Lost
  <2> QED
    BY <2>3, <2>4 DEF HasRecord
<1> QED
  BY <1>2, <1>3, <1>4, <1>5, <1>6, <1>7, <1>8, <1>9 DEF Quiet, Consume, Stop, LoopRaises, Crash

(* Marking somebody else leaves the user's records alone. *)
LEMMA MarkKeepsOthers ==
  ASSUME TypeOK, NEW u \in Users, NEW w \in Users \ {u}, Mark(w), HasRecord(u)
  PROVE  HasRecord(u)'
<1>1. batch'[u] = batch[u] /\ UNCHANGED <<log, position, loop, zset, skipped, forfeited>>
  BY DEF Mark, ZRemove, projector
<1> QED
  BY <1>1, RecordsStay

LEMMA QuietKeepsMarks == Quiet => UNCHANGED gate
BY DEF Quiet, Start, StartFails, DequeuerDies, AutoCommit, Consume, Fetch, Add, Publish, Pop,
       PublishRelease, AddFails, PopFails, MarkFails, Stop, LoopRaises, Crash, Halt, Produce,
       vars, store

-----------------------------------------------------------------------------
(* The mark "waiting" and the ready mark *)

\* The users who have one request in progress at a time.
Singly == Users \ Overlap

Ticketed(u) == HasRecord(u) \/ fate[u] \in {"expired", "overwritten"}

Alone == \A r, s \in Requests : User(r) \in Singly /\ User(r) = User(s) => r = s

UserBacked(u) == gate[u] = "waiting" => Ticketed(u)

\* What a request about to delete, or to write "waiting", may rely on.
RequestBacked(r) ==
  /\ req[r].pc = "delete" => fate[User(r)] \in {"held", "expired"}
  /\ req[r].pc \in {"mark", "remark"} => Ticketed(User(r)) \/ gate[User(r)] = "ready"

Backed ==
  /\ Alone
  /\ \A u \in Singly : UserBacked(u)
  /\ \A r \in Requests : User(r) \in Singly => RequestBacked(r)

\* A step that is none of the user's business.
Untouched(u) == gate'[u] = gate[u] /\ fate'[u] = fate[u] /\ (HasRecord(u) => HasRecord(u)')

LEMMA UntouchedUser ==
  ASSUME NEW u \in Users, Untouched(u), UserBacked(u)
  PROVE  UserBacked(u)'
BY DEF Untouched, UserBacked, Ticketed

LEMMA UntouchedRequest ==
  ASSUME NEW r \in Requests, req'[r] = req[r], RequestBacked(r), Untouched(User(r))
  PROVE  RequestBacked(r)'
<1>1. User(r)' = User(r)
  BY DEF User
<1>2. Ticketed(User(r)) => Ticketed(User(r))'
  BY <1>1 DEF Ticketed, Untouched
<1> QED
  BY <1>1, <1>2 DEF RequestBacked, Untouched

(* A step of one request concerns its own user and nobody else's requests. *)
LEMMA BackedByOthers ==
  ASSUME GateTypeOK, Backed, NEW r \in Requests, NEW u, u = User(r),
         req' = [req EXCEPT ![r] = req'[r]], req'[r].user \in {u, NoUser},
         \A w \in Users \ {u} : Untouched(w),
         u \in Singly => UserBacked(u)' /\ RequestBacked(r)'
  PROVE  Backed'
<1> USE DEF Singly
<1>1. /\ Alone /\ \A w \in Singly : UserBacked(w)
      /\ \A s \in Requests : User(s) \in Singly => RequestBacked(s)
  BY DEF Backed
<1>2. \A s \in Requests \ {r} : req'[s] = req[s]
  BY DEF GateTypeOK
<1>3. ASSUME NEW w \in Singly PROVE UserBacked(w)'
  <2>1. CASE w = u
    BY <2>1
  <2>2. CASE w # u
    BY <1>1, <2>2, UntouchedUser
  <2> QED
    BY <2>1, <2>2
<1>4. ASSUME NEW s \in Requests, User(s)' \in Singly PROVE RequestBacked(s)'
  <2>1. CASE s = r
    BY <1>4, <2>1, GateConstants DEF User
  <2>2. CASE s # r
    <3>1. User(s) \in Singly /\ User(s) # u
      BY <1>1, <1>2, <1>4, <2>2 DEF Alone, User
    <3> QED
      BY <1>1, <1>2, <2>2, <3>1, UntouchedRequest
  <2> QED
    BY <2>1, <2>2
<1>5. Alone'
  BY <1>1, <1>2, GateConstants DEF Alone, User
<1> QED
  BY <1>3, <1>4, <1>5 DEF Backed

LEMMA QuietUntouched ==
  ASSUME TypeOK, NEW u \in Users, Quiet, fate'[u] = fate[u]
  PROVE  Untouched(u)
BY QuietKeepsRecords, QuietKeepsMarks DEF Untouched

(* Writing a mark moves no record. *)
LEMMA WritingKeepsRecords ==
  ASSUME NEW u \in Users, NEW w \in Users, NEW m, WriteGate(w, m)
  PROVE  HasRecord(u)' = HasRecord(u)
BY DEF WriteGate, HasRecord, Live, Lost, Offsets, projector, dequeuer, history

LEMMA WritingUntouched ==
  ASSUME TypeOK, NEW w \in Users, NEW u \in Users \ {w}, NEW m, WriteGate(w, m),
         fate'[u] = fate[u]
  PROVE  Untouched(u)
BY WritingKeepsRecords DEF Untouched, WriteGate, TypeOK

LEMMA MemberHasRecord ==
  ASSUME TypeOK, ScoreIsOffset, NEW u \in Members(zset)
  PROVE  HasRecord(u)
<1>1. u \in Users /\ zset[u] # Absent /\ zset[u] \in 0..Len(log) /\ Len(log) \in Nat
  BY DEF Members, TypeOK
<1>2. zset[u] \in Live(u)
  BY <1>1 DEF ScoreIsOffset, Live, Offsets, Absent
<1> QED
  BY <1>2 DEF HasRecord

(* A record just sent is under way. *)
LEMMA SentHasRecord ==
  ASSUME TypeOK, NEW u \in Users, Produce(u)
  PROVE  HasRecord(u)'
<1>1. /\ log' = Append(log, u) /\ log \in Seq(Users) /\ position' = position
      /\ position \in 0..Len(log)
  BY DEF Produce, TypeOK
<1>2. Len(log') = Len(log) + 1 /\ log'[Len(log) + 1] = u /\ Len(log) \in Nat
  BY <1>1
<1>3. Len(log) + 1 \in Live(u)'
  BY <1>1, <1>2 DEF Live, Offsets
<1> QED
  BY <1>3 DEF HasRecord

\* The steps of a request that change neither the queue nor a mark.
Reading(r) ==
  \/ ReadRank(r) \/ ReadState(r) \/ PollFinds(r) \/ PollEnds(r) \/ Recheck(r)
  \/ EnsureQueueFront(r) \/ GetDetail(r)
  \/ RedisFails(r) \/ SendTimesOut(r) \/ DetailFails(r)

(* Where reading takes a request. *)
LEMMA ReadingLeads ==
  ASSUME GateTypeOK, NEW r \in Requests, NEW u, u = User(r), Reading(r)
  PROVE  /\ UNCHANGED <<vars, fate>>
         /\ req' = [req EXCEPT ![r] = req'[r]]
         /\ req'[r].user \in {u, NoUser}
         /\ req'[r].pc = "delete" => u \in Users /\ gate[u] = "ready" /\ req'[r].user = u
         /\ req'[r].pc \in {"mark", "remark"} => u \in Members(zset) /\ req'[r].user = u
<1> DEFINE q == req'[r]
           Good == /\ UNCHANGED <<vars, fate>>
                   /\ req' = [req EXCEPT ![r] = q] /\ q.user \in {u, NoUser}
                   /\ q.pc = "delete" => u \in Users /\ gate[u] = "ready" /\ q.user = u
                   /\ q.pc \in {"mark", "remark"} => u \in Members(zset) /\ q.user = u
<1>1. req \in [Requests -> RequestType]
  BY DEF GateTypeOK, RequestType
<1>2. CASE ReadRank(r)
  BY <1>1, <1>2 DEF ReadRank, Reads, User, RequestType
<1>3. CASE ReadState(r)
  <2>1. u \in Users
    BY <1>3, GuardHasUser DEF ReadState, At, Guarding
  <2>2. q = [req[r] EXCEPT !.pc = AfterReads(req[r].full, req[r].ranked, gate[u]),
                           !.seen = gate[u]]
    BY <1>1, <1>3 DEF ReadState
  <2>3. q.pc \notin {"mark", "remark"} /\ (q.pc = "delete" => gate[u] = "ready") /\ q.user = u
    BY <1>1, <2>2 DEF AfterReads, RequestType, User
  <2> QED
    BY <1>1, <1>3, <2>1, <2>3 DEF ReadState, Reads
<1>4. CASE PollFinds(r) \/ PollEnds(r)
  BY <1>1, <1>4 DEF PollFinds, PollEnds, Goto, Reads, User, RequestType
<1>5. CASE Recheck(r)
  <2>1. u \in Users
    BY <1>5, GuardHasUser DEF Recheck, At, Guarding
  <2> QED
    BY <1>1, <1>5, <2>1 DEF Recheck, Goto, Reply, Over, Reads, User, RequestType
<1>6. CASE EnsureQueueFront(r)
  BY <1>1, <1>6 DEF EnsureQueueFront, Goto, Reply, Over, Reads, User, RequestType
<1>7. CASE GetDetail(r) \/ RedisFails(r) \/ SendTimesOut(r) \/ DetailFails(r)
  BY <1>1, <1>7 DEF GetDetail, RedisFails, SendTimesOut, DetailFails, Reply, Over, Reads
<1> QED
  BY <1>2, <1>3, <1>4, <1>5, <1>6, <1>7 DEF Reading

\* A ready mark that is there has not been used, for whichever user.
FreshMarks == \A u \in Users : gate[u] = "ready" => fate[u] = "held"

LEMMA FreshMarksStep ==
  ASSUME TypeOK, GateTypeOK, FreshMarks, [GateNext]_allVars
  PROVE  FreshMarks'
<1>1. /\ gate \in [Users -> GateStates]
      /\ fate \in [Users -> {"none", "held", "expired", "overwritten"}]
  BY DEF TypeOK, GateTypeOK
<1>2. ASSUME UNCHANGED <<gate, fate>> PROVE FreshMarks'
  BY <1>2 DEF FreshMarks
<1>3. ASSUME NEW u \in Users, NEW m \in GateStates, NEW f, gate' = [gate EXCEPT ![u] = m],
             fate' = fate \/ fate' = [fate EXCEPT ![u] = f], m = "ready" => fate'[u] = "held"
      PROVE  FreshMarks'
  BY <1>1, <1>3 DEF FreshMarks
<1>4. ASSUME NEW r \in Requests, Step(r) \/ StepFails(r) PROVE FreshMarks'
  <2>1. CASE Reading(r)
    BY <1>2, <2>1, ReadingLeads DEF vars, store
  <2>2. CASE Send(r)
    <3>1. gate' = gate /\ (fate[User(r)] # "held" => fate' = [fate EXCEPT ![User(r)] = "none"])
          /\ (fate[User(r)] = "held" => fate' = fate)
      BY <2>2 DEF Send, Sends, Produce, store
    <3> QED
      BY <1>1, <3>1 DEF FreshMarks
  <2>3. CASE Delete(r) \/ DeleteReplyLost(r) \/ MarkWaiting(r) \/ Remark(r)
    <3>1. User(r) \in Users
      BY <2>3, GuardHasUser DEF Delete, DeleteReplyLost, MarkWaiting, Remark, At, Guarding
    <3>2. PICK m \in {"none", "waiting"} : gate' = [gate EXCEPT ![User(r)] = m]
      BY <2>3 DEF Delete, DeleteReplyLost, MarkWaiting, Remark, Writes, WriteGate
    <3>3. \E f : fate' = fate \/ fate' = [fate EXCEPT ![User(r)] = f]
      BY <2>3 DEF Delete, DeleteReplyLost, MarkWaiting, Remark, NoteOverwriting
    <3> QED
      BY <1>3, <3>1, <3>2, <3>3 DEF GateStates
  <2> QED
    BY <1>4, <2>1, <2>2, <2>3 DEF Step, StepFails, Reading
<1>5. ASSUME NEW r \in Requests, NEW w \in Users \cup {NoUser}, Arrive(r, w) PROVE FreshMarks'
  BY <1>2, <1>5 DEF Arrive, Reads, vars, store
<1>6. ASSUME NEW w \in Users, Expire(w) \/ Enqueue(w) PROVE FreshMarks'
  <2>1. CASE Expire(w)
    BY <1>3, <2>1 DEF Expire, WriteGate, GateStates
  <2>2. CASE Enqueue(w)
    BY <1>2, <2>2 DEF Enqueue, Sends, Produce, store
  <2> QED
    BY <1>6, <2>1, <2>2
<1>9. ASSUME NEW send \in late, LateDelivery(send) PROVE FreshMarks'
  BY <1>2, <1>9 DEF LateDelivery, Produce, vars, store
<1>7. CASE ConsumerRuns
  <2>1. ASSUME NEW w \in Users, Mark(w), fate' = [fate EXCEPT ![w] = "held"] PROVE FreshMarks'
    BY <1>1, <1>3, <2>1 DEF Mark, GateStates
  <2>2. CASE UNCHANGED fate /\ Quiet
    BY <1>2, <2>2, QuietKeepsMarks
  <2> QED
    BY <1>7, <2>1, <2>2 DEF ConsumerRuns, Quiet
<1>8. CASE Shutdown \/ Death \/ UNCHANGED allVars
  <2>1. Quiet /\ UNCHANGED fate
    BY <1>8 DEF Shutdown, Death, allVars, gateVars, Quiet
  <2> QED
    BY <1>2, <2>1, QuietKeepsMarks
<1> QED
  BY <1>4, <1>5, <1>6, <1>7, <1>8, <1>9 DEF GateNext

LEMMA ReadingBacked ==
  ASSUME TypeOK, GateTypeOK, ScoreIsOffset, FreshMarks, Backed, NEW r \in Requests, Reading(r),
         NEW u, u = User(r)
  PROVE  Backed'
<1>1. u \in Singly => u \in Users /\ UserBacked(u) /\ RequestBacked(r)
  BY DEF Backed, Singly
<1>2. /\ UNCHANGED <<vars, fate>>
      /\ req' = [req EXCEPT ![r] = req'[r]] /\ req'[r].user \in {u, NoUser}
      /\ req'[r].pc = "delete" => u \in Users /\ gate[u] = "ready" /\ req'[r].user = u
      /\ req'[r].pc \in {"mark", "remark"} => u \in Members(zset) /\ req'[r].user = u
  BY ReadingLeads
<1>3. \A w \in Users : Untouched(w)
  <2>1. \A w \in Users : Quiet /\ fate'[w] = fate[w]
    BY <1>2 DEF Quiet
  <2> QED
    BY <2>1, QuietUntouched
<1>4. u \in Singly => UserBacked(u)'
  BY <1>1, <1>3, UntouchedUser
<1>5. RequestBacked(r)'
  <2>1. CASE req'[r].pc = "delete"
    <3>1. u \in Users /\ fate'[u] = "held"
      BY <1>2, <2>1 DEF FreshMarks
    <3> QED
      BY <1>2, <2>1, <3>1 DEF RequestBacked, User
  <2>2. CASE req'[r].pc \in {"mark", "remark"}
    <3>1. u \in Users /\ HasRecord(u)
      BY <1>2, <2>2, MemberHasRecord DEF Members
    <3>2. HasRecord(u)'
      BY <1>3, <3>1 DEF Untouched
    <3>3. Ticketed(u)'
      BY <3>2 DEF Ticketed
    <3> QED
      BY <1>2, <2>2, <3>3 DEF RequestBacked, User
  <2>3. CASE req'[r].pc \notin {"delete", "mark", "remark"}
    BY <2>3 DEF RequestBacked
  <2> QED
    BY <2>1, <2>2, <2>3
<1> QED
  BY <1>2, <1>3, <1>4, <1>5, BackedByOthers

(* A request that deletes the mark, sends the record, or writes "waiting". *)
LEMMA WritingBacked ==
  ASSUME TypeOK, GateTypeOK, Backed, NEW r \in Requests, NEW u, u = User(r),
         Delete(r) \/ DeleteReplyLost(r) \/ Send(r) \/ MarkWaiting(r) \/ Remark(r)
  PROVE  Backed'
<1>1. u \in Users /\ req \in [Requests -> RequestType]
  BY GuardHasUser DEF Delete, DeleteReplyLost, Send, MarkWaiting, Remark, At, Guarding,
                      GateTypeOK, RequestType
<1>2. u \in Singly => UserBacked(u) /\ RequestBacked(r)
  BY DEF Backed
<1>3. fate \in [Users -> {"none", "held", "expired", "overwritten"}]
  BY DEF GateTypeOK
<1>4. \A w \in Users \ {u} : fate'[w] = fate[w]
  BY <1>1, <1>3 DEF Delete, DeleteReplyLost, Send, MarkWaiting, Remark, NoteOverwriting
<1>5. /\ req' = [req EXCEPT ![r] = req'[r]] /\ req'[r].user \in {u, NoUser}
      /\ req'[r].pc \in {"mark", "remark"} => Send(r) /\ req'[r].user = u
      /\ req'[r].pc # "delete"
  BY <1>1 DEF Delete, DeleteReplyLost, Send, MarkWaiting, Remark, Goto, Reply, Over,
              AfterSend, User, RequestType
<1>6. CASE Delete(r) \/ DeleteReplyLost(r)
  <2>1. WriteGate(u, "none")
    BY <1>6 DEF Delete, DeleteReplyLost, Writes
  <2>2. \A w \in Users \ {u} : Untouched(w)
    BY <1>1, <1>4, <2>1, WritingUntouched
  <2>3. gate'[u] = "none"
    BY <1>1, <2>1 DEF WriteGate, TypeOK
  <2>4. UserBacked(u)'
    BY <2>3 DEF UserBacked
  <2>5. req'[r].pc \notin {"mark", "remark", "delete"}
    BY <1>1, <1>6 DEF Delete, DeleteReplyLost, Goto, Reply, Over, RequestType
  <2>6. RequestBacked(r)'
    BY <2>5 DEF RequestBacked
  <2> QED
    BY <1>5, <2>2, <2>4, <2>6, BackedByOthers
<1>7. CASE MarkWaiting(r) \/ Remark(r)
  <2>1. WriteGate(u, "waiting") /\ NoteOverwriting(u) /\ req[r].pc \in {"mark", "remark"}
    BY <1>7 DEF MarkWaiting, Remark, Writes, At
  <2>2. \A w \in Users \ {u} : Untouched(w)
    BY <1>1, <1>4, <2>1, WritingUntouched
  <2>3. gate'[u] = "waiting"
    BY <1>1, <2>1 DEF WriteGate, TypeOK
  <2>4. HasRecord(u)' = HasRecord(u)
    BY <1>1, <2>1, WritingKeepsRecords
  <2>5. u \in Singly => Ticketed(u)'
    BY <1>1, <1>2, <1>3, <2>1, <2>4 DEF RequestBacked, Ticketed, NoteOverwriting
  <2>6. u \in Singly => UserBacked(u)'
    BY <2>5 DEF UserBacked
  <2>7. req'[r].pc \notin {"mark", "remark", "delete"}
    BY <1>1, <1>7 DEF MarkWaiting, Remark, Goto, AfterSend, RequestType
  <2>8. RequestBacked(r)'
    BY <2>7 DEF RequestBacked
  <2> QED
    BY <1>5, <2>2, <2>6, <2>8, BackedByOthers
<1>8. CASE Send(r)
  <2>1. Produce(u) /\ gate' = gate
    BY <1>8 DEF Send, Sends, Produce, store
  <2>2. \A w \in Users \ {u} : Untouched(w)
    BY <1>1, <1>4, <2>1, QuietUntouched DEF Quiet
  <2>3. HasRecord(u)'
    BY <1>1, <2>1, SentHasRecord
  <2>5. UserBacked(u)' /\ Ticketed(u)'
    BY <2>3 DEF UserBacked, Ticketed
  <2>6. RequestBacked(r)'
    BY <1>5, <1>8, <2>5 DEF RequestBacked, User, Send, Goto
  <2> QED
    BY <1>5, <2>2, <2>5, <2>6, BackedByOthers
<1> QED
  BY <1>6, <1>7, <1>8

(* Whoever else acts: the requests stay what they are, or are over. *)
LEMMA BackedByRest ==
  ASSUME Backed,
         \A r \in Requests : req'[r] \in {req[r], Over("none", FALSE)},
         NEW u, u \in Singly => UserBacked(u)',
         \A w \in Users \ {u} : Untouched(w),
         \A r \in Requests : req'[r] = req[r] /\ User(r) = u /\ u \in Singly => RequestBacked(r)'
  PROVE  Backed'
<1> USE DEF Singly
<1>1. /\ Alone /\ \A w \in Singly : UserBacked(w)
      /\ \A s \in Requests : User(s) \in Singly => RequestBacked(s)
  BY DEF Backed
<1>2. ASSUME NEW w \in Singly PROVE UserBacked(w)'
  <2>1. CASE w = u
    BY <2>1
  <2>2. CASE w # u
    BY <1>1, <2>2, UntouchedUser
  <2> QED
    BY <2>1, <2>2
<1>3. ASSUME NEW s \in Requests, User(s)' \in Singly PROVE RequestBacked(s)'
  <2>1. CASE req'[s] = req[s] /\ User(s) = u
    BY <1>3, <2>1 DEF User
  <2>2. CASE req'[s] = req[s] /\ User(s) # u
    <3>1. User(s) \in Singly
      BY <1>3, <2>2 DEF User
    <3> QED
      BY <1>1, <2>2, <3>1, UntouchedRequest
  <2>3. CASE req'[s] = Over("none", FALSE)
    BY <2>3 DEF RequestBacked, Over
  <2> QED
    BY <2>1, <2>2, <2>3
<1>4. Alone'
  BY <1>1, GateConstants DEF Alone, User, Over
<1> QED
  BY <1>2, <1>3, <1>4 DEF Backed

LEMMA ArriveBacked ==
  ASSUME TypeOK, GateTypeOK, Backed, NEW r \in Requests,
         NEW w \in Users \cup {NoUser}, Arrive(r, w)
  PROVE  Backed'
<1> USE DEF Singly
<1>1. /\ Alone /\ \A v \in Singly : UserBacked(v)
      /\ \A s \in Requests : User(s) \in Singly => RequestBacked(s)
  BY DEF Backed
<1>2. /\ req \in [Requests -> RequestType] /\ UNCHANGED <<vars, fate>>
      /\ w \in Singly => \A s \in Requests : User(s) # w
  BY GateConstants DEF Arrive, Reads, GateTypeOK, RequestType
<1>3. /\ \A s \in Requests \ {r} : req'[s] = req[s]
      /\ req'[r].user \in {w, NoUser} /\ req'[r].pc \in {"idle", "rank", "detail"}
  BY <1>2 DEF Arrive, Over
<1>4. \A v \in Users : Untouched(v)
  <2>1. \A v \in Users : Quiet /\ fate'[v] = fate[v]
    BY <1>2 DEF Quiet
  <2> QED
    BY <2>1, QuietUntouched
<1>5. \A v \in Singly : UserBacked(v)'
  BY <1>1, <1>4, UntouchedUser
<1>6. ASSUME NEW s \in Requests, User(s)' \in Singly PROVE RequestBacked(s)'
  <2>1. CASE s = r
    BY <1>3, <2>1 DEF RequestBacked
  <2>2. CASE s # r
    <3>1. User(s) \in Singly
      BY <1>3, <1>6, <2>2 DEF User
    <3> QED
      BY <1>1, <1>3, <1>4, <2>2, <3>1, UntouchedRequest
  <2> QED
    BY <2>1, <2>2
<1>7. Alone'
  BY <1>1, <1>2, <1>3, GateConstants DEF Alone, User
<1> QED
  BY <1>5, <1>6, <1>7 DEF Backed

LEMMA BackedStep ==
  ASSUME TypeOK, GateTypeOK, ScoreIsOffset, FreshMarks, Backed, [GateNext]_allVars
  PROVE  Backed'
<1>1. \A s \in Requests : User(s) \in Singly => RequestBacked(s)
  BY DEF Backed
<1>2. ASSUME NEW r \in Requests, Step(r) \/ StepFails(r) PROVE Backed'
  <2>1. PICK u : u = User(r)
    OBVIOUS
  <2>2. \/ Reading(r)
        \/ Delete(r) \/ DeleteReplyLost(r) \/ Send(r) \/ MarkWaiting(r) \/ Remark(r)
    BY <1>2 DEF Step, StepFails, Reading
  <2> QED
    BY <2>1, <2>2, ReadingBacked, WritingBacked
<1>3. ASSUME NEW r \in Requests, NEW w \in Users \cup {NoUser}, Arrive(r, w) PROVE Backed'
  BY <1>3, ArriveBacked
<1>4. ASSUME UNCHANGED <<req, fate>>, Quiet PROVE Backed'
  <2>1. \A w \in Users : Untouched(w)
    BY <1>4, QuietUntouched
  <2>2. NoUser \notin Singly
    BY GateConstants DEF Singly
  <2> QED
    BY <1>4, <2>1, <2>2, BackedByRest
<1>5. CASE (\E send \in late : LateDelivery(send)) \/ (\E w \in Users : Enqueue(w))
  <2>1. \A send \in late : send[1] \in Users
    BY DEF GateTypeOK
  <2> QED
    BY <1>4, <1>5, <2>1 DEF LateDelivery, Enqueue, Sends, Quiet
<1>6. ASSUME NEW w \in Users, Expire(w) PROVE Backed'
  <2>1. WriteGate(w, "none") /\ req' = req
    BY <1>6 DEF Expire
  <2>2. fate \in [Users -> {"none", "held", "expired", "overwritten"}]
    BY DEF GateTypeOK
  <2>3. \A v \in Users \ {w} : fate'[v] = fate[v]
    BY <1>6, <2>2 DEF Expire
  <2>4. \A v \in Users \ {w} : Untouched(v)
    BY <2>1, <2>3, WritingUntouched
  <2>5. HasRecord(w)' = HasRecord(w) /\ gate'[w] = "none"
    BY <2>1, WritingKeepsRecords DEF WriteGate, TypeOK
  <2>6. UserBacked(w)'
    BY <2>5 DEF UserBacked
  <2>7. /\ Ticketed(w) \/ gate[w] = "ready" => Ticketed(w)'
        /\ fate[w] \in {"held", "expired"} => fate'[w] \in {"held", "expired"}
    BY <1>6, <2>2, <2>5 DEF Expire, Ticketed
  <2>8. ASSUME NEW r \in Requests, User(r) = w, w \in Singly PROVE RequestBacked(r)'
    BY <1>1, <2>1, <2>7, <2>8 DEF RequestBacked, User
  <2> QED
    BY <2>1, <2>4, <2>6, <2>8, BackedByRest
<1>7. CASE ConsumerRuns
  <2>1. CASE UNCHANGED fate /\ Quiet
    BY <1>4, <1>7, <2>1 DEF ConsumerRuns
  <2>2. ASSUME NEW w \in Users, Mark(w), fate' = [fate EXCEPT ![w] = "held"] PROVE Backed'
    <3>1. req' = req /\ gate'[w] = "ready" /\ fate'[w] = "held"
      BY <1>7, <2>2 DEF ConsumerRuns, Mark, TypeOK, GateTypeOK
    <3>2. \A v \in Users \ {w} : gate'[v] = gate[v] /\ fate'[v] = fate[v]
      BY <2>2 DEF Mark, TypeOK, GateTypeOK
    <3>3. \A v \in Users \ {w} : Untouched(v)
      BY <2>2, <3>2, MarkKeepsOthers DEF Untouched
    <3>4. UserBacked(w)'
      BY <3>1 DEF UserBacked
    <3>5. \A r \in Requests : User(r) = w => RequestBacked(r)'
      BY <3>1 DEF RequestBacked, User
    <3> QED
      BY <3>1, <3>3, <3>4, <3>5, BackedByRest
  <2> QED
    BY <1>7, <2>1, <2>2 DEF ConsumerRuns, Quiet
<1>8. CASE Shutdown
  BY <1>4, <1>8 DEF Shutdown, gateVars, Quiet
<1>9. CASE Death
  <2>1. \A w \in Users : Untouched(w)
    BY <1>9, QuietUntouched DEF Death, Quiet
  <2>2. \A r \in Requests : req'[r].pc = "idle"
    BY <1>9 DEF Death, Over, At
  <2>3. \A r \in Requests : req'[r] \in {req[r], Over("none", FALSE)}
    BY <1>9 DEF Death, Over
  <2>4. \A r \in Requests : RequestBacked(r)'
    BY <2>2 DEF RequestBacked
  <2>5. NoUser \notin Singly
    BY GateConstants DEF Singly
  <2> QED
    BY <2>1, <2>3, <2>4, <2>5, BackedByRest
<1>10. CASE UNCHANGED allVars
  BY <1>4, <1>10 DEF allVars, gateVars, Quiet
<1> QED
  BY <1>2, <1>3, <1>5, <1>6, <1>7, <1>8, <1>9, <1>10 DEF GateNext

LEMMA BackedInvariant ==
  GateSpec => [](TypeOK /\ GateTypeOK /\ ScoreIsOffset /\ FreshMarks /\ Backed)
<1>1. GateInit => FreshMarks /\ Backed
  <2> SUFFICES ASSUME GateInit PROVE FreshMarks /\ Backed
    OBVIOUS
  <2>1. \A u \in Users : gate[u] = "none"
    BY DEF GateInit, Init
  <2>2. \A r \in Requests : req[r].pc = "idle" /\ User(r) = NoUser
    BY DEF GateInit, Over, User
  <2> QED
    BY <2>1, <2>2, GateConstants DEF FreshMarks, Backed, Alone, UserBacked, RequestBacked, Singly
<1>2. GateSpec => [](TypeOK /\ GateTypeOK) /\ []ScoreIsOffset
  BY GateInvariant, GateKeepsOrder, PTL
<1>3. /\ TypeOK /\ GateTypeOK /\ ScoreIsOffset /\ FreshMarks /\ Backed /\ [GateNext]_allVars
      => FreshMarks' /\ Backed'
  BY FreshMarksStep, BackedStep
<1> QED
  BY <1>1, <1>2, <1>3, PTL DEF GateSpec

(* The mark "waiting" has a record behind it, or a named loss, for any number of users
   and requests, as long as the user has one request at a time, whatever the others do
   (concert_router.py:66-82). *)
THEOREM WaitingIsBacked == GateSpec => []WaitingHasTicket
<1>1. Backed => WaitingHasTicket
  BY DEF Backed, WaitingHasTicket, UserBacked, Ticketed, HasRecord, Lost, Singly
<1> QED
  BY <1>1, BackedInvariant, PTL

(* A ready mark lets its user in once: what a request deletes has not been used
   (concert_router.py:42-46). *)
THEOREM PassesOnce == GateSpec => OnePassPerMark
<1>1. /\ GateTypeOK /\ Backed
      => \A r \in Requests :
           User(r) \notin Overlap /\ (Delete(r) \/ DeleteReplyLost(r))
             => fate[User(r)] \in {"held", "expired"}
  <2> SUFFICES ASSUME GateTypeOK, Backed, NEW r \in Requests, User(r) \notin Overlap,
                      req[r].pc = "delete"
               PROVE  fate[User(r)] \in {"held", "expired"}
    BY DEF Delete, DeleteReplyLost, At
  <2>1. User(r) \in Singly
    BY GuardHasUser DEF Guarding, Singly
  <2> QED
    BY <2>1 DEF Backed, RequestBacked
<1> QED
  BY <1>1, BackedInvariant, PTL DEF OnePassPerMark

-----------------------------------------------------------------------------
(* Several requests of one user *)

(* Who holds a ready mark after a step held it before, or finds it there. *)
LEMMA NewHolder ==
  ASSUME GateTypeOK, [GateNext]_allVars, NEW r \in Requests, req'[r].pc = "delete"
  PROVE  \/ req'[r] = req[r]
         \/ User(r) \in Users /\ gate[User(r)] = "ready" /\ req'[r].user = User(r)
<1>1. req \in [Requests -> RequestType]
  BY DEF GateTypeOK, RequestType
<1>2. ASSUME NEW s \in Requests, Step(s) \/ StepFails(s), req'[r] # req[r]
      PROVE  User(r) \in Users /\ gate[User(r)] = "ready" /\ req'[r].user = User(r)
  <2>1. PICK u : u = User(s)
    OBVIOUS
  <2>2. CASE Reading(s)
    <3>1. req' = [req EXCEPT ![s] = req'[s]]
      BY <2>1, <2>2, ReadingLeads
    <3>2. s = r
      BY <1>1, <1>2, <3>1
    <3> QED
      BY <2>1, <2>2, <3>2, ReadingLeads
  <2>3. CASE Delete(s) \/ DeleteReplyLost(s) \/ Send(s) \/ MarkWaiting(s) \/ Remark(s)
    <3>1. req' = [req EXCEPT ![s] = req'[s]] /\ req'[s].pc # "delete"
      BY <1>1, <2>3 DEF Delete, DeleteReplyLost, Send, MarkWaiting, Remark, Goto, Reply, Over,
                  AfterSend, RequestType
    <3> QED
      BY <1>1, <1>2, <3>1
  <2> QED
    BY <1>2, <2>2, <2>3 DEF Step, StepFails, Reading
<1>3. ASSUME NEW s \in Requests, NEW w \in Users \cup {NoUser}, Arrive(s, w) PROVE req'[r] = req[r]
  BY <1>1, <1>3 DEF Arrive, Over
<1>4. CASE Death
  BY <1>4 DEF Death, Over
<1>5. \/ UNCHANGED req \/ Death
      \/ \E s \in Requests : Step(s) \/ StepFails(s) \/ \E w \in Users \cup {NoUser} : Arrive(s, w)
  BY DEF GateNext, LateDelivery, Expire, Enqueue, ConsumerRuns, Shutdown, allVars, gateVars
<1> QED
  BY <1>2, <1>3, <1>4, <1>5

(* However many requests a user has in progress, a mark lets in those that had read it
   before it was used, and nobody who comes later (concert_router.py:42-46, 86-89). *)
THEOREM SpentForEverybody == GateSpec => SpentMarkIsSpent
<1>1. ASSUME GateTypeOK, FreshMarks, [GateNext]_allVars, NEW u \in Users, fate[u] # "held",
             NEW r \in Holders(u)'
      PROVE  r \in Holders(u)
  <2>1. r \in Requests /\ req'[r].pc = "delete" /\ req'[r].user = u
    BY <1>1 DEF Holders, At, User
  <2>2. gate[u] # "ready"
    BY <1>1 DEF FreshMarks
  <2>3. req'[r] = req[r]
    BY <1>1, <2>1, <2>2, NewHolder
  <2> QED
    BY <2>1, <2>3 DEF Holders, At, User
<1>2. GateTypeOK /\ FreshMarks /\ [GateNext]_allVars
      => [\A u \in Users : fate[u] # "held" => Holders(u)' \subseteq Holders(u)]_allVars
  BY <1>1
<1> QED
  BY <1>2, BackedInvariant, PTL DEF GateSpec, SpentMarkIsSpent

-----------------------------------------------------------------------------
(* Nobody gets in without having stood in line *)

(* Once in line is in line for good, or popped, released or forfeited. *)
LEMMA QueuedForGood ==
  ASSUME TypeOK, ScoreIsOffset, [Next]_vars, NEW u \in Users, HasQueued(u)
  PROVE  HasQueued(u)'
<1> USE DEF projector, store, dequeuer, history
<1>1. /\ zset \in [Users -> Nat] /\ batch \in [Users -> Nat]
      /\ marked \subseteq Offsets /\ forfeited \subseteq Offsets
  BY DEF TypeOK
<1> DEFINE Out == \E o \in marked \cup forfeited : log[o] = u
<1>2. ASSUME log' = log, marked \subseteq marked', forfeited \subseteq forfeited' PROVE Out => Out'
  BY <1>2
<1>3. ASSUME UNCHANGED <<log, zset, batch, marked, forfeited>> PROVE HasQueued(u)'
  BY <1>3 DEF HasQueued, Members
<1>4. ASSUME NEW w \in Users, Produce(w) PROVE HasQueued(u)'
  <2>1. /\ log' = Append(log, w) /\ log \in Seq(Users)
        /\ UNCHANGED <<zset, batch, marked, forfeited>>
    BY <1>4 DEF Produce, TypeOK
  <2>2. \A o \in Offsets : log'[o] = log[o]
    BY <2>1 DEF Offsets
  <2> QED
    BY <1>1, <2>1, <2>2 DEF HasQueued, Members
<1>5. CASE Add
  <2>1. /\ zset' = [zset EXCEPT ![log[position]] = position] /\ position > 0 /\ position \in Nat
        /\ UNCHANGED <<log, batch, marked, forfeited>>
    BY <1>5 DEF Add, ZAdd, TypeOK
  <2>2. u \in Members(zset) => u \in Members(zset)'
    BY <1>1, <2>1 DEF Members, Absent
  <2> QED
    BY <2>1, <2>2 DEF HasQueued, Members
<1>6. CASE Pop
  <2> DEFINE S == Lowest(zset, PerSec)
  <2>1. /\ zset' = ZRemove(zset, S) /\ batch' = ZKeep(zset, S) /\ Members(batch) = {}
        /\ UNCHANGED <<log, marked, forfeited>>
    BY <1>6 DEF Pop, TypeOK
  <2> HIDE DEF S
  <2>2. u \in Members(zset) => u \in Members(zset)' \cup Members(batch)'
    BY <2>1 DEF Members, ZRemove, ZKeep
  <2> QED
    BY <2>1, <2>2 DEF HasQueued
<1>7. CASE PopFails
  <2> DEFINE S == Lowest(zset, PerSec)
  <2>1. /\ zset' = ZRemove(zset, S) /\ forfeited' = forfeited \cup Scores(ZKeep(zset, S))
        /\ UNCHANGED <<log, batch, marked>>
    BY <1>7 DEF PopFails
  <2> HIDE DEF S
  <2>2. u \in Members(zset) => u \in Members(zset)' \/ (zset[u] \in forfeited' /\ log[zset[u]] = u)
    BY <2>1 DEF Members, ZRemove, ZKeep, Scores, ScoreIsOffset
  <2> QED
    BY <2>1, <2>2 DEF HasQueued, Members
<1>8. ASSUME NEW w \in Users, Mark(w) PROVE HasQueued(u)'
  <2>1. /\ batch' = ZRemove(batch, {w}) /\ marked' = marked \cup {batch[w]}
        /\ UNCHANGED <<log, zset, forfeited>>
    BY <1>8 DEF Mark
  <2>2. u \in Members(batch) => u \in Members(batch)' \/ (batch[u] \in marked' /\ log[batch[u]] = u)
    BY <2>1 DEF Members, ZRemove, ScoreIsOffset
  <2> QED
    BY <2>1, <2>2 DEF HasQueued, Members
<1>9. CASE MarkFails \/ Stop \/ LoopRaises \/ Crash
  <2>1. forfeited' = forfeited \cup Scores(batch) /\ UNCHANGED <<log, zset, marked>>
    BY <1>9 DEF MarkFails, Stop, LoopRaises, Crash, Halt
  <2>2. u \in Members(batch) => batch[u] \in forfeited' /\ log[batch[u]] = u
    BY <2>1 DEF Members, Scores, ScoreIsOffset
  <2> QED
    BY <2>1, <2>2 DEF HasQueued, Members
<1>10. \/ UNCHANGED <<log, zset, batch, marked, forfeited>>
       \/ Add \/ Pop \/ PopFails \/ MarkFails \/ Stop \/ LoopRaises \/ Crash
       \/ \E w \in Users : Produce(w) \/ Mark(w)
  BY DEF Next, Consumer, Consume, Dequeue, Failure, Environment, vars, Start, StartFails, DequeuerDies,
         AutoCommit, Fetch, Publish, PublishRelease, AddFails, Fault, WriteGate
<1> QED
  BY <1>3, <1>4, <1>5, <1>6, <1>7, <1>8, <1>9, <1>10

\* A request about to spend a mark, or let in by a gate that is up, has a user who queued.
Admissible(r) ==
  /\ req[r].pc = "delete" => HasQueued(User(r))
  /\ req[r].pc = "detail" /\ req[r].full => User(r) \in Users /\ HasQueued(User(r))
  /\ Threshold = 0 /\ req[r].pc # "idle" => req[r].full

Admitting ==
  /\ \A u \in Users : gate[u] = "ready" => HasQueued(u)
  /\ \A r \in Requests : Admissible(r)

LEMMA ReadyHasQueued ==
  ASSUME TypeOK, GateTypeOK, ScoreIsOffset, Admitting, [GateNext]_allVars,
         NEW u \in Users, gate'[u] = "ready"
  PROVE  HasQueued(u)'
<1>1. [Next]_vars
  BY GateStepSimulates
<1>2. CASE gate[u] = "ready"
  BY <1>1, <1>2, QueuedForGood DEF Admitting
<1>3. CASE gate[u] # "ready"
  <2>1. gate \in [Users -> GateStates]
    BY DEF TypeOK
  <2>2. PICK w \in Users : Mark(w)
    BY <1>1, <1>3, <2>1 DEF Next, Consumer, Consume, Dequeue, Failure, Environment, vars, Start,
       StartFails, DequeuerDies, AutoCommit, Fetch, Add, Publish, Pop, PublishRelease, AddFails, PopFails,
       MarkFails, Stop, LoopRaises, Crash, Halt, Produce, WriteGate, store
  <2>3. w = u
    BY <1>3, <2>1, <2>2 DEF Mark
  <2>4. batch[u] \in marked' /\ log' = log /\ u \in Members(batch)
    BY <2>2, <2>3 DEF Mark, Lowest, projector
  <2>5. log[batch[u]] = u
    BY <2>4 DEF ScoreIsOffset, Members
  <2> QED
    BY <2>4, <2>5 DEF HasQueued
<1> QED
  BY <1>2, <1>3

(* Where its own step takes a request: what it read of its user's place and mark
   is true at that moment. *)
LEMMA StepLeads ==
  ASSUME GateTypeOK, NEW r \in Requests, NEW u, u = User(r), Step(r) \/ StepFails(r),
         req'[r].pc # "idle"
  PROVE  /\ u \in Users /\ req'[r].user = u /\ req'[r].full = req[r].full /\ req[r].pc # "idle"
         /\ req'[r].pc = "delete" => gate[u] = "ready"
         /\ req'[r].pc = "detail" => req[r].pc = "delete" \/ u \in Members(zset) \/ ~ req[r].full
<1>1. req \in [Requests -> RequestType]
  BY DEF GateTypeOK, RequestType
<1>2. ~ StepFails(r) /\ ~ GetDetail(r)
  BY <1>1 DEF StepFails, RedisFails, DeleteReplyLost, SendTimesOut, DetailFails, GetDetail, Reply, Over
<1>3. u \in Users /\ req[r].pc # "idle"
  BY <1>2, GuardHasUser DEF Step, ReadRank, ReadState, Delete, Send, MarkWaiting, PollFinds,
     PollEnds, Remark, Recheck, EnsureQueueFront, At, Guarding
<1>4. CASE ReadState(r)
  <2>1. req' = [req EXCEPT ![r] = [req[r] EXCEPT
          !.pc = AfterReads(req[r].full, req[r].ranked, gate[u]), !.seen = gate[u]]]
    BY <1>1, <1>4 DEF ReadState
  <2>2. req'[r].pc = AfterReads(req[r].full, req[r].ranked, gate[u])
    BY <1>1, <2>1 DEF RequestType
  <2>3. /\ req'[r].pc = "delete" => gate[u] = "ready"
        /\ req'[r].pc = "detail" => ~ req[r].full
    BY <2>2 DEF AfterReads
  <2>4. req'[r].user = u /\ req'[r].full = req[r].full
    BY <1>1, <2>1 DEF RequestType, User
  <2> QED
    BY <1>3, <2>3, <2>4
<1>5. CASE ReadRank(r)
  BY <1>1, <1>3, <1>5 DEF ReadRank, User, RequestType
<1>6. CASE ~ ReadState(r) /\ ~ ReadRank(r)
  <2>1. PICK pc \in PCs :
          /\ req' = [req EXCEPT ![r].pc = pc]
          /\ pc = "delete" => gate[u] = "ready"
          /\ pc = "detail" => req[r].pc = "delete" \/ u \in Members(zset)
    BY <1>1, <1>2, <1>6 DEF Step, Delete, Send, MarkWaiting, PollFinds, PollEnds, Remark,
       Recheck, EnsureQueueFront, Goto, Reply, Over, At, AfterSend, PCs
  <2> QED
    BY <1>1, <1>3, <2>1 DEF RequestType, User
<1> QED
  BY <1>4, <1>5, <1>6

LEMMA AdmittingStep ==
  ASSUME TypeOK, GateTypeOK, ScoreIsOffset, Admitting, [GateNext]_allVars
  PROVE  Admitting'
<1>1. \A u \in Users : gate'[u] = "ready" => HasQueued(u)'
  BY ReadyHasQueued
<1>2. [Next]_vars /\ req \in [Requests -> RequestType]
  BY GateStepSimulates DEF GateTypeOK, RequestType
<1>3. \A u \in Users : HasQueued(u) => HasQueued(u)'
  BY <1>2, QueuedForGood
<1>4. ASSUME NEW r \in Requests, req'[r] = req[r] PROVE Admissible(r)'
  <2>1. Admissible(r) /\ (req[r].pc = "delete" => User(r) \in Users)
    BY GuardHasUser DEF Admitting, Guarding
  <2> QED
    BY <1>3, <1>4, <2>1 DEF Admissible, User
<1>5. ASSUME NEW r \in Requests, req'[r].pc = "idle" PROVE Admissible(r)'
  BY <1>5 DEF Admissible
<1>6. ASSUME NEW r \in Requests, Step(r) \/ StepFails(r) PROVE Admissible(r)'
  <2> SUFFICES ASSUME req'[r].pc # "idle" PROVE Admissible(r)'
    BY <1>5
  <2>1. PICK u : u = User(r)
    OBVIOUS
  <2>2. /\ u \in Users /\ req'[r].user = u /\ req'[r].full = req[r].full /\ req[r].pc # "idle"
        /\ req'[r].pc = "delete" => gate[u] = "ready"
        /\ req'[r].pc = "detail" => req[r].pc = "delete" \/ u \in Members(zset) \/ ~ req[r].full
    BY <1>6, <2>1, StepLeads
  <2>3. Admissible(r) /\ (gate[u] = "ready" => HasQueued(u))
    BY <2>2 DEF Admitting
  <2>4. u \in Members(zset) \/ req[r].pc = "delete" \/ gate[u] = "ready" => HasQueued(u)'
    BY <1>3, <2>1, <2>2, <2>3 DEF HasQueued, Admissible
  <2> QED
    BY <2>2, <2>3, <2>4 DEF Admissible, User
<1>7. ASSUME NEW r \in Requests, NEW w \in Users \cup {NoUser}, Arrive(r, w) PROVE Admissible(r)'
  <2> SUFFICES ASSUME req'[r].pc # "idle" PROVE Admissible(r)'
    BY <1>5
  <2> DEFINE full == Cardinality(Members(zset)) >= Threshold
  <2>1. Threshold = 0 => full
    <3>1. IsFiniteSet(Members(zset))
      BY UsersFinite, FS_Subset DEF Members
    <3> QED
      BY <3>1, FS_CardinalityType
  <2>2. /\ req'[r].pc \in {"rank", "detail"} /\ req'[r].full = full
        /\ req'[r].pc = "detail" => ~ full
    BY <1>2, <1>7 DEF Arrive, Over
  <2> HIDE DEF full
  <2> QED
    BY <2>1, <2>2 DEF Admissible
<1>8. ASSUME NEW r \in Requests,
             \/ Step(r) \/ StepFails(r)
             \/ \E w \in Users \cup {NoUser} : Arrive(r, w)
      PROVE  \A s \in Requests : Admissible(s)'
  <2>1. PICK u : u = User(r)
    OBVIOUS
  <2>2. \A s \in Requests \ {r} : req'[s] = req[s]
    BY <1>2, <1>8, <2>1 DEF Step, StepFails, ReadRank, ReadState, Delete, Send, MarkWaiting,
       PollFinds, PollEnds, Remark, Recheck, EnsureQueueFront, GetDetail, RedisFails,
       DeleteReplyLost, SendTimesOut, DetailFails, Goto, Reply, Arrive
  <2> QED
    BY <1>4, <1>6, <1>7, <1>8, <2>2
<1>9. \/ UNCHANGED req \/ Death
       \/ \E s \in Requests : Step(s) \/ StepFails(s) \/ \E w \in Users \cup {NoUser} : Arrive(s, w)
  BY DEF GateNext, LateDelivery, Expire, Enqueue, ConsumerRuns, Shutdown, allVars, gateVars
<1>10. \A r \in Requests : Admissible(r)'
  <2>1. CASE UNCHANGED req
    BY <1>4, <2>1
  <2>2. CASE Death
    BY <1>4, <1>5, <2>2 DEF Death, Over
  <2> QED
    BY <1>8, <1>9, <2>1, <2>2
<1> QED
  BY <1>1, <1>10 DEF Admitting

(* A gate that is up lets in nobody who has not stood in line, for any threshold, any
   number of users and of requests and any failures (concert_router.py:37-53, 97-100). *)
THEOREM OnlyThroughTheLine == GateSpec => []NobodySlipsIn
<1>1. GateInit => Admitting
  <2> SUFFICES ASSUME GateInit PROVE Admitting
    OBVIOUS
  <2>1. \A u \in Users : gate[u] # "ready"
    BY DEF GateInit, Init
  <2>2. \A r \in Requests : req[r].pc = "idle"
    BY DEF GateInit, Over
  <2> QED
    BY <2>1, <2>2 DEF Admitting, Admissible
<1>2. GateSpec => [](TypeOK /\ GateTypeOK) /\ []ScoreIsOffset
  BY GateInvariant, GateKeepsOrder, PTL
<1>3. /\ TypeOK /\ GateTypeOK /\ ScoreIsOffset /\ Admitting /\ [GateNext]_allVars => Admitting'
  BY AdmittingStep
<1>4. Admitting => NobodySlipsIn
  BY DEF Admitting, Admissible, NobodySlipsIn, At
<1> QED
  BY <1>1, <1>2, <1>3, <1>4, PTL DEF GateSpec

-----------------------------------------------------------------------------
(* One ticket per user *)

\* What is under way for a user without a crash: a batch is of records before the one
\* at hand, and none of them is in the sorted set.
BatchBefore ==
  \A u \in Members(batch) : /\ batch[u] <= position
                            /\ loop = "add" => batch[u] < position
                            /\ batch[u] # zset[u]

LEMMA BatchBeforeStep ==
  ASSUME "crash" \notin FaultKinds, TypeOK, NoneBeyond, BatchBefore, [Next]_vars
  PROVE  BatchBefore'
<1> USE DEF store, dequeuer, projector, history
<1>1. /\ zset \in [Users -> Nat] /\ batch \in [Users -> Nat] /\ position \in Nat
      /\ Members(zset) \subseteq Users /\ Members(batch) \subseteq Users
  BY DEF TypeOK, Members
<1> DEFINE Keeps == /\ \A u \in Members(batch') : /\ u \in Members(batch) /\ batch'[u] = batch[u]
                                                 /\ zset'[u] \in {Absent, zset[u]}
                    /\ position' = position
                    /\ loop' = "add" => loop = "add"
<1>2. CASE Keeps
  BY <1>1, <1>2 DEF BatchBefore, Members
<1>3. CASE Fetch
  BY <1>1, <1>3 DEF Fetch, BatchBefore, Members
<1>4. CASE Add
  <2>1. /\ \A u \in Users : zset'[u] \in {zset[u], position}
        /\ batch' = batch /\ position' = position /\ loop' # "add" /\ loop = "add"
    BY <1>1, <1>4 DEF Add, ZAdd
  <2> QED
    BY <1>1, <2>1 DEF BatchBefore, Members
<1>5. CASE Pop
  <2> DEFINE S == Lowest(zset, PerSec)
  <2>1. batch' = ZKeep(zset, S) /\ zset' = ZRemove(zset, S) /\ UNCHANGED <<position, loop>>
    BY <1>5 DEF Pop
  <2> HIDE DEF S
  <2>2. ASSUME NEW u \in Members(batch')
        PROVE  u \in Members(zset) /\ batch'[u] = zset[u] /\ zset'[u] = Absent
    BY <2>1, <2>2 DEF ZKeep, ZRemove, Members, Absent
  <2> QED
    BY <1>1, <2>1, <2>2 DEF BatchBefore, NoneBeyond, Members
<1>6. CASE PopFails
  <2>1. /\ zset' = ZRemove(zset, Lowest(zset, PerSec))
        /\ batch' = batch /\ UNCHANGED <<position, loop>>
    BY <1>6 DEF PopFails
  <2> QED
    BY <1>1, <1>2, <2>1 DEF ZRemove
<1>7. ASSUME NEW w \in Users, Mark(w) PROVE Keeps
  <2>1. batch' = ZRemove(batch, {w}) /\ UNCHANGED <<position, loop, zset>>
    BY <1>7 DEF Mark
  <2> QED
    BY <1>1, <2>1 DEF ZRemove, Members, Absent
<1>8. CASE MarkFails \/ Stop \/ LoopRaises
  <2>1. Members(batch') = {}
    BY <1>8 DEF MarkFails, Stop, LoopRaises, Halt, Members, EmptyZset, Absent
  <2> QED
    BY <2>1 DEF BatchBefore
<1>9. UNCHANGED <<batch, zset, position>> /\ (loop' = "add" => loop = "add") => Keeps
  OBVIOUS
<1>10. \/ Fetch \/ Add \/ Pop \/ PopFails \/ MarkFails \/ Stop \/ LoopRaises
       \/ \E w \in Users : Mark(w)
       \/ UNCHANGED <<batch, zset, position>> /\ (loop' = "add" => loop = "add")
  BY DEF Next, Consumer, Consume, Dequeue, Failure, Environment, vars, Start,
         StartFails, DequeuerDies, AutoCommit, Publish, PublishRelease, AddFails, Crash,
         Fault, WriteGate, Produce
<1> QED
  BY <1>2, <1>3, <1>4, <1>5, <1>6, <1>7, <1>8, <1>9, <1>10

\* The consumer without its crashes, and with nothing new to read.
Calm ==
  \/ Start \/ StartFails \/ DequeuerDies \/ AutoCommit \/ Consume \/ Pop \/ PublishRelease
  \/ AddFails \/ PopFails \/ MarkFails \/ Stop \/ LoopRaises
  \/ UNCHANGED <<projector, zset, batch>>

LEMMA CalmShrinks ==
  ASSUME TypeOK, NEW u \in Users, Calm \/ \E w \in Users : Mark(w)
  PROVE  Live(u)' \subseteq Live(u)
<1> USE DEF projector, store, dequeuer, history
<1>1. /\ log' = log /\ Offsets' = Offsets /\ position \in Nat /\ Len(log) \in Nat
      /\ zset \in [Users -> Nat] /\ batch \in [Users -> Nat]
  <2>1. log' = log
    BY DEF Calm, Start, StartFails, DequeuerDies, AutoCommit, Consume, Fetch, Add, Publish, Pop,
           PublishRelease, AddFails, PopFails, MarkFails, Stop, LoopRaises, Halt, Mark
  <2> QED
    BY <2>1 DEF Offsets, TypeOK
<1>2. Offsets \subseteq Nat \ {0}
  BY DEF Offsets
<1> DEFINE Fewer == /\ zset'[u] \in {Absent, zset[u]} /\ batch'[u] \in {Absent, zset[u], batch[u]}
                    /\ position' = position /\ (loop' = "add" => loop = "add")
<1>3. CASE Fewer
  BY <1>1, <1>2, <1>3 DEF Live, Absent
<1>4. CASE Fetch
  <2>1. position' = position + 1 /\ UNCHANGED <<zset, batch>>
    BY <1>4 DEF Fetch
  <2>2. ASSUME NEW o \in Live(u)' PROVE o \in Live(u)
    <3>1. o \in Offsets /\ o \in Nat /\ log[o] = u
      BY <1>1, <1>2, <2>2 DEF Live
    <3>2. o > position + 1 \/ o = position + 1 \/ o \in {zset[u], batch[u]}
      BY <2>1, <2>2 DEF Live
    <3> QED
      BY <1>1, <3>1, <3>2 DEF Live
  <2> QED
    BY <2>2
<1>5. CASE Add
  <2>1. /\ zset' = [zset EXCEPT ![log[position]] = position] /\ loop = "add" /\ loop' # "add"
        /\ UNCHANGED <<batch, position>>
    BY <1>5 DEF Add, ZAdd
  <2>2. zset'[u] = zset[u] \/ (zset'[u] = position /\ log[position] = u)
    BY <1>1, <2>1
  <2> QED
    BY <1>1, <1>2, <2>1, <2>2 DEF Live
<1>6. Pop \/ PopFails => Fewer
  BY DEF Pop, PopFails, ZRemove, ZKeep
<1>7. MarkFails \/ Stop \/ LoopRaises => Fewer
  BY DEF MarkFails, Stop, LoopRaises, Halt, EmptyZset
<1>8. (\E w \in Users : Mark(w)) => Fewer
  BY DEF Mark, ZRemove
<1>9. \/ Start \/ StartFails \/ DequeuerDies \/ AutoCommit \/ Publish \/ PublishRelease \/ AddFails
      \/ UNCHANGED <<projector, zset, batch>>
      => Fewer
  BY DEF Start, StartFails, DequeuerDies, AutoCommit, Publish, PublishRelease, AddFails
<1> QED
  BY <1>3, <1>4, <1>5, <1>6, <1>7, <1>8, <1>9 DEF Calm, Consume

(* A record that is sent is one more for its user, and nothing to the others. *)
LEMMA ProduceAdds ==
  ASSUME TypeOK, NEW u \in Users, NEW w \in Users, Produce(w)
  PROVE  Live(u)' \subseteq Live(u) \cup (IF w = u THEN {Len(log) + 1} ELSE {})
<1>1. /\ log' = Append(log, w) /\ log \in Seq(Users)
      /\ UNCHANGED <<position, loop, zset, batch>>
  BY DEF Produce, TypeOK, store, dequeuer
<1>2. /\ Len(log') = Len(log) + 1 /\ log'[Len(log) + 1] = w /\ Len(log) \in Nat
      /\ \A o \in Offsets : log'[o] = log[o]
  BY <1>1 DEF Offsets
<1>3. ASSUME NEW o \in Live(u)' PROVE o \in Live(u) \/ (o = Len(log) + 1 /\ w = u)
  <2>1. o \in 1..(Len(log) + 1) /\ log'[o] = u
    BY <1>2, <1>3 DEF Live, Offsets
  <2>2. CASE o = Len(log) + 1
    BY <1>2, <2>1, <2>2
  <2>3. CASE o # Len(log) + 1
    BY <1>1, <1>2, <1>3, <2>1, <2>3 DEF Live, Offsets
  <2> QED
    BY <2>2, <2>3
<1> QED
  BY <1>3

\* The setting in which the guard alone decides about a user's records.
Undisturbed ==
  MishapKinds \subseteq {"db"} /\ "crash" \notin FaultKinds

\* At most one record under way; none without the mark "waiting", unless it is about to be
\* written; none when a request is about to send one, or to spend the ready mark.
Single(u) ==
  /\ \A o, p \in Live(u) : o = p
  /\ \/ gate[u] = "waiting" \/ Live(u) = {}
     \/ \E r \in Requests : User(r) = u /\ req[r].pc = "mark"
  /\ \A r \in Requests : User(r) = u /\ req[r].pc \in {"send", "delete"} => Live(u) = {}

Singles ==
  Undisturbed => /\ late = {} /\ NoneBeyond /\ BatchBefore
                 /\ \A u \in Singly \ Enqueuers : Single(u)

LEMMA NothingLive ==
  ASSUME NEW u, Live(u)' = {}
  PROVE  Single(u)'
BY DEF Single

(* What keeps a user single: no new record, no mark lost, and no request that starts
   to rely on more than there is. *)
LEMMA SingleKept ==
  ASSUME NEW u, Single(u), Live(u)' \subseteq Live(u), gate'[u] \in {gate[u], "waiting"},
         \A r \in Requests : User(r) = u /\ req[r].pc = "mark"
                              => req'[r] = req[r] \/ gate'[u] = "waiting",
         \A r \in Requests : req'[r].user = u /\ req'[r].pc \in {"send", "delete"}
                              => req'[r] = req[r] \/ Live(u) = {}
  PROVE  Single(u)'
<1>1. \A o, p \in Live(u)' : o = p
  BY DEF Single
<1>2. \/ gate'[u] = "waiting" \/ Live(u)' = {}
      \/ \E r \in Requests : req'[r].user = u /\ req'[r].pc = "mark"
  BY DEF Single, User
<1>3. \A r \in Requests : req'[r].user = u /\ req'[r].pc \in {"send", "delete"} => Live(u)' = {}
  BY DEF Single, User
<1> QED
  BY <1>1, <1>2, <1>3 DEF Single, User

LEMMA ReadingSingle ==
  ASSUME GateTypeOK, Undisturbed, Alone, NEW r \in Requests, Reading(r),
         NEW u \in Singly, Single(u)
  PROVE  Single(u)'
<1> USE DEF Singly
<1>1. PICK v : v = User(r)
  OBVIOUS
<1>2. /\ UNCHANGED <<vars, fate>>
      /\ req' = [req EXCEPT ![r] = req'[r]]
      /\ req'[r].user \in {v, NoUser}
      /\ req'[r].pc = "delete" => v \in Users /\ gate[v] = "ready" /\ req'[r].user = v
  BY <1>1, ReadingLeads
<1>3. Live(u)' = Live(u) /\ gate' = gate
  BY <1>2 DEF Live, Offsets, vars, projector, store, dequeuer
<1>4. req \in [Requests -> RequestType] /\ NoUser # u
  BY GateConstants DEF GateTypeOK, RequestType
<1>5. \A s \in Requests \ {r} : req'[s] = req[s]
  BY <1>2, <1>4
<1>6. req[r].pc # "mark"
  BY DEF Undisturbed, Reading, ReadRank, ReadState, PollFinds, PollEnds, Recheck,
         EnsureQueueFront, GetDetail, RedisFails, SendTimesOut, DetailFails, Mishap, At
<1>7. req'[r].pc = "send" => gate[v] \notin {"ready", "waiting"}
  <2>1. CASE ReadState(r)
    BY <1>1, <1>4, <2>1 DEF ReadState, AfterReads, RequestType
  <2>2. CASE ~ ReadState(r)
    BY <1>4, <2>2 DEF Reading, ReadRank, PollFinds, PollEnds, Recheck, EnsureQueueFront,
       GetDetail, RedisFails, SendTimesOut, DetailFails, Goto, Reply, Over, RequestType
  <2> QED
    BY <2>1, <2>2
<1>8. req'[r].user = u /\ req'[r].pc \in {"send", "delete"} => Live(u) = {}
  <2> SUFFICES ASSUME req'[r].user = u, req'[r].pc \in {"send", "delete"} PROVE Live(u) = {}
    OBVIOUS
  <2>1. u = User(r) /\ gate[u] # "waiting"
    BY <1>1, <1>2, <1>4, <1>7
  <2>2. ~ \E s \in Requests : User(s) = u /\ req[s].pc = "mark"
    BY <1>6, <2>1 DEF Alone
  <2> QED
    BY <2>1, <2>2 DEF Single
<1> QED
  BY <1>3, <1>5, <1>6, <1>8, SingleKept

LEMMA WritingSingle ==
  ASSUME TypeOK, GateTypeOK, Alone, NEW r \in Requests, NEW v, v = User(r),
         Delete(r) \/ Send(r) \/ MarkWaiting(r) \/ Remark(r), NEW u \in Singly, Single(u)
  PROVE  Single(u)'
<1> USE DEF Singly
<1>1. v \in Users /\ req \in [Requests -> RequestType]
  BY GuardHasUser DEF Delete, Send, MarkWaiting, Remark, At, Guarding, GateTypeOK, RequestType
<1>2. /\ \A s \in Requests \ {r} : req'[s] = req[s]
      /\ req'[r].user = v /\ req'[r].pc \notin {"send", "delete"}
  BY <1>1 DEF Delete, Send, MarkWaiting, Remark, Goto, AfterSend, User, RequestType
<1>3. \A s \in Requests : req'[s].user = u /\ req'[s].pc \in {"send", "delete"} => req'[s] = req[s]
  BY <1>2
<1>4. CASE Delete(r) \/ MarkWaiting(r) \/ Remark(r)
  <2>1. PICK m \in {"none", "waiting"} : WriteGate(v, m) /\ (m = "none" => Delete(r))
    BY <1>4 DEF Delete, MarkWaiting, Remark, Writes
  <2>2. Live(u)' = Live(u)
    BY <2>1 DEF WriteGate, Live, Offsets, projector, dequeuer
  <2>3. gate'[v] = m /\ \A w \in Users \ {v} : gate'[w] = gate[w]
    BY <1>1, <2>1 DEF WriteGate, TypeOK
  <2>4. CASE v = u /\ Delete(r)
    <3>1. Live(u) = {}
      BY <2>4 DEF Single, Delete, At
    <3> QED
      BY <2>2, <3>1, NothingLive
  <2>5. CASE v = u /\ ~ Delete(r)
    BY <1>3, <2>1, <2>2, <2>3, <2>5, SingleKept
  <2>6. CASE v # u
    BY <1>2, <1>3, <2>2, <2>3, <2>6, SingleKept
  <2> QED
    BY <2>4, <2>5, <2>6
<1>5. CASE Send(r)
  <2>1. Produce(v) /\ gate' = gate /\ req[r].pc = "send" /\ req'[r].pc = "mark"
    BY <1>1, <1>5 DEF Send, Sends, Produce, store, At, Goto, RequestType
  <2>2. Live(u)' \subseteq Live(u) \cup (IF v = u THEN {Len(log) + 1} ELSE {})
    BY <1>1, <2>1, ProduceAdds
  <2>3. CASE v = u
    <3>1. Live(u) = {}
      BY <2>1, <2>3 DEF Single
    <3>2. \A o, p \in Live(u)' : o = p
      BY <2>2, <2>3, <3>1
    <3>3. \E s \in Requests : req'[s].user = u /\ req'[s].pc = "mark"
      BY <1>2, <2>1, <2>3
    <3>4. ASSUME NEW s \in Requests, req'[s].user = u PROVE req'[s].pc \notin {"send", "delete"}
      BY <1>2, <2>3, <3>4 DEF Alone, User
    <3> QED
      BY <3>2, <3>3, <3>4 DEF Single, User
  <2>4. CASE v # u
    BY <1>2, <1>3, <2>1, <2>2, <2>4, SingleKept
  <2> QED
    BY <2>3, <2>4
<1> QED
  BY <1>4, <1>5

LEMMA MarkSingle ==
  ASSUME TypeOK, ScoreIsOffset, BatchBefore, req' = req, NEW w \in Users, Mark(w),
         NEW u \in Users, Single(u)
  PROVE  Single(u)'
<1>1. Live(u)' \subseteq Live(u)
  BY CalmShrinks
<1>2. CASE w # u
  <2>1. gate'[u] = gate[u]
    BY <1>2 DEF Mark, TypeOK
  <2> QED
    BY <1>1, <2>1, SingleKept
<1>3. CASE w = u
  <2>1. /\ u \in Members(batch) /\ batch[u] \in 0..Len(log) /\ Len(log) \in Nat /\ position \in Nat
        /\ zset[u] \in Nat
    BY <1>3 DEF Mark, Lowest, TypeOK
  <2>2. batch[u] # Absent /\ batch[u] <= position /\ batch[u] # zset[u]
        /\ (loop = "add" => batch[u] < position)
    BY <2>1 DEF BatchBefore, Members
  <2>3. batch[u] \in Live(u)
    BY <2>1, <2>2 DEF ScoreIsOffset, Live, Offsets, Absent
  <2>4. Live(u) = {batch[u]}
    BY <2>3 DEF Single
  <2>5. batch'[u] = Absent /\ UNCHANGED <<log, position, loop, zset>>
    BY <1>3 DEF Mark, ZRemove, projector
  <2>6. batch[u] \notin Live(u)'
    BY <2>1, <2>2, <2>5 DEF Live
  <2>7. Live(u)' = {}
    BY <1>1, <2>4, <2>6
  <2> QED
    BY <2>7, NothingLive
<1> QED
  BY <1>2, <1>3

(* One user's part of a step. *)
LEMMA SingleStep ==
  ASSUME TypeOK, GateTypeOK, ScoreIsOffset, BatchBefore, Alone, Undisturbed, late = {},
         [GateNext]_allVars, NEW u \in Singly \ Enqueuers, Single(u)
  PROVE  Single(u)'
<1> USE DEF Singly
<1>1. ASSUME Calm, req' = req, gate' = gate PROVE Single(u)'
  BY <1>1, CalmShrinks, SingleKept
<1>2. ASSUME NEW r \in Requests, Step(r) \/ StepFails(r) PROVE Single(u)'
  <2>1. PICK v : v = User(r)
    OBVIOUS
  <2>2. ~ DeleteReplyLost(r)
    BY DEF Undisturbed, DeleteReplyLost, Mishap
  <2>3. Reading(r) \/ Delete(r) \/ Send(r) \/ MarkWaiting(r) \/ Remark(r)
    BY <1>2, <2>2 DEF Step, StepFails, Reading
  <2> QED
    BY <2>1, <2>3, ReadingSingle, WritingSingle
<1>3. ASSUME NEW r \in Requests, NEW w \in Users \cup {NoUser}, Arrive(r, w) PROVE Single(u)'
  <2>1. /\ UNCHANGED <<log, position, loop, zset, batch, gate>>
        /\ \A s \in Requests \ {r} : req'[s] = req[s]
        /\ req[r].pc = "idle" /\ req'[r].pc \in {"idle", "rank", "detail"}
    BY <1>3 DEF Arrive, Reads, At, Over, GateTypeOK, vars, projector, store, dequeuer
  <2>2. Live(u)' = Live(u)
    BY <2>1 DEF Live, Offsets
  <2> QED
    BY <2>1, <2>2, SingleKept
<1>4. ASSUME NEW w \in Users, Expire(w) \/ Enqueue(w) PROVE Single(u)'
  <2>1. Enqueue(w)
    BY <1>4 DEF Undisturbed, Expire, Mishap
  <2>2. Produce(w) /\ w # u /\ req' = req /\ gate' = gate
    BY <2>1 DEF Enqueue, Sends, Produce, store
  <2>3. Live(u)' \subseteq Live(u)
    BY <2>2, ProduceAdds
  <2> QED
    BY <2>2, <2>3, SingleKept
<1>5. CASE ConsumerRuns
  <2>1. CASE \E w \in Users : Mark(w)
    BY <1>5, <2>1, MarkSingle DEF ConsumerRuns
  <2>2. CASE ~ \E w \in Users : Mark(w)
    <3>1. Calm /\ req' = req
      BY <1>5, <2>2 DEF ConsumerRuns, Calm
    <3>2. gate' = gate
      BY <1>5, <2>2 DEF ConsumerRuns, Start, StartFails, DequeuerDies,
         AutoCommit, Consume, Fetch, Add, Publish, Pop, PublishRelease, AddFails, PopFails,
         MarkFails, LoopRaises, Halt, store
    <3> QED
      BY <1>1, <3>1, <3>2
  <2> QED
    BY <2>1, <2>2
<1>6. CASE Shutdown
  BY <1>1, <1>6 DEF Shutdown, gateVars, Calm, Stop, Halt, store
<1>7. ~ Death
  BY DEF Undisturbed, Death, Crash, Fault
<1>8. CASE UNCHANGED allVars
  BY <1>1, <1>8 DEF allVars, vars, gateVars, Calm, store, dequeuer
<1> QED
  BY <1>2, <1>3, <1>4, <1>5, <1>6, <1>7, <1>8 DEF GateNext

LEMMA SinglesStep ==
  ASSUME TypeOK, GateTypeOK, ScoreIsOffset, Backed, Singles, [GateNext]_allVars
  PROVE  Singles'
<1> SUFFICES ASSUME Undisturbed PROVE Singles'
  BY DEF Singles, Undisturbed
<1>1. /\ late = {} /\ NoneBeyond /\ BatchBefore /\ "crash" \notin FaultKinds /\ Alone
      /\ \A u \in Singly \ Enqueuers : Single(u)
  BY DEF Singles, Backed, Undisturbed
<1>2. late' = {}
  BY <1>1 DEF GateNext, Arrive, Step, StepFails, ReadRank, ReadState, Delete, Send,
     MarkWaiting, PollFinds, PollEnds, Remark, Recheck, EnsureQueueFront, GetDetail, RedisFails,
     DeleteReplyLost, SendTimesOut, DetailFails, LateDelivery, Expire, Enqueue, ConsumerRuns,
     Shutdown, Death, Reads, Writes, Sends, Mishap, Undisturbed, allVars, gateVars
<1>3. [Next]_vars
  BY GateStepSimulates
<1>4. NoneBeyond' /\ BatchBefore'
  BY <1>1, <1>3, NoneBeyondStep, BatchBeforeStep
<1>5. \A u \in Singly \ Enqueuers : Single(u)'
  BY <1>1, SingleStep
<1> QED
  BY <1>2, <1>4, <1>5 DEF Singles

(* The guard queues a user once, for any number of users and requests, in the setting
   OneLiveTicket names (concert_router.py:37-69). *)
THEOREM QueuedOnce == GateSpec => []OneLiveTicket
<1>1. GateInit => Singles
  <2> SUFFICES ASSUME GateInit PROVE Singles
    OBVIOUS
  <2>1. \A u : Live(u) = {}
    BY DEF GateInit, Init, Live, Offsets
  <2>2. Members(zset) = {} /\ Members(batch) = {}
    BY DEF GateInit, Init, Members, EmptyZset
  <2>3. \A u \in Users : Single(u)
    BY <2>1 DEF Single
  <2> QED
    BY <2>2, <2>3 DEF Singles, Singly, NoneBeyond, BatchBefore, GateInit
<1>2. TypeOK /\ GateTypeOK /\ ScoreIsOffset /\ Backed /\ Singles /\ [GateNext]_allVars
      => Singles'
  BY SinglesStep
<1>3. Singles => OneLiveTicket
  <2> SUFFICES ASSUME Singles, Undisturbed, NEW u \in Singly \ Enqueuers
               PROVE  Cardinality(Live(u)) <= 1
    BY DEF OneLiveTicket, Undisturbed, Singly
  <2>1. \A o, p \in Live(u) : o = p
    BY DEF Singles, Single
  <2>2. CASE Live(u) = {}
    BY <2>2, FS_EmptySet
  <2>3. CASE Live(u) # {}
    <3>1. PICK o \in Live(u) : Live(u) = {o}
      BY <2>1, <2>3
    <3>2. Cardinality({o}) = 1
      BY FS_Singleton
    <3> QED
      BY <3>1, <3>2
  <2> QED
    BY <2>2, <2>3
<1> QED
  BY <1>1, <1>2, <1>3, BackedInvariant, PTL DEF GateSpec

==============================================================================
