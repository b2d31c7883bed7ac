------------------------ MODULE DatabaseSessionsProofs ------------------------
(***************************************************************************)
(* What holds of the database sessions for any number of requests, any pool *)
(* and any faults: the types, the discipline of connections and locks, and  *)
(* that an acknowledged account can be logged in to.                        *)
(***************************************************************************)
EXTENDS DatabaseSessions, FiniteSetTheorems, TLAPS

Request == [pc : PCs, order : Orders, owed : BOOLEAN, answer : Answers]

\* What TypeOK says of one request.
Sound(q, connected) ==
  /\ q \in Request
  /\ q.pc \in {"execute", "commit"} => connected
  /\ q.pc = "commit" => q.order.kind = "signup"

-----------------------------------------------------------------------------
(* Types *)

\* Only a sign-up or a login has an account, only a booking a seat.
LEMMA OrderFields ==
  ASSUME NEW o \in Orders
  PROVE  /\ o.kind \in {"signup", "login"} => o.account \in Account
         /\ o.kind = "book" => o.seat \in Seats \cup {NoSeat}
BY DEF Orders

LEMMA OverIsSound == Over \in Request /\ Over.pc = "idle"
BY DEF Over, Request, PCs, Answers, Orders

LEMMA TypeInit == Init => TypeOK
<1> SUFFICES ASSUME Init PROVE TypeOK
  OBVIOUS
<1>1. Over \in Request /\ Over.pc \notin {"execute", "commit"}
  BY OverIsSound
<1>2. \A r \in Requests : req[r] = Over
  BY DEF Init
<1>3. req \in [Requests -> Request]
  BY <1>1 DEF Init
<1>4. 0 \in 0..MaxFaults
  BY SessionConstants
<1> QED
  BY <1>1, <1>2, <1>3, <1>4 DEF Init, TypeOK, Request

\* A step of one request keeps the types if it leaves that request sound.
LEMMA OneRequestType ==
  ASSUME TypeOK, NEW r \in Requests, NEW q, Sound(q, r \in pool'),
         req' = [req EXCEPT ![r] = q],
         pool \ {r} \subseteq pool', pool' \subseteq Requests
  PROVE  /\ req' \in [Requests -> Request]
         /\ \A s \in Requests : req'[s].pc \in {"execute", "commit"} => s \in pool'
         /\ \A s \in Requests : req'[s].pc = "commit" => req'[s].order.kind = "signup"
BY DEF TypeOK, Sound, Request

LEMMA FaultCount == TypeOK /\ Fault => faults' \in 0..MaxFaults
BY SessionConstants DEF TypeOK, Fault

LEMMA TypeStep == TypeOK /\ [Next]_vars => TypeOK'
<1> SUFFICES ASSUME TypeOK, [Next]_vars PROVE TypeOK'
  OBVIOUS
<1>1. ASSUME NEW r \in Requests
      PROVE  /\ req[r] \in Request
             /\ Asks(r, "signup") => Order(r).account \in Account
             /\ At(r, "commit") => Order(r).account \in Account
  BY OrderFields DEF TypeOK, Request, Asks, Order, At
<1>2. ASSUME NEW r \in Requests, NEW q, Sound(q, r \in pool'),
             req' = [req EXCEPT ![r] = q],
             pool \ {r} \subseteq pool', pool' \subseteq Requests,
             open' \subseteq Requests, accounts' \subseteq Account, booked' \subseteq Seats,
             acked' \subseteq Account, confirmed' \subseteq Seats, faults' \in 0..MaxFaults
      PROVE  TypeOK'
  BY <1>2, OneRequestType DEF TypeOK, Request
<1>3. ASSUME NEW r \in Requests, NEW order \in Orders, Arrive(r, order) PROVE TypeOK'
  <2> DEFINE q == [pc |-> "connect", order |-> order, answer |-> "none",
                   owed |-> order.kind = "login" /\ order.account \in acked]
  <2>1. Sound(q, r \in pool')
    BY DEF Sound, Request, PCs, Answers
  <2> QED
    BY <1>2, <1>3, <2>1 DEF Arrive, TypeOK
<1>4. ASSUME NEW r \in Requests, Connect(r) PROVE TypeOK'
  <2>1. Sound([req[r] EXCEPT !.pc = "execute"], r \in pool')
    BY <1>1, <1>4 DEF Connect, Sound, Request, PCs
  <2> QED
    BY <1>2, <1>4, <2>1 DEF Connect, Goto, TypeOK
<1>5. ASSUME NEW r \in Requests, NEW a \in Answers, Answer(r, a),
             pool \ {r} \subseteq pool', pool' \subseteq Requests,
             open' \subseteq Requests, accounts' \subseteq Account, booked' \subseteq Seats,
             acked' \subseteq Account, confirmed' \subseteq Seats, faults' \in 0..MaxFaults
      PROVE  TypeOK'
  <2>1. Sound([req[r] EXCEPT !.pc = "close", !.answer = a], r \in pool')
    BY <1>1 DEF Sound, Request, PCs
  <2>2. req' = [req EXCEPT ![r] = [req[r] EXCEPT !.pc = "close", !.answer = a]]
    BY <1>5, <1>1 DEF Answer, TypeOK, Request
  <2> QED
    BY <1>2, <1>5, <2>1, <2>2
<1>6. ASSUME NEW r \in Requests, ConnectTimesOut(r) PROVE TypeOK'
  BY <1>5, <1>6 DEF ConnectTimesOut, TypeOK, Answers
<1>7. ASSUME NEW r \in Requests, Close(r) PROVE TypeOK'
  <2>1. Sound(Over, r \in pool')
    BY OverIsSound DEF Sound
  <2>2. confirmed' \subseteq Seats
    BY <1>7 DEF Close, TypeOK
  <2>3. /\ pool \ {r} \subseteq pool' /\ pool' \subseteq Requests /\ open' \subseteq Requests
        /\ accounts' \subseteq Account /\ booked' \subseteq Seats /\ acked' \subseteq Account
        /\ faults' \in 0..MaxFaults
    BY <1>7 DEF Close, EndTransaction, TypeOK
  <2>4. req' = [req EXCEPT ![r] = Over]
    BY <1>7 DEF Close
  <2> QED
    BY <1>2, <2>1, <2>2, <2>3, <2>4
<1>8. ASSUME NEW r \in Requests, InsertAccount(r) PROVE TypeOK'
  <2>1. CASE Goto(r, "commit") /\ open' = open \cup {r} /\ UNCHANGED pool
    <3>1. Sound([req[r] EXCEPT !.pc = "commit"], r \in pool')
      BY <1>1, <1>8, <2>1 DEF InsertAccount, At, Asks, Order, Sound, Request, PCs, TypeOK
    <3> QED
      BY <1>2, <1>8, <2>1, <3>1 DEF InsertAccount, Goto, TypeOK
  <2>2. CASE Answer(r, "500") /\ EndTransaction({r})
    BY <1>5, <1>8, <2>2 DEF InsertAccount, EndTransaction, TypeOK, Answers
  <2> QED
    BY <1>8, <2>1, <2>2 DEF InsertAccount
<1>9. ASSUME NEW r \in Requests, Commit(r) \/ CommitFails(r) PROVE TypeOK'
  BY <1>1, <1>5, <1>9, FaultCount DEF Commit, CommitFails, EndTransaction, TypeOK, Answers
<1>10. ASSUME NEW r \in Requests, FindAccount(r) PROVE TypeOK'
  <2>1. \E a \in Answers : Answer(r, a)
    BY <1>10 DEF FindAccount, Answers
  <2> QED
    BY <1>5, <1>10, <2>1 DEF FindAccount, TypeOK
<1>11. ASSUME NEW r \in Requests, BookSeat(r) \/ ReadConcerts(r) PROVE TypeOK'
  BY <1>5, <1>11 DEF BookSeat, ReadConcerts, TypeOK, Answers
<1>12. ASSUME NEW r \in Requests, StatementFails(r) PROVE TypeOK'
  BY <1>5, <1>12, FaultCount DEF StatementFails, EndTransaction, TypeOK, Answers
<1>13. CASE Crash
  BY <1>13, OverIsSound, FaultCount DEF Crash, EndTransaction, TypeOK, Sound, Over, Request
<1>14. CASE UNCHANGED vars
  BY <1>14 DEF vars, TypeOK
<1> QED
  BY <1>3, <1>4, <1>6, <1>7, <1>8, <1>9, <1>10, <1>11, <1>12, <1>13, <1>14
  DEF Next, Step, Execute

(* The types hold for any set of requests, accounts and seats. *)
THEOREM SessionTypeCorrect == Spec => []TypeOK
<1>1. TypeOK /\ [Next]_vars => TypeOK'
  BY TypeStep
<1> QED
  BY TypeInit, <1>1, PTL DEF Spec

-----------------------------------------------------------------------------
(* Connections and locks *)

Discipline == ConnectionsReturned /\ WritersNeverWait

\* A step keeps the discipline if it takes no connection and moves one request on,
\* or ends it and takes its connection and its transaction away.
LEMMA DisciplineKept ==
  ASSUME TypeOK, Discipline, NEW r \in Requests, NEW q,
         req' = [req EXCEPT ![r] = q],
         pool' \subseteq pool,
         r \in pool' => q.pc # "idle",
         \A s \in open' : /\ s \in pool'
                          /\ IF s = r THEN q.pc \in {"commit", "close"} ELSE s \in open
  PROVE  Discipline'
<1>1. pool \subseteq Requests /\ IsFiniteSet(pool) /\ Cardinality(pool) \in Nat
  BY FS_Subset, FS_CardinalityType, SessionConstants DEF TypeOK
<1>2. Cardinality(pool') <= Cardinality(pool) /\ Cardinality(pool') \in Nat
  BY <1>1, FS_Subset, FS_CardinalityType
<1>3. Cardinality(pool') <= PoolLimit
  BY <1>1, <1>2, SessionConstants DEF Discipline, ConnectionsReturned
<1>4. \A s \in pool' : req'[s].pc # "idle"
  BY <1>1 DEF Discipline, ConnectionsReturned, TypeOK, At
<1>5. \A s \in open' : s \in pool' /\ req'[s].pc \in {"commit", "close"}
  BY <1>1 DEF Discipline, WritersNeverWait, TypeOK
<1> QED
  BY <1>3, <1>4, <1>5 DEF Discipline, ConnectionsReturned, WritersNeverWait, At

LEMMA DisciplineStep == TypeOK /\ Discipline /\ [Next]_vars => Discipline'
<1> SUFFICES ASSUME TypeOK, Discipline, [Next]_vars PROVE Discipline'
  OBVIOUS
<1>1. ASSUME NEW r \in Requests PROVE req[r] \in Request
  BY DEF TypeOK, Request
<1>2. \A s \in open : s \in pool /\ req[s].pc \in {"commit", "close"}
  BY DEF Discipline, WritersNeverWait
<1>3. ASSUME NEW r \in Requests, NEW a, Answer(r, a), pool' \subseteq pool,
             \A s \in open' : s \in pool' /\ (s = r \/ s \in open)
      PROVE  Discipline'
  <2>1. req' = [req EXCEPT ![r] = [req[r] EXCEPT !.pc = "close", !.answer = a]]
    BY <1>1, <1>3 DEF Answer, Request
  <2>2. [req[r] EXCEPT !.pc = "close", !.answer = a].pc = "close"
    BY <1>1 DEF Request
  <2> QED
    BY <1>3, <2>1, <2>2, DisciplineKept
<1>4. ASSUME NEW r \in Requests, NEW pc \in PCs \ {"idle"}, Goto(r, pc), pool' \subseteq pool,
             \A s \in open' : s \in pool' /\ (IF s = r THEN pc = "commit" ELSE s \in open)
      PROVE  Discipline'
  <2>1. req' = [req EXCEPT ![r] = [req[r] EXCEPT !.pc = pc]]
    BY <1>1, <1>4 DEF Goto, Request
  <2>2. [req[r] EXCEPT !.pc = pc].pc = pc
    BY <1>1 DEF Request
  <2> QED
    BY <1>4, <2>1, <2>2, DisciplineKept
<1>5. ASSUME NEW r \in Requests, NEW order \in Orders, Arrive(r, order) PROVE Discipline'
  <2> DEFINE q == [pc |-> "connect", order |-> order, answer |-> "none",
                   owed |-> order.kind = "login" /\ order.account \in acked]
  <2>1. r \notin open
    BY <1>2, <1>5 DEF Arrive, At
  <2>2. req' = [req EXCEPT ![r] = q] /\ q.pc = "connect" /\ pool' = pool /\ open' = open
    BY <1>5 DEF Arrive
  <2> HIDE DEF q
  <2> QED
    BY <1>2, <2>1, <2>2, DisciplineKept
<1>6. ASSUME NEW r \in Requests, Connect(r) PROVE Discipline'
  <2>1. pool \subseteq Requests /\ IsFiniteSet(pool) /\ Cardinality(pool) \in Nat
    BY FS_Subset, FS_CardinalityType, SessionConstants DEF TypeOK
  <2>2. Cardinality(pool \cup {r}) = IF r \in pool THEN Cardinality(pool)
                                                   ELSE Cardinality(pool) + 1
    BY <2>1, FS_AddElement
  <2>3. Cardinality(pool') \in Nat /\ Cardinality(pool') <= Cardinality(pool) + 1
    BY <1>6, <2>1, <2>2 DEF Connect
  <2>4. Cardinality(pool') <= PoolLimit
    BY <1>6, <2>1, <2>3, SessionConstants DEF Connect
  <2>5. r \notin open
    BY <1>2, <1>6 DEF Connect, At
  <2>6. \A s \in Requests : req'[s].pc = IF s = r THEN "execute" ELSE req[s].pc
    BY <1>1, <1>6 DEF Connect, Goto, TypeOK, Request
  <2>7. \A s \in pool' : req'[s].pc # "idle"
    BY <1>6, <2>1, <2>6 DEF Connect, Discipline, ConnectionsReturned, At
  <2>8. \A s \in open' : s \in pool' /\ req'[s].pc \in {"commit", "close"}
    BY <1>2, <1>6, <2>1, <2>5, <2>6 DEF Connect
  <2> QED
    BY <2>4, <2>7, <2>8 DEF Discipline, ConnectionsReturned, WritersNeverWait, At
<1>7. ASSUME NEW r \in Requests,
             \/ ConnectTimesOut(r) \/ FindAccount(r) \/ BookSeat(r) \/ ReadConcerts(r)
             \/ Commit(r) \/ CommitFails(r) \/ StatementFails(r)
      PROVE  Discipline'
  <2>1. \E a \in Answers : Answer(r, a)
    BY <1>7 DEF ConnectTimesOut, FindAccount, BookSeat, ReadConcerts, Commit, CommitFails,
                StatementFails, Answers
  <2>2. pool' \subseteq pool
    BY <1>7 DEF ConnectTimesOut, FindAccount, BookSeat, ReadConcerts, Commit, CommitFails,
                StatementFails, EndTransaction
  <2>3. CASE BookSeat(r)
    <3>1. r \in pool /\ pool' = pool /\ open' = open \cup {r}
      BY <2>3 DEF BookSeat, At, TypeOK
    <3> QED
      BY <1>2, <1>3, <2>1, <3>1
  <2>4. CASE ~ BookSeat(r)
    <3>1. \/ pool' = pool /\ open' = open
          \/ \E S : S \subseteq {r} /\ EndTransaction(S)
      BY <1>7, <2>4 DEF ConnectTimesOut, FindAccount, ReadConcerts, Commit, CommitFails,
                         StatementFails
    <3>2. \A s \in open' : s \in pool' /\ s \in open
      BY <1>2, <3>1 DEF EndTransaction
    <3> QED
      BY <1>3, <2>1, <2>2, <3>2
  <2> QED
    BY <2>3, <2>4
<1>8. ASSUME NEW r \in Requests, InsertAccount(r) PROVE Discipline'
  <2>1. r \in pool
    BY <1>8 DEF InsertAccount, At, TypeOK
  <2>2. CASE Goto(r, "commit") /\ open' = open \cup {r} /\ UNCHANGED pool
    BY <1>2, <1>4, <2>1, <2>2 DEF PCs
  <2>3. CASE Answer(r, "500") /\ EndTransaction({r})
    BY <1>2, <1>3, <2>3 DEF EndTransaction
  <2> QED
    BY <1>8, <2>2, <2>3 DEF InsertAccount
<1>9. ASSUME NEW r \in Requests, Close(r) PROVE Discipline'
  BY <1>2, <1>9, DisciplineKept DEF Close, EndTransaction
<1>10. CASE Crash
  <2>1. pool' = {} /\ open' = {}
    BY <1>10 DEF Crash, EndTransaction, TypeOK
  <2> QED
    BY <2>1, FS_EmptySet, SessionConstants DEF Discipline, ConnectionsReturned, WritersNeverWait
<1>11. CASE UNCHANGED vars
  BY <1>11 DEF vars, Discipline, ConnectionsReturned, WritersNeverWait, At
<1> QED
  BY <1>5, <1>6, <1>7, <1>8, <1>9, <1>10, <1>11 DEF Next, Step, Execute

(* The pool is never overdrawn and gets every connection back, and whoever holds a
   lock waits for nothing: no number of requests can block one another for ever. *)
THEOREM ConnectionDiscipline == Spec => [](ConnectionsReturned /\ WritersNeverWait)
<1>1. Init => Discipline
  BY FS_EmptySet, SessionConstants
  DEF Init, Discipline, ConnectionsReturned, WritersNeverWait
<1>2. TypeOK /\ Discipline /\ [Next]_vars => (TypeOK /\ Discipline)'
  BY TypeStep, DisciplineStep
<1>3. Discipline => ConnectionsReturned /\ WritersNeverWait
  BY DEF Discipline
<1> QED
  BY TypeInit, <1>1, <1>2, <1>3, PTL DEF Spec

-----------------------------------------------------------------------------
(* Accounts *)

\* With a unique index, the e-mails that are stored or about to be are distinct.
EmailsUnique ==
  /\ \A a, b \in accounts : a.email = b.email => a = b
  /\ \A r \in Requests : At(r, "commit") =>
       \A a \in accounts : a.email # Order(r).account.email
  /\ \A r, s \in Requests : At(r, "commit") /\ At(s, "commit") =>
       r = s \/ Order(r).account.email # Order(s).account.email

AccountsKept ==
  /\ AcknowledgedIsStored
  /\ \A r \in Requests : At(r, "commit") => r \in open
  /\ \A r \in Requests : req[r].owed => Asks(r, "login") /\ Order(r).account \in acked
  /\ UniqueEmails => EmailsUnique
  /\ SignedUpCanLogIn

LEMMA AccountsInit == Init => AccountsKept
BY DEF Init, Over, AccountsKept, AcknowledgedIsStored, EmailsUnique, SignedUpCanLogIn, At

\* A step that stores and acknowledges nothing, and leaves request r with order,
\* owed and answer as before or answered by something else than a 401.
LEMMA AccountsUntouched ==
  ASSUME TypeOK, AccountsKept, NEW r \in Requests, NEW q,
         req' = [req EXCEPT ![r] = q],
         q.pc # "commit",
         q.owed => /\ q.order.kind = "login" /\ q.order.account \in acked
                   /\ UniqueEmails => q.answer # "401",
         accounts' = accounts, acked' = acked, open \ {r} \subseteq open'
  PROVE  AccountsKept'
<1>1. \A s \in Requests : req'[s] = IF s = r THEN q ELSE req[s]
  BY DEF TypeOK
<1>2. \A s \in Requests : At(s, "commit")' => s # r /\ At(s, "commit") /\ req'[s] = req[s]
  BY <1>1 DEF At
<1>3. EmailsUnique => EmailsUnique'
  BY <1>2 DEF EmailsUnique, Order
<1>4. \A s \in Requests : At(s, "commit")' => s \in open'
  BY <1>2 DEF AccountsKept
<1>5. \A s \in Requests : req'[s].owed => Asks(s, "login")' /\ Order(s)'.account \in acked'
  BY <1>1 DEF AccountsKept, Asks, Order
<1>6. SignedUpCanLogIn'
  BY <1>1 DEF AccountsKept, SignedUpCanLogIn
<1> QED
  BY <1>3, <1>4, <1>5, <1>6 DEF AccountsKept, AcknowledgedIsStored

\* The account of r becomes a row, or not, and r is answered.
LEMMA AccountsCommitted ==
  ASSUME TypeOK, AccountsKept, NEW r \in Requests, At(r, "commit"),
         NEW a \in {"201", "500"}, Answer(r, a),
         accounts' \in {accounts, accounts \cup {Order(r).account}},
         acked' \subseteq accounts', acked \subseteq acked',
         open' = open \ {r}
  PROVE  AccountsKept'
<1>1. \A s \in Requests : /\ req'[s].order = req[s].order /\ req'[s].owed = req[s].owed
                          /\ s # r => req'[s] = req[s]
                          /\ req'[r].pc = "close" /\ req'[r].answer = a
  BY DEF TypeOK, Answer, Request
<1>2. \A s \in Requests : At(s, "commit")' => s # r /\ At(s, "commit")
  BY <1>1 DEF At
<1>3. EmailsUnique => EmailsUnique'
  BY <1>1, <1>2 DEF EmailsUnique, Order
<1>4. \A s \in Requests : At(s, "commit")' => s \in open'
  BY <1>2 DEF AccountsKept
<1>5. \A s \in Requests : req'[s].owed => Asks(s, "login")' /\ Order(s)'.account \in acked'
  BY <1>1 DEF AccountsKept, Asks, Order
<1>6. SignedUpCanLogIn'
  BY <1>1 DEF AccountsKept, SignedUpCanLogIn
<1> QED
  BY <1>3, <1>4, <1>5, <1>6 DEF AccountsKept, AcknowledgedIsStored

LEMMA AccountsStep == TypeOK /\ AccountsKept /\ [Next]_vars => AccountsKept'
<1> SUFFICES ASSUME TypeOK, AccountsKept, [Next]_vars PROVE AccountsKept'
  OBVIOUS
<1>1. ASSUME NEW r \in Requests PROVE req[r] \in Request
  BY DEF TypeOK, Request
<1>2. ASSUME NEW r \in Requests, NEW a \in Answers \ {"401"}, Answer(r, a),
             accounts' = accounts, acked' = acked, open \ {r} \subseteq open'
      PROVE  AccountsKept'
  <2> DEFINE q == [req[r] EXCEPT !.pc = "close", !.answer = a]
  <2>1. req' = [req EXCEPT ![r] = q]
    BY <1>1, <1>2 DEF Answer, Request
  <2>2. /\ q.pc = "close" /\ q.order = req[r].order /\ q.owed = req[r].owed
        /\ q.answer # "401"
    BY <1>1, <1>2 DEF Request, Answers
  <2>3. q.owed => q.order.kind = "login" /\ q.order.account \in acked
    BY <2>2 DEF AccountsKept, Asks, Order
  <2> HIDE DEF q
  <2> QED
    BY <1>2, <2>1, <2>2, <2>3, AccountsUntouched
<1>3. ASSUME NEW r \in Requests, NEW order \in Orders, Arrive(r, order) PROVE AccountsKept'
  <2> DEFINE q == [pc |-> "connect", order |-> order, answer |-> "none",
                   owed |-> order.kind = "login" /\ order.account \in acked]
  <2>1. /\ q.pc = "connect" /\ q.order = order /\ q.answer = "none"
        /\ q.owed => q.order.kind = "login" /\ q.order.account \in acked
    OBVIOUS
  <2>2. /\ req' = [req EXCEPT ![r] = q]
        /\ accounts' = accounts /\ acked' = acked /\ open' = open
    BY <1>3 DEF Arrive
  <2> HIDE DEF q
  <2> QED
    BY <2>1, <2>2, AccountsUntouched
<1>4. ASSUME NEW r \in Requests, Connect(r) PROVE AccountsKept'
  <2> DEFINE q == [req[r] EXCEPT !.pc = "execute"]
  <2>1. req' = [req EXCEPT ![r] = q] /\ accounts' = accounts /\ acked' = acked /\ open' = open
    BY <1>1, <1>4 DEF Connect, Goto, Request
  <2>2. /\ q.pc = "execute" /\ q.order = req[r].order /\ q.owed = req[r].owed
        /\ q.answer = req[r].answer
    BY <1>1 DEF Request
  <2>3. q.owed => /\ q.order.kind = "login" /\ q.order.account \in acked
                  /\ UniqueEmails => q.answer # "401"
    BY <2>2 DEF AccountsKept, SignedUpCanLogIn, Asks, Order
  <2> HIDE DEF q
  <2> QED
    BY <2>1, <2>2, <2>3, AccountsUntouched
<1>5. ASSUME NEW r \in Requests,
             ConnectTimesOut(r) \/ BookSeat(r) \/ ReadConcerts(r) \/ StatementFails(r)
      PROVE  AccountsKept'
  BY <1>2, <1>5
  DEF ConnectTimesOut, BookSeat, ReadConcerts, StatementFails, EndTransaction, Answers
<1>6. ASSUME NEW r \in Requests, InsertAccount(r) PROVE AccountsKept'
  <2>1. CASE Goto(r, "commit") /\ open' = open \cup {r}
    <3>1. \A s \in Requests : /\ req'[s] = IF s = r THEN [req[r] EXCEPT !.pc = "commit"]
                                                  ELSE req[s]
                              /\ req'[s].order = req[s].order /\ req'[s].owed = req[s].owed
                              /\ req'[s].answer = req[s].answer
      BY <1>1, <2>1 DEF Goto, TypeOK, Request
    <3>2. \A s \in Requests : At(s, "commit") => s \in open /\ Asks(s, "signup")
      BY DEF AccountsKept, TypeOK, At, Asks, Order
    <3>3. \A s \in Requests : At(s, "commit")' => s = r \/ At(s, "commit")
      BY <3>1 DEF At
    <3>4. ASSUME UniqueEmails, EmailsUnique PROVE EmailsUnique'
      <4> DEFINE email == Order(r).account.email
      <4>1. accounts' = accounts /\ \A s \in Requests : Order(s)' = Order(s)
        BY <1>6, <3>1 DEF InsertAccount, Order
      <4>2. \A a \in accounts : a.email # email
        BY <1>6, <2>1, <3>4, <1>1 DEF InsertAccount, Goto, Answer, At, TypeOK, Request
      <4>3. \A s \in Requests : At(s, "commit") => Order(s).account.email # email
        BY <1>6, <3>2, <3>4 DEF InsertAccount
      <4> QED
        BY <3>3, <3>4, <4>1, <4>2, <4>3 DEF EmailsUnique
    <3>5. \A s \in Requests : At(s, "commit")' => s \in open'
      BY <2>1, <3>2, <3>3
    <3>6. \A s \in Requests : req'[s].owed => Asks(s, "login")' /\ Order(s)'.account \in acked'
      BY <1>6, <3>1 DEF AccountsKept, InsertAccount, Asks, Order
    <3>7. SignedUpCanLogIn'
      BY <3>1 DEF AccountsKept, SignedUpCanLogIn
    <3> QED
      BY <1>6, <3>4, <3>5, <3>6, <3>7 DEF AccountsKept, AcknowledgedIsStored, InsertAccount
  <2>2. CASE Answer(r, "500") /\ EndTransaction({r})
    BY <1>2, <1>6, <2>2 DEF InsertAccount, EndTransaction, Answers
  <2> QED
    BY <1>6, <2>1, <2>2 DEF InsertAccount
<1>7. ASSUME NEW r \in Requests, Commit(r) PROVE AccountsKept'
  BY <1>7, AccountsCommitted DEF Commit, EndTransaction, AccountsKept, AcknowledgedIsStored
<1>8. ASSUME NEW r \in Requests, CommitFails(r) PROVE AccountsKept'
  BY <1>8, AccountsCommitted DEF CommitFails, EndTransaction, AccountsKept, AcknowledgedIsStored
<1>9. ASSUME NEW r \in Requests, FindAccount(r) PROVE AccountsKept'
  <2> DEFINE wanted == Order(r).account
             q(a) == [req[r] EXCEPT !.pc = "close", !.answer = a]
  <2>1. accounts' = accounts /\ acked' = acked /\ open' = open
    BY <1>9 DEF FindAccount
  <2>2. ASSUME UniqueEmails, req[r].owed PROVE Answer(r, "200")
    <3>1. wanted \in accounts
      BY <2>2 DEF AccountsKept, AcknowledgedIsStored
    <3>2. \A a \in accounts : a.email = wanted.email => a = wanted
      BY <2>2, <3>1 DEF AccountsKept, EmailsUnique
    <3> QED
      BY <1>9, <3>1, <3>2 DEF FindAccount
  <2>3. PICK a \in {"200", "401"} :
          Answer(r, a) /\ (UniqueEmails /\ req[r].owed => a = "200")
    BY <1>9, <2>2 DEF FindAccount
  <2>4. req' = [req EXCEPT ![r] = q(a)]
    BY <1>1, <2>3 DEF Answer, Request
  <2>5. /\ q(a).pc = "close" /\ q(a).order = req[r].order /\ q(a).owed = req[r].owed
        /\ q(a).answer = a
    BY <1>1 DEF Request
  <2>6. q(a).owed => /\ q(a).order.kind = "login" /\ q(a).order.account \in acked
                     /\ UniqueEmails => q(a).answer # "401"
    BY <2>3, <2>5 DEF AccountsKept, Asks, Order
  <2> HIDE DEF q
  <2> QED
    BY <2>1, <2>4, <2>5, <2>6, AccountsUntouched
<1>10. ASSUME NEW r \in Requests, Close(r) PROVE AccountsKept'
  <2>1. Over.pc # "commit" /\ ~ Over.owed
    BY DEF Over
  <2>2. req' = [req EXCEPT ![r] = Over] /\ accounts' = accounts /\ acked' = acked
    BY <1>10 DEF Close
  <2>3. open \ {r} \subseteq open'
    BY <1>10 DEF Close, EndTransaction
  <2> QED
    BY <2>1, <2>2, <2>3, AccountsUntouched
<1>11. CASE Crash
  BY <1>11 DEF Crash, Over, AccountsKept, AcknowledgedIsStored, EmailsUnique,
               SignedUpCanLogIn, At
<1>12. CASE UNCHANGED vars
  BY <1>12 DEF vars, AccountsKept, AcknowledgedIsStored, EmailsUnique, SignedUpCanLogIn,
               At, Asks, Order
<1> QED
  BY <1>3, <1>4, <1>5, <1>6, <1>7, <1>8, <1>9, <1>10, <1>11, <1>12 DEF Next, Step, Execute

(* An acknowledged sign-up is stored for good and, with unique e-mails, can be logged
   in to: the unique index covers the rows about to be committed, too. *)
THEOREM SignUpsHold == Spec => [](AcknowledgedIsStored /\ SignedUpCanLogIn)
<1>1. TypeOK /\ AccountsKept /\ [Next]_vars => (TypeOK /\ AccountsKept)'
  BY TypeStep, AccountsStep
<1>2. AccountsKept => AcknowledgedIsStored /\ SignedUpCanLogIn
  BY DEF AccountsKept
<1> QED
  BY TypeInit, AccountsInit, <1>1, <1>2, PTL DEF Spec

(* What was acknowledged is committed (utils/database.py:87-94). *)
THEOREM AcknowledgedStays == Spec => []AcknowledgedIsStored
BY SignUpsHold, PTL

(* Every connection comes back to the pool (utils/database.py:58-63). *)
THEOREM ConnectionsComeBack == Spec => []ConnectionsReturned
BY ConnectionDiscipline, PTL

-----------------------------------------------------------------------------
(* The book of accounts *)

\* A request has its answer when its session is being closed, and not before.
AnsweredLast ==
  \A r \in Requests :
    /\ At(r, "idle") => req[r] = Over
    /\ req[r].pc \in {"connect", "execute", "commit"} => req[r].answer = "none"
    /\ At(r, "close") => req[r].answer # "none"

LEMMA AnsweredLastStep == TypeOK /\ AnsweredLast /\ [Next]_vars => AnsweredLast'
<1> SUFFICES ASSUME TypeOK, AnsweredLast, [Next]_vars PROVE AnsweredLast'
  OBVIOUS
<1>1. req \in [Requests -> Request]
  BY DEF TypeOK, Request
<1>2. ASSUME NEW r \in Requests, NEW q, req' = [req EXCEPT ![r] = q],
             \/ q = Over
             \/ q.pc = "close" /\ q.answer # "none"
             \/ q.pc \in {"connect", "execute", "commit"} /\ q.answer = "none"
      PROVE  AnsweredLast'
  <2>1. Over.pc = "idle"
    BY DEF Over
  <2> QED
    BY <1>1, <1>2, <2>1 DEF AnsweredLast, At
<1>3. ASSUME NEW r \in Requests, NEW a \in Answers \ {"none"}, Answer(r, a) PROVE AnsweredLast'
  <2> DEFINE q == [req[r] EXCEPT !.pc = "close", !.answer = a]
  <2>1. req' = [req EXCEPT ![r] = q] /\ q.pc = "close" /\ q.answer = a
    BY <1>1, <1>3 DEF Answer, Request
  <2> HIDE DEF q
  <2> QED
    BY <1>2, <1>3, <2>1
<1>4. ASSUME NEW r \in Requests, NEW order \in Orders, Arrive(r, order) PROVE AnsweredLast'
  BY <1>2, <1>4 DEF Arrive
<1>5. ASSUME NEW r \in Requests, Connect(r) \/ (InsertAccount(r) /\ Goto(r, "commit"))
      PROVE  AnsweredLast'
  <2>1. PICK pc \in {"execute", "commit"} : req' = [req EXCEPT ![r] = [req[r] EXCEPT !.pc = pc]]
    <3>1. PICK pc \in {"execute", "commit"} : Goto(r, pc)
      BY <1>5 DEF Connect
    <3>2. req' = [req EXCEPT ![r] = [req[r] EXCEPT !.pc = pc]]
      BY <1>1, <3>1 DEF Goto, Request
    <3> QED
      BY <3>2
  <2> DEFINE q == [req[r] EXCEPT !.pc = pc]
  <2>2. req[r].answer = "none" /\ req[r] \in Request
    BY <1>1, <1>5 DEF Connect, InsertAccount, AnsweredLast, At
  <2>3. q.pc = pc /\ q.answer = "none"
    BY <2>2 DEF Request
  <2> HIDE DEF q
  <2> QED
    BY <1>2, <2>1, <2>3 DEF q
<1>6. ASSUME NEW r \in Requests, Close(r) PROVE AnsweredLast'
  BY <1>2, <1>6 DEF Close
<1>7. ASSUME NEW r \in Requests,
             \/ ConnectTimesOut(r) \/ InsertAccount(r) \/ FindAccount(r) \/ BookSeat(r)
             \/ ReadConcerts(r) \/ Commit(r) \/ CommitFails(r) \/ StatementFails(r)
      PROVE  AnsweredLast'
  <2>1. \/ InsertAccount(r) /\ Goto(r, "commit")
        \/ \E a \in Answers \ {"none"} : Answer(r, a)
    BY <1>7 DEF ConnectTimesOut, InsertAccount, FindAccount, BookSeat, ReadConcerts, Commit,
       CommitFails, StatementFails, Answers
  <2> QED
    BY <1>3, <1>5, <2>1
<1>8. CASE Crash
  BY <1>8 DEF Crash, AnsweredLast, Over, At
<1>9. CASE UNCHANGED vars
  BY <1>9 DEF vars, AnsweredLast, At
<1> QED
  BY <1>4, <1>5, <1>6, <1>7, <1>8, <1>9 DEF Next, Step, Execute

\* The requests the book knows of.
Books(r) == Asks(r, "signup") \/ Asks(r, "login")

LEMMA CalledIs ==
  ASSUME NEW r \in Requests, Books(r)
  PROVE  Called[r] = Book!Asked(Order(r).kind, Order(r).account, req[r].answer)
BY DEF Books, Asks, Called, Order, Book!Asked

LEMMA CalledIsFunction == Called = [s \in Requests |-> Called[s]] /\ Called' = [s \in Requests |-> Called'[s]]
BY DEF Called

(* A step of one request is a step of its call. *)
LEMMA OwnCall ==
  ASSUME TypeOK, NEW r \in Requests, NEW q, req' = [req EXCEPT ![r] = q]
  PROVE  Book!Put(r, Called'[r])
<1>1. \A s \in Requests : s # r => Called'[s] = Called[s]
  BY DEF TypeOK, Called, Order
<1>2. Called' = [Called EXCEPT ![r] = Called'[r]]
  BY <1>1, CalledIsFunction
<1> QED
  BY <1>2 DEF Book!Put

LEMMA Unnoticed ==
  ASSUME TypeOK, NEW r \in Requests, NEW q, req' = [req EXCEPT ![r] = q],
         accounts' = accounts, Called'[r] = Called[r]
  PROVE  UNCHANGED Book!vars
<1>1. \A s \in Requests : Called'[s] = Called[s]
  BY DEF TypeOK, Called, Order
<1> QED
  BY <1>1, CalledIsFunction DEF Book!vars

(* The answers that change nothing in the book, or that the book allows. *)
LEMMA AnswerIsCall ==
  ASSUME TypeOK, AnsweredLast, NEW r \in Requests, NEW a \in Answers, Answer(r, a),
         req[r].pc \in {"connect", "execute", "commit"},
         Asks(r, "signup") => LET o == Order(r).account IN
           \/ a = "201" /\ Book!Register(o)
           \/ a = "500" /\ (Book!Register(o) \/ UNCHANGED accounts),
         Asks(r, "login") => LET o == Order(r).account IN
           /\ UNCHANGED accounts
           /\ \/ a = "200" /\ o \in accounts
              \/ a = "401" /\ {b \in accounts : b.email = o.email} # {o}
              \/ a = "500",
         ~ Books(r) => UNCHANGED accounts
  PROVE  [Book!Next]_(Book!vars)
<1> DEFINE q == [req[r] EXCEPT !.pc = "close", !.answer = a]
           o == Order(r).account
<1>1. req[r] \in Request /\ req[r].answer = "none"
  BY DEF TypeOK, Request, AnsweredLast
<1>2. req' = [req EXCEPT ![r] = q] /\ req'[r] = q /\ q.order = req[r].order /\ q.answer = a
  BY <1>1 DEF Answer, Request, TypeOK
<1> HIDE DEF q
<1>3. Book!Put(r, Called'[r])
  BY <1>2, OwnCall
<1>4. Order(r)' = Order(r) /\ (Books(r) => Books(r)')
  BY <1>2 DEF Order, Books, Asks
<1>5. Books(r) => /\ Called[r] = Book!Asked(Order(r).kind, o, "none")
                  /\ Called'[r] = Book!Asked(Order(r).kind, o, a)
                  /\ o \in Account /\ Account = Book!Account
  <2> SUFFICES ASSUME Books(r)
               PROVE  /\ Called[r] = Book!Asked(Order(r).kind, o, "none")
                      /\ Called'[r] = Book!Asked(Order(r).kind, o, a)
                      /\ o \in Account /\ Account = Book!Account
    OBVIOUS
  <2>1. Order(r) \in Orders /\ Order(r).kind \in {"signup", "login"}
    BY <1>1 DEF Books, Asks, Order, Request
  <2>2. o \in Account /\ Account = Book!Account
    BY <2>1, OrderFields DEF Account, Book!Account
  <2>3. Called'[r] = [kind |-> Order(r)'.kind, account |-> Order(r)'.account,
                      answer |-> req'[r].answer]
    BY <1>4, <2>1 DEF Called, Order
  <2> QED
    BY <1>1, <1>2, <1>4, <2>1, <2>2, <2>3, CalledIs DEF Book!Asked
<1>6. CASE Asks(r, "signup")
  <2>1. Book!SignUp(r, o)
    BY <1>3, <1>5, <1>6 DEF Book!SignUp, Books, Asks
  <2> QED
    BY <1>5, <1>6, <2>1 DEF Book!Next, Books
<1>7. CASE Asks(r, "login")
  <2>1. Book!LogIn(r, o)
    BY <1>3, <1>5, <1>7 DEF Book!LogIn, Books, Asks
  <2> QED
    BY <1>5, <1>7, <2>1 DEF Book!Next, Books
<1>8. CASE ~ Books(r)
  <2>1. Called'[r] = Called[r]
    BY <1>2, <1>8 DEF Called, Order, Books, Asks
  <2> QED
    BY <1>2, <1>8, <2>1, Unnoticed
<1> QED
  BY <1>6, <1>7, <1>8 DEF Books

LEMMA BookStep ==
  ASSUME TypeOK, AccountsKept, AnsweredLast, [Next]_vars
  PROVE  [Book!Next]_(Book!vars)
<1>1. ASSUME NEW r \in Requests
      PROVE  /\ req[r] \in Request
             /\ Asks(r, "signup") => ~ Asks(r, "login")
             /\ Books(r) => Order(r).account \in Account
  BY OrderFields DEF TypeOK, Request, Asks, Order, Books
<1>2. ASSUME NEW r \in Requests, NEW order \in Orders, Arrive(r, order)
      PROVE  [Book!Next]_(Book!vars)
  <2> DEFINE q == [pc |-> "connect", order |-> order, answer |-> "none",
                   owed |-> order.kind = "login" /\ order.account \in acked]
  <2>1. /\ req' = [req EXCEPT ![r] = q] /\ req'[r] = q /\ q.order = order /\ q.answer = "none"
        /\ accounts' = accounts
    BY <1>2 DEF Arrive, TypeOK
  <2> HIDE DEF q
  <2>2. req[r] = Over
    BY <1>2 DEF Arrive, AnsweredLast
  <2>3. Called[r] = Book!Nothing
    BY <2>2 DEF Called, Order, Over, Book!Nothing
  <2>4. CASE order.kind \in {"signup", "login"}
    <3>1. Called'[r] = Book!Asked(order.kind, order.account, "none")
      BY <2>1, <2>4 DEF Called, Order, Book!Asked
    <3>2. Book!Ask(r, order.kind, order.account)
      BY <2>1, <2>3, <3>1, OwnCall DEF Book!Ask
    <3>3. order.account \in Book!Account
      BY <2>4, OrderFields DEF Account, Book!Account
    <3> QED
      BY <2>4, <3>2, <3>3 DEF Book!Next
  <2>5. CASE order.kind \notin {"signup", "login"}
    <3>1. Called'[r] = Called[r]
      BY <2>1, <2>3, <2>5 DEF Called, Order, Book!Nothing
    <3> QED
      BY <2>1, <3>1, Unnoticed
  <2> QED
    BY <2>4, <2>5
<1>3. ASSUME NEW r \in Requests, NEW pc, Goto(r, pc), accounts' = accounts
      PROVE  [Book!Next]_(Book!vars)
  <2>1. req' = [req EXCEPT ![r] = [req[r] EXCEPT !.pc = pc]]
    BY <1>1, <1>3 DEF Goto, Request
  <2>2. req'[r].order = req[r].order /\ req'[r].answer = req[r].answer
    BY <1>1, <2>1 DEF TypeOK, Request
  <2>3. Called'[r] = Called[r]
    BY <2>2 DEF Called, Order
  <2> QED
    BY <1>3, <2>1, <2>3, Unnoticed
<1>4. ASSUME NEW r \in Requests, ConnectTimesOut(r) \/ StatementFails(r)
      PROVE  [Book!Next]_(Book!vars)
  BY <1>4, AnswerIsCall DEF ConnectTimesOut, StatementFails, Answers, At
<1>5. ASSUME NEW r \in Requests, InsertAccount(r) PROVE [Book!Next]_(Book!vars)
  <2>1. CASE Goto(r, "commit")
    BY <1>3, <1>5, <2>1 DEF InsertAccount
  <2>2. CASE Answer(r, "500")
    BY <1>1, <1>5, <2>2, AnswerIsCall DEF InsertAccount, Answers, At, Books
  <2> QED
    BY <1>5, <2>1, <2>2 DEF InsertAccount
<1>6. ASSUME NEW r \in Requests, At(r, "commit"), accounts' = accounts \cup {Order(r).account}
      PROVE  Book!Register(Order(r).account)
  BY <1>6 DEF AccountsKept, EmailsUnique, Book!Register
<1>7. ASSUME NEW r \in Requests, Commit(r) \/ CommitFails(r) PROVE [Book!Next]_(Book!vars)
  <2>1. At(r, "commit") /\ Asks(r, "signup") /\ ~ Asks(r, "login")
    BY <1>1, <1>7 DEF Commit, CommitFails, TypeOK, At, Asks, Order
  <2>2. CASE Commit(r)
    BY <1>6, <2>1, <2>2, AnswerIsCall DEF Commit, Answers, At, Books
  <2>3. CASE CommitFails(r)
    BY <1>6, <2>1, <2>3, AnswerIsCall DEF CommitFails, Answers, At, Books
  <2> QED
    BY <1>7, <2>2, <2>3
<1>8. ASSUME NEW r \in Requests, FindAccount(r) PROVE [Book!Next]_(Book!vars)
  <2> DEFINE o == Order(r).account
             rows == {b \in accounts : b.email = o.email}
  <2>1. PICK a \in {"200", "401"} : /\ Answer(r, a)
                                    /\ a = "200" => o \in accounts
                                    /\ a = "401" => rows # {o}
    <3>1. \/ rows = {} /\ Answer(r, "401")
          \/ \E row \in rows : Answer(r, IF row = o THEN "200" ELSE "401")
      BY <1>8 DEF FindAccount
    <3>2. ASSUME NEW row \in rows, row = o PROVE o \in accounts
      BY <3>2
    <3>3. ASSUME NEW row \in rows, row # o PROVE rows # {o}
      BY <3>3
    <3> HIDE DEF rows, o
    <3> QED
      BY <3>1, <3>2, <3>3
  <2>2. Asks(r, "login") /\ ~ Asks(r, "signup") /\ accounts' = accounts /\ At(r, "execute")
    BY <1>8 DEF FindAccount, Asks
  <2> QED
    BY <2>1, <2>2, AnswerIsCall DEF Answers, At, Books
<1>9. ASSUME NEW r \in Requests, BookSeat(r) \/ ReadConcerts(r) PROVE [Book!Next]_(Book!vars)
  <2>1. /\ ~ Asks(r, "signup") /\ ~ Asks(r, "login") /\ At(r, "execute")
        /\ accounts' = accounts /\ Answer(r, "200")
    BY <1>9 DEF BookSeat, ReadConcerts, Asks
  <2> QED
    BY <2>1, AnswerIsCall DEF Answers, At, Books
<1>10. ASSUME NEW r \in Requests, Close(r) PROVE [Book!Next]_(Book!vars)
  <2>1. req' = [req EXCEPT ![r] = Over] /\ req'[r] = Over /\ accounts' = accounts
    BY <1>10 DEF Close, TypeOK
  <2>2. Called'[r] = Book!Nothing
    BY <2>1 DEF Called, Order, Over, Book!Nothing
  <2>3. CASE Books(r)
    <3>1. Called[r].kind # "nothing" /\ Called[r].answer # "none"
      <4>1. Called[r].kind = Order(r).kind /\ Called[r].answer = req[r].answer
        BY <2>3 DEF Called, Order, Books, Asks
      <4>2. req[r].answer # "none"
        BY <1>10 DEF Close, AnsweredLast
      <4> QED
        BY <2>3, <4>1, <4>2 DEF Books, Asks
    <3>2. Called[r] # Book!Nothing
      BY <3>1 DEF Book!Nothing
    <3>3. Book!Finish(r)
      <4>1. Book!Put(r, Book!Nothing)
        BY <2>1, <2>2, OwnCall
      <4> QED
        BY <2>1, <3>1, <3>2, <4>1 DEF Book!Finish
    <3> QED
      BY <3>3 DEF Book!Next
  <2>4. CASE ~ Books(r)
    <3>1. Called[r] = Book!Nothing
      BY <2>4 DEF Called, Order, Books, Asks, Book!Nothing
    <3> QED
      BY <2>1, <2>2, <3>1, Unnoticed
  <2> QED
    BY <2>3, <2>4
<1>11. CASE Crash
  <2>1. accounts' = accounts /\ \A r \in Requests : req'[r] = Over
    BY <1>11 DEF Crash
  <2>2. \A r \in Requests : Called'[r] = Book!Nothing
    BY <2>1 DEF Called, Order, Over, Book!Nothing
  <2>3. Book!Crash
    BY <2>1, <2>2, CalledIsFunction DEF Book!Crash
  <2> QED
    BY <2>3 DEF Book!Next
<1>12. CASE UNCHANGED vars
  <2>1. accounts' = accounts /\ req' = req
    BY <1>12 DEF vars
  <2> QED
    BY <2>1 DEF Book!vars, Called, Order
<1> QED
  BY <1>2, <1>3, <1>4, <1>5, <1>7, <1>8, <1>9, <1>10, <1>11, <1>12
  DEF Next, Step, Execute, Connect

(* Sign-up and login are each one step on a book of accounts, for any number of requests
   and connections and whatever fails: the check for the e-mail, made with the
   INSERT, still holds at the COMMIT (user_engine.py:16, database.py:87-94). *)
THEOREM SessionsAreOneStep == Spec => ImplementsAccounts
<1>1. Init => AnsweredLast /\ Book!Init
  <2> SUFFICES ASSUME Init PROVE AnsweredLast /\ Book!Init
    OBVIOUS
  <2>1. \A r \in Requests : req[r] = Over /\ Called[r] = Book!Nothing
    BY DEF Init, Over, Called, Order, Book!Nothing
  <2> QED
    BY <2>1, CalledIsFunction DEF Init, Over, AnsweredLast, Book!Init, At
<1>2. TypeOK /\ AccountsKept /\ AnsweredLast /\ [Next]_vars => (TypeOK /\ AccountsKept /\ AnsweredLast)'
  BY TypeStep, AccountsStep, AnsweredLastStep
<1>3. TypeOK /\ AccountsKept /\ AnsweredLast /\ [Next]_vars => [Book!Next]_(Book!vars)
  BY BookStep
<1> QED
  BY <1>1, <1>2, <1>3, TypeInit, AccountsInit, PTL DEF Spec, ImplementsAccounts, Book!Spec
==============================================================================
