---------------------------- MODULE DatabaseSessions ----------------------------
(***************************************************************************)
(* The requests that use PostgreSQL: POST /auth/signup, POST /auth/login,   *)
(* POST /concerts-booking and the reads of GET /concerts, each with the     *)
(* session that utils/database.py gives it.                                 *)
(*                                                                         *)
(* A session takes a connection from the pool with its first statement and  *)
(* opens a transaction.  execute_post_async commits it; execute_query_async *)
(* does not, so what it wrote goes when DatabaseAsync.__call__ closes the   *)
(* session, after the handler has decided on its answer.  PostgreSQL is the *)
(* external part: committed rows, row locks held to the end of the          *)
(* transaction, READ COMMITTED.                                             *)
(***************************************************************************)
EXTENDS Naturals, FiniteSets

CONSTANTS
  Requests,      \* the requests that may be in progress at once
  Emails,
  Passwords,
  Seats,         \* the seats of the concert in concerts_seat
  NoSeat,        \* a seat_number that is not in concerts_seat
  PoolLimit,     \* pool_size + max_overflow
  UniqueEmails,  \* has users a unique index on user_email? (its DDL is not in src)
  MaxFaults      \* bound on the number of faults

ASSUME SessionConstants ==
  /\ IsFiniteSet(Requests)
  /\ NoSeat \notin Seats
  /\ PoolLimit \in Nat \ {0}
  /\ UniqueEmails \in BOOLEAN
  /\ MaxFaults \in Nat

VARIABLES
  req,       \* the requests: where each is, what it asks for, its answer
  pool,      \* the requests whose session has a connection
  open,      \* the requests whose transaction has written something
  accounts,  \* committed rows of users
  booked,    \* seats whose committed is_booked is TRUE
  acked,     \* history: sign-ups answered with 201
  confirmed, \* history: seats whose booking was answered with 200
  faults     \* number of faults so far

vars == <<req, pool, open, accounts, booked, acked, confirmed, faults>>

Account == [email : Emails, password : Passwords]

Orders ==
  [kind : {"signup", "login"}, account : Account]
    \cup [kind : {"book"}, seat : Seats \cup {NoSeat}]
    \cup [kind : {"read"}]

PCs == {"idle", "connect", "execute", "commit", "close"}
Answers == {"none", "200", "201", "401", "500"}

TypeOK ==
  /\ req \in [Requests -> [pc : PCs, order : Orders, owed : BOOLEAN, answer : Answers]]
  /\ \A r \in Requests : req[r].pc \in {"execute", "commit"} => r \in pool
  /\ \A r \in Requests : req[r].pc = "commit" => req[r].order.kind = "signup"
  /\ pool \subseteq Requests
  /\ open \subseteq Requests
  /\ accounts \subseteq Account
  /\ booked \subseteq Seats
  /\ acked \subseteq Account
  /\ confirmed \subseteq Seats
  /\ faults \in 0..MaxFaults

Over == [pc |-> "idle", order |-> [kind |-> "read"], owed |-> FALSE, answer |-> "none"]

Init ==
  /\ req = [r \in Requests |-> Over]
  /\ pool = {}
  /\ open = {}
  /\ accounts = {}
  /\ booked = {}
  /\ acked = {}
  /\ confirmed = {}
  /\ faults = 0

At(r, pc) == req[r].pc = pc
Order(r) == req[r].order
Asks(r, kind) == Order(r).kind = kind

\* The handler goes on, or has its answer and leaves the session to be closed.
Goto(r, pc) == req' = [req EXCEPT ![r].pc = pc]
Answer(r, a) == req' = [req EXCEPT ![r].pc = "close", ![r].answer = a]

\* The end of the transaction, by COMMIT or ROLLBACK, gives the connection back.
EndTransaction(S) ==
  /\ pool' = pool \ S
  /\ open' = open \ S

Fault ==
  /\ faults < MaxFaults
  /\ faults' = faults + 1

-----------------------------------------------------------------------------
(* The session *)

\* A request comes in; db_zump_async gives it a session, still unconnected.  A
\* login is owed if its account has been acknowledged before.
Arrive(r, order) ==
  /\ At(r, "idle")
  /\ req' = [req EXCEPT ![r] =
       [pc |-> "connect", order |-> order, answer |-> "none",
        owed |-> order.kind = "login" /\ order.account \in acked]]
  /\ UNCHANGED <<pool, open, accounts, booked, acked, confirmed, faults>>

\* db.execute takes a connection ..
Connect(r) ==
  /\ At(r, "connect")
  /\ Cardinality(pool) < PoolLimit
  /\ pool' = pool \cup {r}
  /\ Goto(r, "execute")
  /\ UNCHANGED <<open, accounts, booked, acked, confirmed, faults>>

\* Mutant: the time-out is not noticed.
ConnectTimesOutUnnoticed(r) ==
  /\ At(r, "connect")
  /\ Cardinality(pool) >= PoolLimit
  /\ Goto(r, "execute")
  /\ UNCHANGED <<pool, open, accounts, booked, acked, confirmed, faults>>

\* .. or has waited too long for one.
ConnectTimesOut(r) ==
  /\ At(r, "connect")
  /\ Cardinality(pool) >= PoolLimit
  /\ Answer(r, "500")
  /\ UNCHANGED <<pool, open, accounts, booked, acked, confirmed, faults>>

\* Mutant: the session is not closed, its connection stays out.
CloseForgotten(r) ==
  /\ At(r, "close")
  /\ req' = [req EXCEPT ![r] = Over]
  /\ confirmed' = confirmed \cup (IF Asks(r, "book") /\ req[r].answer = "200"
                                 THEN {Order(r).seat} \cap Seats ELSE {})
  /\ UNCHANGED <<pool, open, accounts, booked, acked, faults>>

\* session.close(), after which the answer is sent: an open transaction is rolled
\* back, the connection goes back to the pool.
Close(r) ==
  /\ At(r, "close")
  /\ EndTransaction({r})
  /\ req' = [req EXCEPT ![r] = Over]
  /\ confirmed' = confirmed \cup (IF Asks(r, "book") /\ req[r].answer = "200"
                                 THEN {Order(r).seat} \cap Seats ELSE {})
  /\ UNCHANGED <<accounts, booked, acked, faults>>

-----------------------------------------------------------------------------
(* POST /auth/signup: execute_post_async, which commits *)

\* Mutant: the INSERT relies on the committed rows alone.
InsertAccountUnlocked(r) ==
  /\ At(r, "execute") /\ Asks(r, "signup")
  /\ IF UniqueEmails /\ \E a \in accounts : a.email = Order(r).account.email
     THEN Answer(r, "500") /\ EndTransaction({r})
     ELSE Goto(r, "commit") /\ open' = open \cup {r} /\ UNCHANGED pool
  /\ UNCHANGED <<accounts, booked, acked, confirmed, faults>>

\* With a unique index, an uncommitted row of the same e-mail makes the INSERT wait.
InsertAccount(r) ==
  LET email == Order(r).account.email IN
  /\ At(r, "execute") /\ Asks(r, "signup")
  /\ UniqueEmails => \A s \in open : Asks(s, "signup") => Order(s).account.email # email
  /\ IF UniqueEmails /\ \E a \in accounts : a.email = email
     THEN Answer(r, "500") /\ EndTransaction({r})
     ELSE Goto(r, "commit") /\ open' = open \cup {r} /\ UNCHANGED pool
  /\ UNCHANGED <<accounts, booked, acked, confirmed, faults>>

\* Mutant: the session is closed without a commit.
CommitForgotten(r) ==
  /\ At(r, "commit")
  /\ acked' = acked \cup {Order(r).account}
  /\ EndTransaction({r})
  /\ Answer(r, "201")
  /\ UNCHANGED <<accounts, booked, confirmed, faults>>

\* The end of async with db.begin().
Commit(r) ==
  /\ At(r, "commit")
  /\ accounts' = accounts \cup {Order(r).account}
  /\ acked' = acked \cup {Order(r).account}
  /\ EndTransaction({r})
  /\ Answer(r, "201")
  /\ UNCHANGED <<booked, confirmed, faults>>

\* The COMMIT fails, or takes effect and its reply is lost.
CommitFails(r) ==
  /\ At(r, "commit")
  /\ Fault
  /\ accounts' \in {accounts, accounts \cup {Order(r).account}}
  /\ EndTransaction({r})
  /\ Answer(r, "500")
  /\ UNCHANGED <<booked, acked, confirmed>>

-----------------------------------------------------------------------------
(* The others: db.execute, and nobody commits *)

\* POST /auth/login: one row of that e-mail, whichever comes first, and a
\* comparison of the passwords.
FindAccount(r) ==
  LET wanted == Order(r).account
      rows == {a \in accounts : a.email = wanted.email}
  IN
  /\ At(r, "execute") /\ Asks(r, "login")
  /\ \/ rows = {} /\ Answer(r, "401")
     \/ \E row \in rows : Answer(r, IF row = wanted THEN "200" ELSE "401")
  /\ UNCHANGED <<pool, open, accounts, booked, acked, confirmed, faults>>

\* Mutant: the INSERT and the UPDATE are statements of their own.
BookSeatInTwoStatements(r) ==
  LET seat == Order(r).seat IN
  /\ At(r, "execute") /\ Asks(r, "book")
  /\ seat \in Seats => \A s \in open : Asks(s, "book") => Order(s).seat # seat
  /\ IF r \in open THEN Answer(r, "200") ELSE Goto(r, "execute")
  /\ open' = open \cup {r}
  /\ UNCHANGED <<pool, accounts, booked, acked, confirmed, faults>>

\* POST /concerts-booking: INSERT the booking, UPDATE the seat if there is one
\* (waiting for its row lock), whether or not it is booked.
BookSeat(r) ==
  LET seat == Order(r).seat IN
  /\ At(r, "execute") /\ Asks(r, "book")
  /\ seat \in Seats => \A s \in open : Asks(s, "book") => Order(s).seat # seat
  /\ open' = open \cup {r}
  /\ Answer(r, "200")
  /\ UNCHANGED <<pool, accounts, booked, acked, confirmed, faults>>

\* GET /concerts and GET /concerts/{concert_se}.
ReadConcerts(r) ==
  /\ At(r, "execute") /\ Asks(r, "read")
  /\ Answer(r, "200")
  /\ UNCHANGED <<pool, open, accounts, booked, acked, confirmed, faults>>

\* The statement fails: a 500 by whichever except clause; all but the login's roll
\* back at once.
StatementFails(r) ==
  /\ At(r, "execute")
  /\ Fault
  /\ EndTransaction(IF Asks(r, "login") THEN {} ELSE {r})
  /\ Answer(r, "500")
  /\ UNCHANGED <<accounts, booked, acked, confirmed>>

\* The process dies: PostgreSQL rolls back what was open.
Crash ==
  /\ Fault
  /\ req' = [r \in Requests |-> Over]
  /\ EndTransaction(Requests)
  /\ UNCHANGED <<accounts, booked, acked, confirmed>>

Execute(r) == InsertAccount(r) \/ FindAccount(r) \/ BookSeat(r) \/ ReadConcerts(r)
Step(r) == Connect(r) \/ ConnectTimesOut(r) \/ Execute(r) \/ Commit(r) \/ Close(r)

Next ==
  \/ \E r \in Requests : \/ \E order \in Orders : Arrive(r, order)
                         \/ Step(r) \/ CommitFails(r) \/ StatementFails(r)
  \/ Crash

Spec == Init /\ [][Next]_vars

-----------------------------------------------------------------------------
(* Properties *)

(* The pool is given back: at most PoolLimit connections are out, and none for a
   request that is over, whichever way it ended (database.py:58-63). *)
ConnectionsReturned ==
  /\ Cardinality(pool) <= PoolLimit
  /\ \A r \in pool : ~ At(r, "idle")

(* No deadlock among connections and row locks: a request that has written, and so
   may hold the lock or the connection another one waits for, waits for nothing
   itself (database.py:93, concert_query.py:52-73: one statement a transaction). *)
WritersNeverWait ==
  \A r \in open : r \in pool /\ req[r].pc \in {"commit", "close"}

(* A sign-up that was acknowledged is a committed row, whatever fails afterwards
   (database.py:93). *)
AcknowledgedIsStored == acked \subseteq accounts

(* Who has signed up can log in with that password, as long as e-mails are unique:
   sign-ups that race, fail or are retried do not get in the way. *)
SignedUpCanLogIn ==
  UniqueEmails => \A r \in Requests : req[r].owed => req[r].answer # "401"

(* database.py:89 says that writing SQL runs in a transaction that is committed: a
   booking that was answered 200 leaves the seat booked. *)
BookingIsKept == confirmed \subseteq booked

-----------------------------------------------------------------------------
(* Refinement: sign-up and login, taken apart into statements of concurrent sessions,
   answer as if each were one step on a book of accounts.  A sign-up takes effect
   with its COMMIT, on a check for the e-mail made with its INSERT; a login with its
   SELECT (user_router.py, user_engine.py, database.py:70-94). *)
Called ==
  [r \in Requests |->
     LET order == req[r].order IN
       IF order.kind \in {"signup", "login"}
       THEN [kind |-> order.kind, account |-> order.account, answer |-> req[r].answer]
       ELSE [kind |-> "nothing"]]

Book == INSTANCE AccountBook WITH call <- Called

ImplementsAccounts == Book!Spec
==============================================================================
