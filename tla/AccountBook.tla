------------------------------ MODULE AccountBook ------------------------------
(***************************************************************************)
(* What sign-up and login promise, with no session, no connection, no lock  *)
(* and no transaction in it: a book of accounts, where every request takes  *)
(* effect in one step between its arrival and its answer.  A failure is     *)
(* answered "500"; a sign-up answered so may have taken effect.             *)
(***************************************************************************)
CONSTANTS Requests, Emails, Passwords,
          UniqueEmails    \* does the book have one account for an e-mail?

VARIABLES
  accounts,  \* the accounts in the book
  call       \* what each request asks for, and its answer

vars == <<accounts, call>>

Account == [email : Emails, password : Passwords]

Nothing == [kind |-> "nothing"]
Asked(kind, a, answer) == [kind |-> kind, account |-> a, answer |-> answer]

Init ==
  /\ accounts = {}
  /\ call = [r \in Requests |-> Nothing]

Put(r, c) == call' = [call EXCEPT ![r] = c]

Ask(r, kind, a) ==
  /\ call[r] = Nothing
  /\ Put(r, Asked(kind, a, "none"))
  /\ UNCHANGED accounts

\* A new account, if the e-mail is free.
Register(a) ==
  /\ UniqueEmails => \A b \in accounts : b.email # a.email
  /\ accounts' = accounts \cup {a}

SignUp(r, a) ==
  /\ call[r] = Asked("signup", a, "none")
  /\ \/ Register(a) /\ Put(r, Asked("signup", a, "201"))
     \/ (Register(a) \/ UNCHANGED accounts) /\ Put(r, Asked("signup", a, "500"))

\* Admitted on an account in the book; refused if the e-mail has none, or another one.
LogIn(r, a) ==
  /\ call[r] = Asked("login", a, "none")
  /\ \/ a \in accounts /\ Put(r, Asked("login", a, "200"))
     \/ {b \in accounts : b.email = a.email} # {a} /\ Put(r, Asked("login", a, "401"))
     \/ Put(r, Asked("login", a, "500"))
  /\ UNCHANGED accounts

\* The answer goes out ..
Finish(r) ==
  /\ call[r] # Nothing /\ call[r].answer # "none"
  /\ Put(r, Nothing)
  /\ UNCHANGED accounts

\* .. or the requests are lost with the server.
Crash ==
  /\ call' = [r \in Requests |-> Nothing]
  /\ UNCHANGED accounts

Next ==
  \/ \E r \in Requests, a \in Account :
       SignUp(r, a) \/ LogIn(r, a) \/ \E kind \in {"signup", "login"} : Ask(r, kind, a)
  \/ \E r \in Requests : Finish(r)
  \/ Crash

Spec == Init /\ [][Next]_vars
==============================================================================
