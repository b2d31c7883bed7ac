\* Three requests for two connections, two passwords for one e-mail.
CONSTANTS
  Requests = {r1, r2, r3}
  Emails = {e1}
  Passwords = {p1, p2}
  Seats = {s1}
  NoSeat = NoSeat
  PoolLimit = 2
  UniqueEmails = TRUE
  MaxFaults = 2
SPECIFICATION Spec
SYMMETRY RequestSymmetry
INVARIANTS
  TypeOK
  ConnectionsReturned
  SignedUpCanLogIn
  WritersNeverWait
PROPERTY ImplementsAccounts
