\* The blocking handler under every failure: Redis, Kafka, the database, a TTL that
\* runs out, a crash.  One user sends one request at a time, the other any number.
CONSTANTS
  Users = {u1, u2}
  NoUser = NoUser
  Requests = {r1, r2}
  PerSec = 1
  FaultKinds = {"redis", "crash"}
  MaxRecords = 2
  MaxFaults = 1
  Threshold = 0
  Window = 1
  Blocking = TRUE
  Overlap = {u2}
  Enqueuers = {}
  MishapKinds = {"redis", "kafka", "db", "ttl"}
  MaxMishaps = 1
SPECIFICATION GateSpec
SYMMETRY RequestSymmetry
INVARIANTS
  WaitingHasTicket
  NobodySlipsIn
PROPERTIES
  OnePassPerMark
  SpentMarkIsSpent
