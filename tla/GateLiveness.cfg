\* One request at a time, two users, every failure, a crash, a TTL that runs out; no symmetry,
\* it is unsound for liveness.
CONSTANTS
  Users = {u1, u2}
  NoUser = NoUser
  Requests = {r1}
  PerSec = 1
  FaultKinds = {"redis", "start", "fetch", "stop", "crash"}
  MaxRecords = 2
  MaxFaults = 1
  Threshold = 1
  Window = 1
  Blocking = TRUE
  Overlap = {}
  Enqueuers = {u1}
  MishapKinds = {"redis", "kafka", "db", "ttl"}
  MaxMishaps = 1
SPECIFICATION GateFairSpec
PROPERTIES
  RequestsAnswered
  WaitingEnds
  EveryTicketSettles
