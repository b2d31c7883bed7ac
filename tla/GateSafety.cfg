\* Two users, one of whom also calls /queue/enqueue, one request each at a time,
\* the non-blocking handler of configs/config.json.
CONSTANTS
  Users = {u1, u2}
  NoUser = NoUser
  Requests = {r1, r2}
  PerSec = 1
  FaultKinds = {"redis", "start", "fetch", "stop"}
  MaxRecords = 3
  MaxFaults = 1
  Threshold = 1
  Window = 1
  Blocking = FALSE
  Overlap = {}
  Enqueuers = {u1}
  MishapKinds = {}
  MaxMishaps = 0
SPECIFICATION GateSpec
SYMMETRY RequestSymmetry
INVARIANTS
  GateTypeOK
  OneLiveTicket
PROPERTIES
  ImplementsConsumer
  ImplementsFairLine
