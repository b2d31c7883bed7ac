\* Three users, three records, a batch of two, every kind of fault.
CONSTANTS
  Users = {u1, u2, u3}
  PerSec = 2
  FaultKinds = {"redis", "start", "fetch", "stop", "crash"}
  MaxRecords = 3
  MaxFaults = 2
SPECIFICATION Spec
SYMMETRY UserSymmetry
INVARIANTS
  TypeOK
  ScoreIsOffset
  LatestTicket
  FifoRelease
  TicketsAccounted
  LossBound
