\* The instance of GateSafety, Redis faults only; the run looks for a user who is turned away when it
\* is their turn.
CONSTANTS
  Users = {u1, u2}
  NoUser = NoUser
  Requests = {r1, r2}
  PerSec = 1
  FaultKinds = {"redis"}
  MaxRecords = 3
  MaxFaults = 1
  Threshold = 1
  Window = 1
  Blocking = FALSE
  Overlap = {}
  Enqueuers = {u1}
  MishapKinds = {}
  MaxMishaps = 0
SPECIFICATION GateSpec
SYMMETRY RequestSymmetry
INVARIANT
  ReleasedUserIsAdmitted
