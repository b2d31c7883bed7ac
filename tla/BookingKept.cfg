\* Two requests; the run looks for a booking that is answered and not stored.
CONSTANTS
  Requests = {r1, r2}
  Emails = {e1}
  Passwords = {p1}
  Seats = {s1}
  NoSeat = NoSeat
  PoolLimit = 2
  UniqueEmails = TRUE
  MaxFaults = 1
SPECIFICATION Spec
SYMMETRY RequestSymmetry
INVARIANT BookingIsKept
