SPECIFICATION IdempotencySpec
CONSTANTS
  Keys = {k1}
  Requests = {r1, r2}
  Clients = {c1, c2}
  Outages = {"refuse"}
  MaxCalls = 4
SYMMETRY Symmetry
INVARIANTS
  ClaimIsExclusive
CHECK_DEADLOCK FALSE
