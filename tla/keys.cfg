SPECIFICATION IdempotencySpec
CONSTANTS
  Keys = {k1}
  Requests = {r1, r2}
  Clients = {c1, c2, c3}
  Outages = {"refuse", "expire", "kill"}
  MaxCalls = 5
SYMMETRY Symmetry
INVARIANTS
  IdempotencyTypeOK
  OneProducer
  ReplayIsOwn
  InFlightIsRunning
PROPERTIES
  AnswerStays
CHECK_DEADLOCK FALSE
