\* Two request threads with one idempotency key.
CONSTANTS
  Jobs = {j1, j2}
  Workers = {w1}
  Clients = {c1, c2}
  Keys = {k1}
  NoKey = NoKey
  NoJob = NoJob
  NoWorker = NoWorker
  MaxAttempts = 2
  LeaseTicks = 1
  BackoffCap = 1
  AgeLimit = 1
  MaxClaims = 9
  MaxFaults = 0
  Outcomes = {"success"}
  Events = {}
SPECIFICATION Spec
SYMMETRY Symmetry
INVARIANTS
  UniqueKey
