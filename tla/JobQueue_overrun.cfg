\* Attempts outlast leases; withdrawal, cancellation, one fault. Threads go on.
CONSTANTS
  Jobs = {j1}
  Workers = {w1, w2}
  Clients = {c1}
  Keys = {}
  NoKey = NoKey
  NoJob = NoJob
  NoWorker = NoWorker
  MaxAttempts = 2
  LeaseTicks = 1
  BackoffCap = 1
  AgeLimit = 1
  MaxClaims = 9
  MaxFaults = 1
  Outcomes = {"success"}
  Events = {"cancel", "undeploy", "overrun"}
SPECIFICATION FairSpec
INVARIANTS
  AttemptBound
PROPERTIES
  EveryJobSettles
