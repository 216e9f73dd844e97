\* Two workers, one fault (a death or a statement that raises), two jobs, one request thread with a key; every attempt ends before its lease.
CONSTANTS
  Jobs = {j1, j2}
  Workers = {w1, w2}
  Clients = {c1}
  Keys = {k1}
  NoKey = NoKey
  NoJob = NoJob
  NoWorker = NoWorker
  MaxAttempts = 2
  LeaseTicks = 1
  BackoffCap = 1
  AgeLimit = 1
  MaxClaims = 9
  MaxFaults = 1
  Outcomes = {"success"}
  Events = {"cancel"}
SPECIFICATION Spec
SYMMETRY Symmetry
INVARIANTS
  OneHolder
  RecordSettles
  UniqueKey
PROPERTIES
  ImplementsLifecycle
