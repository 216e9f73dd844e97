\* One reviewer rejects while another approves.
CONSTANTS
  look = look
  send = send
  wire = wire
  Tools = {look, send}
  SideEffecting = {send}
  NoTool = NoTool
  Reviewers = {r1, r2}
  Grants <- OneSender
  Registries <- AllKnown
  Mode = "rules"
  MaxFired = 2
  MaxCrashes = 0
  Events = {}
SPECIFICATION Spec
\* A run whose review is over stays as it is.
CHECK_DEADLOCK FALSE
PROPERTIES
  RejectionStands
