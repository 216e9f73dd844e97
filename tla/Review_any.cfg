\* Two reviewers at once, at any time, on an agent with two side-effecting tools; edits and a death.
CONSTANTS
  look = look
  send = send
  wire = wire
  Tools = {send, wire}
  SideEffecting = {send, wire}
  NoTool = NoTool
  Reviewers = {r1, r2}
  Grants <- TwoSenders
  Registries <- AllKnown
  Mode = "llm"
  MaxFired = 2
  MaxCrashes = 1
  Events = {"edit", "early"}
SPECIFICATION Spec
SYMMETRY Symmetry
\* A run whose review is over stays as it is.
CHECK_DEADLOCK FALSE
PROPERTIES
  OnlyHeldFires
