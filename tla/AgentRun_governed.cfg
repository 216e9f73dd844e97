\* Two side-effecting tools, one of them no longer registered; every outcome of a call, two calls a turn, granted or not; a fair thread.
CONSTANTS
  look = look
  send = send
  wire = wire
  Tools = {look, send, wire}
  SideEffecting = {send, wire}
  NoTool = NoTool
  Agents <- Senders
  Modes = {"llm", "rules"}
  Registered = {look, send}
  Untrusted = {look, send}
  Stranger = Stranger
  MaxCalls = 2
SPECIFICATION FairSpec
\* A run ends.
CHECK_DEADLOCK FALSE
INVARIANTS
  RunIsGoverned
  RulesInOrder
  SuccessIsClean
  RiskyIsReviewed
PROPERTIES
  StopsAtGate
  Terminates
