\* Chat turns of agents that read and agents that send, with and without a model; two calls a turn, granted or not.
CONSTANTS
  look = look
  feed = feed
  send = send
  Tools = {look, feed, send}
  SideEffecting = {send}
  NoTool = NoTool
  Agents <- Chatters
  Modes = {"llm", "rules"}
  Registered = {look, feed, send}
  Untrusted = {look, feed}
  Stranger = Stranger
  MaxCalls = 2
SPECIFICATION StreamSpec
\* A run ends.
CHECK_DEADLOCK FALSE
PROPERTIES
  ImplementsRun
