\* One patient reviewer, who may come back to a run already decided; one side-effecting tool, which an edit may take away; a death.
CONSTANTS
  look = look
  send = send
  wire = wire
  Tools = {look, send}
  SideEffecting = {send}
  NoTool = NoTool
  Reviewers = {r1}
  Grants <- OneSender
  Registries <- SomeKnown
  Mode = "rules"
  MaxFired = 2
  MaxCrashes = 1
  Events = {"undeploy", "edit", "early"}
SPECIFICATION PatientSpec
\* A run whose review is over stays as it is.
CHECK_DEADLOCK FALSE
INVARIANTS
  DeniedNeverFired
  FiresOnce
PROPERTIES
  
  ApprovalsFinish
