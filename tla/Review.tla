------------------------------- MODULE Review -------------------------------
(***************************************************************************)
(* Human review of one run: Fingent.resolve_review                         *)
(* (backend/fingent/platform.py) called by several reviewers, against the  *)
(* worker that carries out the first run and the row both write.           *)
(*                                                                         *)
(* A call reads the run record, decides on what it read, and writes the    *)
(* whole record back; an approval first re-enters the agent kernel, which  *)
(* calls tools and persists a record of its own. The kernel is used by its *)
(* contract (KernelContract), which AgentRun keeps. Between the hold and   *)
(* the approval the agent may be edited, and the process that serves the   *)
(* approval may not know all its tools. Kept of the record: status, held   *)
(* action, last decision, and the tools a review step says were not        *)
(* executed.                                                               *)
(***************************************************************************)
EXTENDS KernelContract, FiniteSets

CONSTANTS
  Reviewers,   \* request threads calling resolve_review
  Grants,      \* the allow-lists the agent may have, in order
  Registries,  \* the sets of tools a process may know
  Mode,        \* "llm" or "rules"
  MaxFired,    \* bound: how often a tool is counted
  MaxCrashes,  \* bound: how many threads die
  Events       \* which of the optional events may happen

ASSUME ReviewAssumption ==
  /\ Grants \subseteq Seq(Tools) /\ Registries \subseteq SUBSET Tools
  /\ Mode \in {"llm", "rules"}
  /\ MaxFired \in Nat \ {0} /\ MaxCrashes \in Nat
  /\ Events \subseteq {"undeploy", "edit", "early"}

Decision == {"none", "approved", "rejected"}

RunRecord ==
  [status : {"queued", "running", "success", "failed", "blocked", "needs_review",
             "approved", "rejected"},
   held : Tools \cup {NoTool},
   decision : Decision,
   denied : SUBSET Tools]

VARIABLES
  record,    \* the row of the runs table
  job, jobRead,  \* the worker: place, record read
  fired,     \* how often each side-effecting tool was really called
  enabled,   \* get_spec finds the agent
  grant,     \* the allow-list of the stored spec
  pc, read, resumed,  \* reviewers: place, record read, record being written
  spec,      \* the allow-list each reviewer is about to resume with
  usable,    \* history: what of it was known where the run was resumed
  crashes

jobVars == <<job, jobRead>>
agentVars == <<enabled, grant>>
reviewerVars == <<pc, read, resumed, spec, usable>>
vars == <<record, jobVars, fired, agentVars, reviewerVars, crashes>>

\* A record as runtime.run writes it: a new one, without review fields.
FromKernel(r) ==
  [status |-> r.status, held |-> r.held, decision |-> "none", denied |-> {}]

Blank == [status |-> "queued", held |-> NoTool, decision |-> "none", denied |-> {}]

TypeOK ==
  /\ record \in RunRecord
  /\ job \in {"queued", "starting", "running", "settled"}
  /\ jobRead \in RunRecord
  /\ fired \in [SideEffecting -> 0..MaxFired]
  /\ enabled \in BOOLEAN
  /\ pc \in [Reviewers -> {"idle", "reject", "lookup", "resume", "persist",
                           "stamp", "signoff"}]
  /\ read \in [Reviewers -> RunRecord]
  /\ resumed \in [Reviewers -> RunRecord]
  /\ grant \in Seq(Tools) /\ spec \in [Reviewers -> Seq(Tools)]
  /\ usable \in [Reviewers -> SUBSET Tools]
  /\ crashes \in 0..MaxCrashes

Init ==
  /\ record = Blank
  /\ job = "queued"
  /\ jobRead = Blank
  /\ fired = [t \in SideEffecting |-> 0]
  /\ enabled = TRUE
  /\ grant \in Grants
  /\ pc = [r \in Reviewers |-> "idle"]
  /\ read = [r \in Reviewers |-> Blank]
  /\ resumed = [r \in Reviewers |-> Blank]
  /\ spec = [r \in Reviewers |-> <<>>]
  /\ usable = [r \in Reviewers |-> {}]
  /\ crashes = 0

-----------------------------------------------------------------------------
(* The kernel.                                                             *)

\* A bug: the rules engine may stop anywhere and call that success.
KernelResultsCutShort(list, known, approved) ==
  {k \in RunResults : Governed(list, approved, k)}

\* Results of runtime.run with this allow-list and these approved_tools, in a process
\* whose registry knows these tools.
KernelResults(list, known, approved) ==
  {k \in RunResults :
     /\ Governed(list, approved, k)
     /\ Mode = "rules" => InOrder(list, known, k) /\ Thorough(list, known, k)}

\* Its side effects, each tool counted once a run.
Fire(k) ==
  fired' = [t \in SideEffecting |->
              IF t \in k.did /\ fired[t] < MaxFired THEN fired[t] + 1 ELSE fired[t]]

-----------------------------------------------------------------------------
(* The worker: _run_job around the first run, nothing approved beforehand. *)

StartJob ==
  /\ job = "queued"
  /\ jobRead' = record
  /\ job' = "starting"
  /\ UNCHANGED <<record, fired, agentVars, reviewerVars, crashes>>

MarkRunning ==
  /\ job = "starting"
  /\ record' = [jobRead EXCEPT !.status = "running"]
  /\ jobRead' = Blank
  /\ job' = "running"
  /\ UNCHANGED <<fired, agentVars, reviewerVars, crashes>>

RunJob ==
  /\ job = "running"
  /\ \E known \in Registries : \E k \in KernelResults(grant, known, {}) :
       record' = FromKernel(k) /\ Fire(k)
  /\ job' = "settled"
  /\ UNCHANGED <<jobRead, agentVars, reviewerVars, crashes>>

-----------------------------------------------------------------------------
(* A reviewer: resolve_review.                                             *)

Goto(r, p) == pc' = [pc EXCEPT ![r] = p]

\* The call returns: what it had read and made is gone.
Return(r) ==
  /\ Goto(r, "idle")
  /\ read' = [read EXCEPT ![r] = Blank]
  /\ resumed' = [resumed EXCEPT ![r] = Blank]
  /\ spec' = [spec EXCEPT ![r] = <<>>]
  /\ usable' = [usable EXCEPT ![r] = {}]

\* get_run. The review page lists the runs that need one, but the call checks no
\* status: it may be made for any run, at any time ("early").
Open(r, p) ==
  /\ pc[r] = "idle"
  /\ record.status = "needs_review" \/ "early" \in Events
  /\ read' = [read EXCEPT ![r] = record]
  /\ Goto(r, p)
  /\ UNCHANGED <<record, jobVars, fired, agentVars, resumed, spec, usable, crashes>>

Reject(r) ==
  /\ pc[r] = "reject"
  /\ record' = [status |-> "rejected", held |-> NoTool, decision |-> "rejected",
                denied |-> read[r].denied \cup ({read[r].held} \ {NoTool})]
  /\ Return(r)
  /\ UNCHANGED <<jobVars, fired, agentVars, crashes>>

\* get_spec: with a held action and an enabled spec the run is resumed, with the
\* allow-list the spec has now.
LookupSpec(r) ==
  /\ pc[r] = "lookup"
  /\ IF read[r].held # NoTool /\ enabled
     THEN Goto(r, "resume") /\ spec' = [spec EXCEPT ![r] = grant]
     ELSE Goto(r, "signoff") /\ UNCHANGED spec
  /\ UNCHANGED <<record, jobVars, fired, agentVars, read, resumed, usable, crashes>>

\* Bugs: the resume approves every side-effecting tool, or none.
ApprovesAll(r) == SideEffecting
ApprovesNone(r) == {}

\* approved_tools: the held tool of the record read, and no other.
Approves(r) == {read[r].held}

\* runtime.run with the held tool approved, up to its _persist_run.
Resume(r) ==
  /\ pc[r] = "resume"
  /\ \E known \in Registries : \E k \in KernelResults(spec[r], known, Approves(r)) :
       /\ resumed' = [resumed EXCEPT ![r] = FromKernel(k)]
       /\ usable' = [usable EXCEPT ![r] = Granted(spec[r]) \cap known]
       /\ Fire(k)
  /\ spec' = [spec EXCEPT ![r] = <<>>]
  /\ Goto(r, "persist")
  /\ UNCHANGED <<record, jobVars, agentVars, read, crashes>>

Persist(r) ==
  /\ pc[r] = "persist"
  /\ record' = resumed[r]
  /\ Goto(r, "stamp")
  /\ UNCHANGED <<jobVars, fired, agentVars, read, resumed, spec, usable, crashes>>

\* The fields of an approved record without resume.
SignedOff(rec) ==
  [rec EXCEPT !.status = "approved", !.held = NoTool, !.decision = "approved"]

\* The fields of the resumed record: approved only if it did not pause again.
Stamped(rec) ==
  [rec EXCEPT !.status = IF @ = "success" THEN "approved" ELSE @,
              !.decision = "approved"]

\* A bug: the decision is written on the record read, not on the resumed one.
StampStale(r) ==
  /\ pc[r] = "stamp"
  /\ record' = Stamped(read[r])
  /\ Return(r)
  /\ UNCHANGED <<jobVars, fired, agentVars, crashes>>

Stamp(r) ==
  /\ pc[r] = "stamp"
  /\ record' = Stamped(resumed[r])
  /\ Return(r)
  /\ UNCHANGED <<jobVars, fired, agentVars, crashes>>

SignOff(r) ==
  /\ pc[r] = "signoff"
  /\ record' = SignedOff(read[r])
  /\ Return(r)
  /\ UNCHANGED <<jobVars, fired, agentVars, crashes>>

-----------------------------------------------------------------------------
(* The surroundings.                                                       *)

\* undeploy_agent or delete_agent; deploy_agent enables the agent again.
Undeploy ==
  /\ "undeploy" \in Events
  /\ enabled' = ~enabled
  /\ UNCHANGED <<record, jobVars, fired, grant, reviewerVars, crashes>>

\* update_agent, or create_agent over the same name: save_spec writes another
\* allow-list and enables the agent.
EditTools ==
  /\ "edit" \in Events
  /\ grant' \in Grants
  /\ enabled' = TRUE
  /\ UNCHANGED <<record, jobVars, fired, reviewerVars, crashes>>

\* The process dies, or a statement of the request raises.
Crash(r) ==
  /\ crashes < MaxCrashes
  /\ pc[r] # "idle"
  /\ Return(r)
  /\ crashes' = crashes + 1
  /\ UNCHANGED <<record, jobVars, fired, agentVars>>

Worker == StartJob \/ MarkRunning \/ RunJob

Resolve(r) ==
  Reject(r) \/ LookupSpec(r) \/ Resume(r) \/ Persist(r) \/ Stamp(r) \/ SignOff(r)

Next ==
  \/ Worker
  \/ \E r \in Reviewers :
       \/ Open(r, "reject") \/ Open(r, "lookup")
       \/ Resolve(r) \/ Crash(r)
  \/ Undeploy
  \/ EditTools

Spec == Init /\ [][Next]_vars

\* Threads go on, and reviewers keep approving what waits for them.
PatientSpec ==
  /\ Spec
  /\ WF_vars(Worker)
  /\ \A r \in Reviewers : WF_vars(Resolve(r)) /\ WF_vars(Open(r, "lookup"))

-----------------------------------------------------------------------------
(* Properties of every configuration.                                      *)

\* A side-effecting tool is called only by the resume of a reviewer who read a
\* record that held this very tool, whatever other reviewers and the worker do
\* meanwhile.
OnlyHeldFires ==
  [][\A t \in SideEffecting : fired'[t] # fired[t] =>
       \E r \in Reviewers : pc[r] = "resume" /\ read[r].held = t]_vars

Quiet == job \in {"queued", "settled"} /\ \A r \in Reviewers : pc[r] = "idle"

-----------------------------------------------------------------------------
(* Properties while reviews of a run do not overlap: one reviewer.          *)

\* A rejection cancels the held action: nothing fires while the record says
\* rejected, although approving a rejected run is possible (platform.py:
\* "Rejection cancels the held action").
RejectionStands ==
  [][record.status = "rejected" => fired' = fired]_vars

\* With one side-effecting tool and no dying request: what the record says was
\* not executed was not, and no action is carried out twice.
DeniedNeverFired ==
  crashes = 0 => \A t \in SideEffecting : t \in record.denied => fired[t] = 0

FiresOnce ==
  crashes = 0 => \A t \in SideEffecting : fired[t] <= 1

\* Without a model, an approval that ends well carried out the held action (README:
\* "any held side-effecting action is executed now"), unless an edit took the tool
\* from the agent since the hold or the resuming process did not know it.
ApprovedHasFired ==
  [][\A r \in Reviewers : Stamp(r) /\ record'.status = "approved" =>
       fired[read[r].held] > 0 \/ read[r].held \notin usable[r]]_vars

\* With one side-effecting tool, reviewers who keep approving get the run out
\* of the review queue (platform.py: "the agent then continues to a governed
\* final answer").
ApprovalsFinish == (record.status = "needs_review") ~> (record.status # "needs_review")

=============================================================================
