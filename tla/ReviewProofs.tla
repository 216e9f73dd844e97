---------------------------- MODULE ReviewProofs ----------------------------
(***************************************************************************)
(* Theorems about Review, for all tools, allow-lists and reviewers.        *)
(***************************************************************************)
EXTENDS Review, TLAPS

LEMMA FromKernelType ==
  ASSUME NEW k \in RunResults
  PROVE  /\ FromKernel(k) \in RunRecord
         /\ FromKernel(k).status # "rejected"
         /\ FromKernel(k).status = k.status /\ FromKernel(k).held = k.held
BY DEF RunResults, FromKernel, RunRecord, Decision

LEMMA FireType ==
  ASSUME ReviewAssumption, fired \in [SideEffecting -> 0..MaxFired], NEW k, Fire(k)
  PROVE  fired' \in [SideEffecting -> 0..MaxFired]
BY DEF Fire, ReviewAssumption

LEMMA BlankType == Blank \in RunRecord /\ Blank.held = NoTool
BY DEF Blank, RunRecord, Decision

LEMMA TypeStep ==
  ASSUME ToolAssumption, ReviewAssumption, TypeOK, [Next]_vars
  PROVE  TypeOK'
<1> USE DEF TypeOK, jobVars, agentVars, reviewerVars
<1>1. CASE StartJob
  BY <1>1 DEF StartJob
<1>2. CASE MarkRunning
  <2>1. record' \in RunRecord
    BY <1>2 DEF MarkRunning, RunRecord
  <2> QED
    BY <1>2, <2>1, BlankType DEF MarkRunning
<1>3. CASE RunJob
  <2>1. PICK k \in RunResults : record' = FromKernel(k) /\ Fire(k)
    BY <1>3 DEF RunJob, KernelResults
  <2> QED
    BY <1>3, <2>1, FromKernelType, FireType DEF RunJob
<1>4. ASSUME NEW r \in Reviewers, Open(r, "reject") \/ Open(r, "lookup") PROVE TypeOK'
  <2>1. /\ pc' = [pc EXCEPT ![r] = "reject"] \/ pc' = [pc EXCEPT ![r] = "lookup"]
        /\ read' = [read EXCEPT ![r] = record]
        /\ UNCHANGED <<record, jobVars, fired, agentVars, resumed, spec, usable, crashes>>
    BY <1>4 DEF Open, Goto
  <2> QED
    BY <2>1
<1>5. ASSUME NEW r \in Reviewers, Reject(r) PROVE TypeOK'
  <2>1. record' \in RunRecord
    BY <1>5 DEF Reject, RunRecord, Decision
  <2> QED
    BY <1>5, <2>1, BlankType DEF Reject, Return, Goto
<1>6. ASSUME NEW r \in Reviewers, LookupSpec(r) PROVE TypeOK'
  <2>1. /\ pc' = [pc EXCEPT ![r] = "resume"] \/ pc' = [pc EXCEPT ![r] = "signoff"]
        /\ spec' = [spec EXCEPT ![r] = grant] \/ UNCHANGED spec
        /\ UNCHANGED <<record, jobVars, fired, agentVars, read, resumed, usable, crashes>>
    BY <1>6 DEF LookupSpec, Goto
  <2>2. spec' \in [Reviewers -> Seq(Tools)]
    BY <2>1
  <2>3. pc' \in [Reviewers -> {"idle", "reject", "lookup", "resume", "persist",
                               "stamp", "signoff"}]
    BY <2>1
  <2> QED
    BY <2>1, <2>2, <2>3
<1>7. ASSUME NEW r \in Reviewers, Resume(r) PROVE TypeOK'
  <2>1. PICK known \in Registries, k \in RunResults :
          /\ resumed' = [resumed EXCEPT ![r] = FromKernel(k)]
          /\ usable' = [usable EXCEPT ![r] = Granted(spec[r]) \cap known]
          /\ Fire(k)
    BY <1>7 DEF Resume, KernelResults
  <2>2. known \subseteq Tools
    BY DEF ReviewAssumption
  <2> QED
    BY <1>7, <2>1, <2>2, FromKernelType, FireType DEF Resume, Goto
<1>8. ASSUME NEW r \in Reviewers, Persist(r) PROVE TypeOK'
  BY <1>8 DEF Persist, Goto
<1>9. ASSUME NEW r \in Reviewers, Stamp(r) PROVE TypeOK'
  <2>1. record' \in RunRecord
    BY <1>9 DEF Stamp, Stamped, RunRecord, Decision
  <2> QED
    BY <1>9, <2>1, BlankType DEF Stamp, Return, Goto
<1>10. ASSUME NEW r \in Reviewers, SignOff(r) PROVE TypeOK'
  <2>1. record' \in RunRecord
    BY <1>10 DEF SignOff, SignedOff, RunRecord, Decision
  <2> QED
    BY <1>10, <2>1, BlankType DEF SignOff, Return, Goto
<1>11. ASSUME NEW r \in Reviewers, Crash(r) PROVE TypeOK'
  <2>1. crashes' \in 0..MaxCrashes
    BY <1>11 DEF Crash, ReviewAssumption
  <2> QED
    BY <1>11, <2>1, BlankType DEF Crash, Return, Goto
<1>12. CASE Undeploy \/ EditTools
  BY <1>12 DEF Undeploy, EditTools, ReviewAssumption
<1>13. CASE UNCHANGED vars
  BY <1>13 DEF vars
<1> QED
  BY <1>1, <1>2, <1>3, <1>4, <1>5, <1>6, <1>7, <1>8, <1>9, <1>10, <1>11, <1>12, <1>13
  DEF Next, Worker, Resolve

LEMMA TypeInit == ToolAssumption /\ ReviewAssumption /\ Init => TypeOK
BY BlankType DEF Init, TypeOK, ReviewAssumption

\* The type invariant holds in every reachable state.
THEOREM TypeCorrect == Spec => []TypeOK
<1>1. Init => TypeOK
  BY TypeInit, ToolAssumption, ReviewAssumption
<1>2. TypeOK /\ [Next]_vars => TypeOK'
  BY TypeStep, ToolAssumption, ReviewAssumption
<1> QED
  BY <1>1, <1>2, PTL DEF Spec

-----------------------------------------------------------------------------
(* What fires. A kernel run fires only what its approvals let through: the  *)
(* worker's approves nothing, a reviewer's the tool held in what it read.  *)

LEMMA FiresOnlyApproved ==
  ASSUME TypeOK, NEW list, NEW known, NEW approved,
         NEW k \in KernelResults(list, known, approved), Fire(k),
         NEW t \in SideEffecting, fired'[t] # fired[t]
  PROVE  t \in approved
<1>1. t \in k.did
  BY DEF Fire, TypeOK
<1>2. ~Gated(t, approved)
  BY <1>1 DEF KernelResults, Governed
<1> QED
  BY <1>2 DEF Gated

LEMMA FiringStep ==
  ASSUME TypeOK, [Next]_vars, NEW t \in SideEffecting, fired'[t] # fired[t]
  PROVE  \E r \in Reviewers : Resume(r) /\ read[r].held = t
<1>1. CASE RunJob
  <2>0. PICK known \in Registries : \E k \in KernelResults(grant, known, {}) : Fire(k)
    BY <1>1 DEF RunJob
  <2>1. PICK k \in KernelResults(grant, known, {}) : Fire(k)
    BY <2>0
  <2> QED
    BY <2>1, FiresOnlyApproved
<1>2. ASSUME NEW r \in Reviewers, Resume(r)
      PROVE  Resume(r) /\ read[r].held = t
  <2>0. PICK known \in Registries :
          \E k \in KernelResults(spec[r], known, Approves(r)) : Fire(k)
    BY <1>2 DEF Resume
  <2>1. PICK k \in KernelResults(spec[r], known, Approves(r)) : Fire(k)
    BY <2>0
  <2>2. t \in Approves(r)
    BY <2>1, FiresOnlyApproved
  <2> QED
    BY <1>2, <2>2 DEF Approves
<1>3. CASE UNCHANGED fired
  BY <1>3
<1>4. RunJob \/ (\E r \in Reviewers : Resume(r)) \/ UNCHANGED fired
  BY DEF Next, Worker, Resolve, StartJob, MarkRunning, Open, Reject, LookupSpec, Persist,
     Stamp, SignOff, Crash, Undeploy, EditTools, vars
<1> QED
  BY <1>1, <1>2, <1>3, <1>4

\* However reviewers and worker interleave, a side-effecting tool is called only
\* by the resume of a reviewer who read a record that held it.
THEOREM OnlyApprovedFires == Spec => OnlyHeldFires
<1>1. TypeOK /\ [Next]_vars
        => [\A t \in SideEffecting : fired'[t] # fired[t] =>
              \E r \in Reviewers : pc[r] = "resume" /\ read[r].held = t]_vars
  BY FiringStep DEF Resume
<1> QED
  BY <1>1, TypeCorrect, PTL DEF Spec, OnlyHeldFires

-----------------------------------------------------------------------------
(* Reviews that do not overlap. Nothing is held before the worker is done,  *)
(* so a reviewer about to resume has read the record as it still is.       *)

OneReviewer == \A r, s \in Reviewers : r = s

FreshInv ==
  /\ record.status = "rejected" => record.held = NoTool
  /\ job # "settled" => record.held = NoTool
  /\ jobRead.held = NoTool
  /\ \A r \in Reviewers :
       /\ pc[r] \in {"lookup", "resume"} /\ read[r].held # NoTool => record = read[r]
       /\ pc[r] = "resume" => read[r].held # NoTool
       /\ pc[r] \in {"persist", "stamp"} => resumed[r].status # "rejected"
       /\ job # "settled" => pc[r] \notin {"resume", "persist", "stamp"}

LEMMA FreshStep ==
  ASSUME ToolAssumption, ReviewAssumption, OneReviewer, TypeOK, FreshInv, [Next]_vars
  PROVE  FreshInv'
<1> USE DEF FreshInv, jobVars, reviewerVars
<1>1. CASE StartJob
  BY <1>1 DEF StartJob
<1>2. CASE MarkRunning
  <2>1. record'.held = NoTool /\ record'.status = "running"
    BY <1>2 DEF MarkRunning, TypeOK, RunRecord
  <2>2. jobRead'.held = NoTool /\ job' = "running" /\ UNCHANGED reviewerVars
    BY <1>2, BlankType DEF MarkRunning
  <2>3. \A r \in Reviewers : pc[r] = "lookup" => read[r].held = NoTool
    BY <1>2 DEF MarkRunning
  <2> QED
    BY <1>2, <2>1, <2>2, <2>3 DEF MarkRunning
<1>3. CASE RunJob
  <2>1. PICK k \in RunResults : record' = FromKernel(k)
    BY <1>3 DEF RunJob, KernelResults
  <2>2. record'.status # "rejected"
    BY <2>1, FromKernelType
  <2>3. \A r \in Reviewers : pc[r] = "lookup" => read[r].held = NoTool
    BY <1>3 DEF RunJob
  <2> QED
    BY <1>3, <2>2, <2>3 DEF RunJob
<1>4. ASSUME NEW r \in Reviewers, Open(r, "reject") \/ Open(r, "lookup") PROVE FreshInv'
  BY <1>4 DEF Open, Goto, TypeOK
<1>5. ASSUME NEW r \in Reviewers, Reject(r) PROVE FreshInv'
  <2>1. record'.held = NoTool
    BY <1>5 DEF Reject
  <2>2. \A s \in Reviewers : pc'[s] = "idle"
    BY <1>5 DEF Reject, Return, Goto, OneReviewer, TypeOK
  <2> QED
    BY <1>5, <2>1, <2>2 DEF Reject
<1>6. ASSUME NEW r \in Reviewers, LookupSpec(r) PROVE FreshInv'
  BY <1>6 DEF LookupSpec, Goto, TypeOK
<1>7. ASSUME NEW r \in Reviewers, Resume(r) PROVE FreshInv'
  <2>1. PICK k \in RunResults : resumed' = [resumed EXCEPT ![r] = FromKernel(k)]
    BY <1>7 DEF Resume, KernelResults
  <2>2. resumed'[r].status # "rejected"
    BY <2>1, FromKernelType DEF TypeOK
  <2>3. job = "settled" /\ UNCHANGED <<record, jobVars, read>>
    BY <1>7 DEF Resume
  <2>4. \A s \in Reviewers : s = r /\ pc'[s] = "persist"
    BY <1>7 DEF Resume, Goto, OneReviewer, TypeOK
  <2> QED
    BY <2>2, <2>3, <2>4
<1>8. ASSUME NEW r \in Reviewers, Persist(r) PROVE FreshInv'
  <2>1. record' = resumed[r] /\ record'.status # "rejected"
    BY <1>8 DEF Persist
  <2>2. \A s \in Reviewers : s = r /\ pc'[s] = "stamp"
    BY <1>8 DEF Persist, Goto, OneReviewer, TypeOK
  <2> QED
    BY <1>8, <2>1, <2>2 DEF Persist
<1>9. ASSUME NEW r \in Reviewers, Stamp(r) PROVE FreshInv'
  <2>1. record'.status # "rejected"
    BY <1>9 DEF Stamp, Stamped, TypeOK, RunRecord
  <2>2. \A s \in Reviewers : pc'[s] = "idle"
    BY <1>9 DEF Stamp, Return, Goto, OneReviewer, TypeOK
  <2>3. job = "settled" /\ UNCHANGED jobVars
    BY <1>9 DEF Stamp
  <2> QED
    BY <2>1, <2>2, <2>3
<1>10. ASSUME NEW r \in Reviewers, SignOff(r) PROVE FreshInv'
  <2>1. record'.held = NoTool
    BY <1>10 DEF SignOff, SignedOff, TypeOK, RunRecord
  <2>2. \A s \in Reviewers : pc'[s] = "idle"
    BY <1>10 DEF SignOff, Return, Goto, OneReviewer, TypeOK
  <2> QED
    BY <1>10, <2>1, <2>2 DEF SignOff
<1>11. ASSUME NEW r \in Reviewers, Crash(r) PROVE FreshInv'
  <2>1. \A s \in Reviewers : pc'[s] = "idle"
    BY <1>11 DEF Crash, Return, Goto, OneReviewer, TypeOK
  <2> QED
    BY <1>11, <2>1 DEF Crash
<1>12. CASE Undeploy \/ EditTools
  BY <1>12 DEF Undeploy, EditTools
<1>13. CASE UNCHANGED vars
  BY <1>13 DEF vars
<1> QED
  BY <1>1, <1>2, <1>3, <1>4, <1>5, <1>6, <1>7, <1>8, <1>9, <1>10, <1>11, <1>12, <1>13
  DEF Next, Worker, Resolve

\* While reviews of a run do not overlap nothing fires once it is rejected, for
\* any number of side-effecting tools, at whatever time reviews are made and
\* wherever they die.
THEOREM RejectionsStand == ASSUME OneReviewer PROVE Spec => RejectionStands
<1>1. Init => FreshInv
  BY BlankType DEF Init, FreshInv, Blank
<1>2. TypeOK /\ FreshInv /\ [Next]_vars => FreshInv'
  BY FreshStep, OneReviewer, ToolAssumption, ReviewAssumption
<1>3. TypeOK /\ FreshInv /\ [Next]_vars => [record.status = "rejected" => fired' = fired]_vars
  <2> SUFFICES ASSUME TypeOK, FreshInv, [Next]_vars, record.status = "rejected"
               PROVE  fired' = fired
    OBVIOUS
  <2>1. \A r \in Reviewers : pc[r] # "resume"
    BY DEF FreshInv
  <2>2. \A t \in SideEffecting : fired'[t] = fired[t]
    BY <2>1, FiringStep DEF Resume
  <2>3. fired \in [SideEffecting -> 0..MaxFired] /\ fired' \in [SideEffecting -> 0..MaxFired]
    BY TypeStep, ToolAssumption, ReviewAssumption DEF TypeOK
  <2> QED
    BY <2>2, <2>3
<1> QED
  BY <1>1, <1>2, <1>3, TypeCorrect, PTL DEF Spec, RejectionStands

-----------------------------------------------------------------------------
(* What is held.  A held action is a side-effecting tool; without a model,  *)
(* a resume that succeeds has called the one it was for, if it could be.   *)

HeldTools == SideEffecting \cup {NoTool}

\* The resume of r is done, and it called what it was for or could not.
Carried(r) ==
  Mode = "rules" /\ resumed[r].status = "success"
    => fired[read[r].held] > 0 \/ read[r].held \notin usable[r]

HeldInv ==
  /\ record.held \in HeldTools
  /\ jobRead.held \in HeldTools
  /\ \A r \in Reviewers :
       /\ read[r].held \in HeldTools
       /\ resumed[r].held \in HeldTools
       /\ pc[r] \in {"resume", "persist", "stamp"} => read[r].held # NoTool
       /\ pc[r] \in {"persist", "stamp"} => resumed[r].status # "approved" /\ Carried(r)

LEMMA KernelHolds ==
  ASSUME NEW list, NEW known, NEW approved, NEW k \in KernelResults(list, known, approved)
  PROVE  /\ k.held \in HeldTools
         /\ k.held # NoTool => k.held \in SideEffecting \ approved
         /\ FromKernel(k).held = k.held /\ FromKernel(k).denied = {}
         /\ FromKernel(k).status = k.status
         /\ FromKernel(k).status # "approved"
BY DEF KernelResults, Governed, Gated, HeldTools, FromKernel, RunResults

LEMMA HeldToolsAreTools ==
  ASSUME NEW t \in HeldTools, t # NoTool
  PROVE  t \in SideEffecting
BY DEF HeldTools

\* What was called stays called.
LEMMA FiredGrows ==
  ASSUME TypeOK, [Next]_vars, NEW t \in SideEffecting
  PROVE  fired'[t] >= fired[t]
<1>1. \A k : Fire(k) => fired'[t] >= fired[t]
  BY DEF Fire, TypeOK
<1>2. CASE RunJob
  BY <1>1, <1>2 DEF RunJob
<1>3. ASSUME NEW r \in Reviewers, Resume(r) PROVE fired'[t] >= fired[t]
  BY <1>1, <1>3 DEF Resume
<1>4. CASE UNCHANGED fired
  BY <1>4 DEF TypeOK
<1> QED
  BY <1>2, <1>3, <1>4 DEF Next, Worker, Resolve, StartJob, MarkRunning, Open, Reject,
     LookupSpec, Persist, Stamp, SignOff, Crash, Undeploy, EditTools, vars

\* The tool a resume is for is called by a rules run that succeeds.
LEMMA ResumeCarries ==
  ASSUME ReviewAssumption, ToolAssumption, TypeOK, HeldInv, Mode = "rules",
         NEW r \in Reviewers, pc[r] = "resume",
         NEW known, read[r].held \in Granted(spec[r]) \cap known,
         NEW k \in KernelResults(spec[r], known, Approves(r)), k.status = "success", Fire(k)
  PROVE  fired'[read[r].held] > 0
<1> DEFINE t == read[r].held
<1>1. t \in SideEffecting /\ t \in Granted(spec[r]) \cap known
  BY HeldToolsAreTools, ToolAssumption DEF HeldInv
<1>2. t \in k.did
  BY <1>1 DEF KernelResults, Thorough
<1>3. fired[t] \in 0..MaxFired
  BY <1>1 DEF TypeOK
<1>4. fired'[t] = IF fired[t] < MaxFired THEN fired[t] + 1 ELSE fired[t]
  BY <1>1, <1>2 DEF Fire
<1> QED
  BY <1>3, <1>4 DEF ReviewAssumption

LEMMA HeldStep ==
  ASSUME ToolAssumption, ReviewAssumption, TypeOK, HeldInv, [Next]_vars
  PROVE  HeldInv'
<1> USE DEF HeldInv, jobVars, reviewerVars
<1>0. Blank.held \in HeldTools
  BY DEF Blank, HeldTools
<1>1. ASSUME NEW s \in Reviewers, pc[s] \in {"persist", "stamp"},
             read'[s] = read[s], resumed'[s] = resumed[s], usable'[s] = usable[s]
      PROVE  Carried(s)'
  <2>1. read[s].held \in SideEffecting
    BY <1>1, HeldToolsAreTools
  <2>2. fired'[read[s].held] >= fired[read[s].held]
    BY <2>1, FiredGrows
  <2>3. fired[read[s].held] \in Nat /\ fired'[read[s].held] \in Nat
    BY <2>1, TypeStep DEF TypeOK
  <2> QED
    BY <1>1, <2>2, <2>3 DEF Carried
<1>2. CASE StartJob \/ Undeploy \/ EditTools
  BY <1>1, <1>2 DEF StartJob, Undeploy, EditTools
<1>3. CASE MarkRunning
  <2>1. record'.held = jobRead.held
    BY <1>3 DEF MarkRunning, TypeOK, RunRecord
  <2> QED
    BY <1>0, <1>1, <1>3, <2>1 DEF MarkRunning
<1>4. CASE RunJob
  <2>0. PICK known \in Registries :
          \E k \in KernelResults(grant, known, {}) : record' = FromKernel(k)
    BY <1>4 DEF RunJob
  <2>1. PICK k \in KernelResults(grant, known, {}) : record' = FromKernel(k)
    BY <2>0
  <2>2. record'.held \in HeldTools
    BY <2>1, KernelHolds
  <2> QED
    BY <1>1, <1>4, <2>2 DEF RunJob
<1>5. ASSUME NEW r \in Reviewers, Open(r, "reject") \/ Open(r, "lookup") PROVE HeldInv'
  <2>1. \A s \in Reviewers : pc'[s] \in {"resume", "persist", "stamp"} =>
          pc'[s] = pc[s] /\ read'[s] = read[s]
    BY <1>5 DEF Open, Goto, TypeOK
  <2>2. \A s \in Reviewers : read'[s].held \in HeldTools
    BY <1>5 DEF Open, TypeOK
  <2> QED
    BY <1>1, <1>5, <2>1, <2>2 DEF Open
<1>6. ASSUME NEW r \in Reviewers, LookupSpec(r) PROVE HeldInv'
  <2>1. \A s \in Reviewers :
          /\ pc'[s] \in {"persist", "stamp"} => pc'[s] = pc[s]
          /\ pc'[s] = "resume" => read[s].held # NoTool
    BY <1>6 DEF LookupSpec, Goto, TypeOK
  <2> QED
    BY <1>1, <1>6, <2>1 DEF LookupSpec
<1>7. ASSUME NEW r \in Reviewers, Resume(r) PROVE HeldInv'
  <2>0. PICK known \in Registries : \E k \in KernelResults(spec[r], known, Approves(r)) :
          /\ resumed' = [resumed EXCEPT ![r] = FromKernel(k)]
          /\ usable' = [usable EXCEPT ![r] = Granted(spec[r]) \cap known]
          /\ Fire(k)
    BY <1>7 DEF Resume
  <2>1. PICK k \in KernelResults(spec[r], known, Approves(r)) :
          /\ resumed' = [resumed EXCEPT ![r] = FromKernel(k)]
          /\ usable' = [usable EXCEPT ![r] = Granted(spec[r]) \cap known]
          /\ Fire(k)
    BY <2>0
  <2>2. /\ resumed'[r].held \in HeldTools
        /\ resumed'[r].status # "approved" /\ resumed'[r].status = k.status
    <3>1. resumed'[r] = FromKernel(k)
      BY <2>1 DEF TypeOK
    <3> QED
      BY <3>1, KernelHolds
  <2>3. UNCHANGED <<record, jobRead, read>> /\ pc[r] = "resume"
    BY <1>7 DEF Resume
  <2>4. Carried(r)'
    <3>1. usable'[r] = Granted(spec[r]) \cap known
      BY <2>1 DEF TypeOK
    <3> SUFFICES ASSUME Mode = "rules", k.status = "success",
                        read[r].held \in Granted(spec[r]) \cap known
                 PROVE  fired'[read[r].held] > 0
      BY <2>2, <2>3, <3>1 DEF Carried
    <3> QED
      BY <2>1, <2>3, ResumeCarries
  <2>5. \A s \in Reviewers : s # r =>
          pc'[s] = pc[s] /\ resumed'[s] = resumed[s] /\ usable'[s] = usable[s]
    BY <1>7, <2>1 DEF Resume, Goto, TypeOK
  <2> QED
    BY <1>1, <2>2, <2>3, <2>4, <2>5
<1>8. ASSUME NEW r \in Reviewers, Persist(r) PROVE HeldInv'
  <2>1. \A s \in Reviewers :
          /\ pc'[s] \in {"persist", "stamp"} => pc[s] \in {"persist", "stamp"}
          /\ pc'[s] = "resume" => pc[s] = "resume"
    BY <1>8 DEF Persist, Goto, TypeOK
  <2> QED
    BY <1>1, <1>8, <2>1 DEF Persist
<1>9. ASSUME NEW r \in Reviewers, Return(r), record'.held \in HeldTools, UNCHANGED jobRead
      PROVE  HeldInv'
  <2>1. \A s \in Reviewers :
          /\ s = r => pc'[s] = "idle" /\ read'[s] = Blank /\ resumed'[s] = Blank
          /\ s # r => /\ pc'[s] = pc[s] /\ read'[s] = read[s]
                      /\ resumed'[s] = resumed[s] /\ usable'[s] = usable[s]
    BY <1>9 DEF Return, Goto, TypeOK
  <2> QED
    BY <1>0, <1>1, <1>9, <2>1
<1>10. ASSUME NEW r \in Reviewers, Reject(r) PROVE HeldInv'
  <2>1. record'.held \in HeldTools
    BY <1>10 DEF Reject, HeldTools
  <2> QED
    BY <1>9, <1>10, <2>1 DEF Reject
<1>11. ASSUME NEW r \in Reviewers, Stamp(r) PROVE HeldInv'
  <2>1. record'.held = resumed[r].held
    BY <1>11 DEF Stamp, Stamped, TypeOK, RunRecord
  <2> QED
    BY <1>9, <1>11, <2>1 DEF Stamp
<1>12. ASSUME NEW r \in Reviewers, SignOff(r) PROVE HeldInv'
  <2>1. record'.held = NoTool
    BY <1>12 DEF SignOff, SignedOff, TypeOK, RunRecord
  <2> QED
    BY <1>9, <1>12, <2>1 DEF SignOff, HeldTools
<1>13. ASSUME NEW r \in Reviewers, Crash(r) PROVE HeldInv'
  BY <1>9, <1>13 DEF Crash
<1>14. CASE UNCHANGED vars
  BY <1>1, <1>14 DEF vars
<1> QED
  BY <1>2, <1>3, <1>4, <1>5, <1>6, <1>7, <1>8, <1>10, <1>11, <1>12, <1>13, <1>14
  DEF Next, Worker, Resolve

LEMMA HeldInit == ASSUME Init PROVE HeldInv
BY DEF Init, HeldInv, Blank, HeldTools

LEMMA AlwaysHeld == Spec => []HeldInv
<1>1. Init => HeldInv
  BY HeldInit
<1>2. TypeOK /\ HeldInv /\ [Next]_vars => HeldInv'
  BY HeldStep, ToolAssumption, ReviewAssumption
<1> QED
  BY <1>1, <1>2, TypeCorrect, PTL DEF Spec

\* Without a model, an approval that ends well has carried out the held action, or the agent
\* had lost the tool since the hold, or the resuming process did not know it: for any number
\* of reviewers and side-effecting tools, and whatever happens to the others.
THEOREM ApprovalsFire == ASSUME Mode = "rules" PROVE Spec => ApprovedHasFired
<1>1. TypeOK /\ HeldInv /\ [Next]_vars
        => [\A r \in Reviewers : Stamp(r) /\ record'.status = "approved" =>
              fired[read[r].held] > 0 \/ read[r].held \notin usable[r]]_vars
  <2> SUFFICES ASSUME TypeOK, HeldInv, NEW r \in Reviewers, Stamp(r),
                      record'.status = "approved"
               PROVE  fired[read[r].held] > 0 \/ read[r].held \notin usable[r]
    OBVIOUS
  <2>1. resumed[r].status # "approved" /\ Carried(r)
    BY DEF Stamp, HeldInv
  <2>2. resumed[r].status = "success"
    BY <2>1 DEF Stamp, Stamped, TypeOK, RunRecord
  <2> QED
    BY <2>1, <2>2, Mode = "rules" DEF Carried
<1> QED
  BY <1>1, TypeCorrect, AlwaysHeld, PTL DEF Spec, ApprovedHasFired

-----------------------------------------------------------------------------
(* One reviewer, one side-effecting tool.  While no request dies, an action *)
(* that is held was not carried out yet, nor one the record says was not.  *)

OneSideEffect == \A t, u \in SideEffecting : t = u

Unfired(t) ==
  /\ fired[t] <= 1
  /\ job # "settled" => fired[t] = 0
  /\ t \in record.denied => fired[t] = 0
  /\ record.held # NoTool /\ (\A r \in Reviewers : pc[r] # "persist") => fired[t] = 0
  /\ \A r \in Reviewers :
       pc[r] \in {"reject", "lookup", "signoff"} /\ t \in read[r].denied => fired[t] = 0

OnceInv ==
  /\ record.held # NoTool => record.denied = {}
  /\ jobRead.denied = {}
  /\ job # "settled" =>
       record.denied = {} /\ \A r \in Reviewers : read[r].denied = {} /\ read[r].held = NoTool
  /\ \A r \in Reviewers :
       /\ pc[r] \in {"persist", "stamp"} => resumed[r].held = NoTool /\ resumed[r].denied = {}
       /\ pc[r] = "persist" => record.denied = {}
       /\ pc[r] = "reject" /\ read[r].held # NoTool => record = read[r]
  /\ crashes = 0 => \A t \in SideEffecting : Unfired(t)

\* Only a resume changes what was called.
LEMMA FiredStays ==
  ASSUME TypeOK, ToolAssumption, ReviewAssumption, [Next]_vars,
         \A r \in Reviewers : pc[r] # "resume"
  PROVE  fired' = fired
<1>1. \A t \in SideEffecting : fired'[t] = fired[t]
  BY FiringStep DEF Resume
<1>2. fired \in [SideEffecting -> 0..MaxFired] /\ fired' \in [SideEffecting -> 0..MaxFired]
  BY TypeStep DEF TypeOK
<1> QED
  BY <1>1, <1>2

LEMMA OnceStep ==
  ASSUME ToolAssumption, ReviewAssumption, OneReviewer, OneSideEffect,
         TypeOK, FreshInv, HeldInv, OnceInv, [Next]_vars
  PROVE  OnceInv'
<1> USE DEF OnceInv, jobVars, reviewerVars
<1>0. Blank.held = NoTool /\ Blank.denied = {}
  BY DEF Blank
<1>1. CASE StartJob
  <2>1. jobRead'.denied = {} /\ job # "settled" /\ job' # "settled"
    BY <1>1 DEF StartJob
  <2>2. UNCHANGED <<record, fired, reviewerVars, crashes>>
    BY <1>1 DEF StartJob
  <2>3. \A t : Unfired(t) => Unfired(t)'
    BY <2>1, <2>2 DEF Unfired
  <2> QED
    BY <2>1, <2>2, <2>3
<1>2. CASE MarkRunning
  <2>1. record'.held = NoTool /\ record'.denied = {}
    BY <1>2 DEF MarkRunning, TypeOK, RunRecord, FreshInv
  <2>2. jobRead'.denied = {} /\ job # "settled" /\ job' # "settled"
    BY <1>0, <1>2 DEF MarkRunning
  <2>3. UNCHANGED <<fired, reviewerVars, crashes>>
    BY <1>2 DEF MarkRunning
  <2>4. \A t : Unfired(t) => Unfired(t)'
    BY <2>1, <2>2, <2>3 DEF Unfired
  <2> QED
    BY <2>1, <2>2, <2>3, <2>4
<1>3. CASE RunJob
  <2>0. PICK known \in Registries :
          \E k \in KernelResults(grant, known, {}) : record' = FromKernel(k)
    BY <1>3 DEF RunJob
  <2>1. PICK k \in KernelResults(grant, known, {}) : record' = FromKernel(k)
    BY <2>0
  <2>2. record'.denied = {}
    BY <2>1, KernelHolds
  <2>3. job = "running" /\ job' = "settled" /\ UNCHANGED <<jobRead, reviewerVars, crashes>>
    BY <1>3 DEF RunJob
  <2>4. \A r \in Reviewers :
          /\ pc[r] \notin {"resume", "persist", "stamp"}
          /\ read[r].denied = {} /\ read[r].held = NoTool
    BY <2>3 DEF FreshInv
  <2>5. fired' = fired
    BY <2>4, FiredStays
  <2>6. \A t : Unfired(t) => Unfired(t)'
    BY <2>2, <2>3, <2>4, <2>5 DEF Unfired
  <2> QED
    BY <2>2, <2>3, <2>4, <2>6
<1>4. ASSUME NEW r \in Reviewers, Open(r, "reject") \/ Open(r, "lookup") PROVE OnceInv'
  <2>1. /\ UNCHANGED <<record, jobVars, fired, resumed, crashes>>
        /\ \A s \in Reviewers :
             s = r /\ pc[s] = "idle" /\ pc'[s] \in {"reject", "lookup"} /\ read'[s] = record
    BY <1>4 DEF Open, Goto, OneReviewer, TypeOK
  <2>2. \A t : Unfired(t) => Unfired(t)'
    BY <2>1 DEF Unfired
  <2> QED
    BY <2>1, <2>2 DEF FreshInv
<1>5. ASSUME NEW r \in Reviewers, LookupSpec(r) PROVE OnceInv'
  <2>1. /\ UNCHANGED <<record, jobVars, fired, read, resumed, crashes>>
        /\ \A s \in Reviewers : s = r /\ pc[s] = "lookup" /\ pc'[s] \in {"resume", "signoff"}
    BY <1>5 DEF LookupSpec, Goto, OneReviewer, TypeOK
  <2>2. \A t : Unfired(t) => Unfired(t)'
    BY <2>1 DEF Unfired
  <2> QED
    BY <2>1, <2>2
<1>6. ASSUME NEW r \in Reviewers, Resume(r) PROVE OnceInv'
  <2>0. PICK known \in Registries : \E k \in KernelResults(spec[r], known, Approves(r)) :
          resumed' = [resumed EXCEPT ![r] = FromKernel(k)] /\ Fire(k)
    BY <1>6 DEF Resume
  <2>1. PICK k \in KernelResults(spec[r], known, Approves(r)) :
          resumed' = [resumed EXCEPT ![r] = FromKernel(k)] /\ Fire(k)
    BY <2>0
  <2>2. /\ UNCHANGED <<record, jobVars, read, crashes>>
        /\ \A s \in Reviewers : s = r /\ pc[s] = "resume" /\ pc'[s] = "persist"
    BY <1>6 DEF Resume, Goto, OneReviewer, TypeOK
  <2>3. read[r].held # NoTool /\ record = read[r] /\ job = "settled"
    BY <2>2 DEF FreshInv
  <2>4. read[r].held \in SideEffecting
    BY <2>3, HeldToolsAreTools DEF HeldInv
  <2>5. resumed'[r].held = NoTool /\ resumed'[r].denied = {}
    <3>1. k.held = NoTool
      BY <2>4, KernelHolds DEF Approves, OneSideEffect
    <3> QED
      BY <2>1, <3>1, KernelHolds DEF TypeOK
  <2>6. record.denied = {}
    BY <2>3
  <2>7. ASSUME NEW t \in SideEffecting, Unfired(t) PROVE Unfired(t)'
    <3>1. fired[t] = 0
      BY <2>2, <2>3, <2>7 DEF Unfired
    <3>2. fired'[t] <= 1
      BY <2>1, <3>1 DEF Fire
    <3> QED
      BY <2>2, <2>3, <2>6, <3>2 DEF Unfired
  <2> QED
    BY <2>2, <2>3, <2>5, <2>6, <2>7
<1>7. ASSUME NEW r \in Reviewers, Persist(r) PROVE OnceInv'
  <2>1. /\ UNCHANGED <<jobVars, fired, read, resumed, crashes>>
        /\ \A s \in Reviewers : s = r /\ pc[s] = "persist" /\ pc'[s] = "stamp"
    BY <1>7 DEF Persist, Goto, OneReviewer, TypeOK
  <2>2. record'.held = NoTool /\ record'.denied = {} /\ job = "settled"
    BY <1>7, <2>1 DEF Persist, FreshInv
  <2>3. \A t : Unfired(t) => Unfired(t)'
    BY <2>1, <2>2 DEF Unfired
  <2> QED
    BY <2>1, <2>2, <2>3
<1>8. ASSUME NEW r \in Reviewers, Return(r), record'.held = NoTool, UNCHANGED <<jobVars, fired>>,
             UNCHANGED crashes, job # "settled" => record'.denied = {},
             ASSUME NEW t \in record'.denied, crashes = 0, Unfired(t) PROVE fired[t] = 0
      PROVE  OnceInv'
  <2>1. \A s \in Reviewers : pc'[s] = "idle" /\ read'[s] = Blank
    BY <1>8 DEF Return, Goto, OneReviewer, TypeOK
  <2>2. \A t : crashes = 0 /\ Unfired(t) => Unfired(t)'
    BY <1>8, <2>1 DEF Unfired
  <2> QED
    BY <1>0, <1>8, <2>1, <2>2
<1>9. ASSUME NEW r \in Reviewers, Reject(r) PROVE OnceInv'
  <2>1. /\ record'.held = NoTool
        /\ record'.denied = read[r].denied \cup ({read[r].held} \ {NoTool})
        /\ pc[r] = "reject" /\ UNCHANGED <<jobVars, fired, crashes>>
    BY <1>9 DEF Reject
  <2>2. ASSUME NEW t \in record'.denied, Unfired(t) PROVE fired[t] = 0
    <3>1. CASE t \in read[r].denied
      BY <2>1, <2>2, <3>1 DEF Unfired
    <3>2. CASE t = read[r].held /\ t # NoTool
      <4>1. record.held # NoTool
        BY <2>1, <3>2
      <4>2. \A s \in Reviewers : pc[s] # "persist"
        BY <2>1 DEF OneReviewer
      <4> QED
        BY <2>2, <4>1, <4>2 DEF Unfired
    <3> QED
      BY <2>1, <3>1, <3>2
  <2> QED
    BY <1>8, <1>9, <2>1, <2>2 DEF Reject
<1>10. ASSUME NEW r \in Reviewers, Stamp(r) PROVE OnceInv'
  <2>1. record'.held = NoTool /\ record'.denied = {}
    BY <1>10 DEF Stamp, Stamped, TypeOK, RunRecord
  <2> QED
    BY <1>8, <1>10, <2>1 DEF Stamp
<1>11. ASSUME NEW r \in Reviewers, SignOff(r) PROVE OnceInv'
  <2>1. record'.held = NoTool /\ record'.denied = read[r].denied /\ pc[r] = "signoff"
    BY <1>11 DEF SignOff, SignedOff, TypeOK, RunRecord
  <2>2. ASSUME NEW t \in record'.denied, Unfired(t) PROVE fired[t] = 0
    BY <2>1, <2>2 DEF Unfired
  <2> QED
    BY <1>8, <1>11, <2>1, <2>2 DEF SignOff
<1>12. ASSUME NEW r \in Reviewers, Crash(r) PROVE OnceInv'
  <2>1. \A s \in Reviewers : pc'[s] = "idle" /\ read'[s] = Blank
    BY <1>12 DEF Crash, Return, Goto, OneReviewer, TypeOK
  <2>2. crashes' # 0
    BY <1>12 DEF Crash, TypeOK, ReviewAssumption
  <2> QED
    BY <1>0, <1>12, <2>1, <2>2 DEF Crash
<1>13. CASE Undeploy \/ EditTools
  BY <1>13 DEF Undeploy, EditTools, Unfired
<1>14. CASE UNCHANGED vars
  BY <1>14 DEF vars, Unfired
<1> QED
  BY <1>1, <1>2, <1>3, <1>4, <1>5, <1>6, <1>7, <1>9, <1>10, <1>11, <1>12, <1>13, <1>14
  DEF Next, Worker, Resolve

LEMMA AlwaysOnce ==
  ASSUME OneReviewer, OneSideEffect
  PROVE  Spec => []OnceInv
<1>1. Init => FreshInv /\ OnceInv
  BY BlankType DEF Init, FreshInv, OnceInv, Unfired, Blank
<1>2. TypeOK /\ HeldInv /\ FreshInv /\ OnceInv /\ [Next]_vars => FreshInv' /\ OnceInv'
  BY FreshStep, OnceStep, OneReviewer, OneSideEffect, ToolAssumption, ReviewAssumption
<1> QED
  BY <1>1, <1>2, TypeCorrect, AlwaysHeld, PTL DEF Spec

\* With one reviewer, one side-effecting tool and no dying request, what the record says was
\* not executed was not: decided at whatever time, redecided, or overwritten by the worker.
THEOREM DeniedIsUnfired ==
  ASSUME OneReviewer, OneSideEffect
  PROVE  Spec => []DeniedNeverFired
<1>1. OnceInv => DeniedNeverFired
  BY DEF OnceInv, Unfired, DeniedNeverFired
<1> QED
  BY <1>1, AlwaysOnce, OneReviewer, OneSideEffect, PTL

\* Nor is it then carried out twice, with a model or without, although an approved or
\* rejected run may be approved again.
THEOREM FiredOnce ==
  ASSUME OneReviewer, OneSideEffect
  PROVE  Spec => []FiresOnce
<1>1. OnceInv => FiresOnce
  BY DEF OnceInv, Unfired, FiresOnce
<1> QED
  BY <1>1, AlwaysOnce, OneReviewer, OneSideEffect, PTL

=============================================================================
