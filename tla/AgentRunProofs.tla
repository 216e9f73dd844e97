--------------------------- MODULE AgentRunProofs ---------------------------
(***************************************************************************)
(* Theorems about AgentRun, for all agents, tools and allow-lists.         *)
(***************************************************************************)
EXTENDS AgentRun, FiniteSetTheorems, WellFoundedInduction, TLAPS

LEMMA GrantedAreTools ==
  ASSUME RunAssumption, NEW a \in Agents
  PROVE  Granted(a.grant) \subseteq Tools
<1>1. a.grant \in Seq(Tools)
  BY DEF RunAssumption, AgentSpec
<1> QED
  BY <1>1 DEF Granted

-----------------------------------------------------------------------------
(* Types. The calls of a turn are there while it is governed.              *)

Typed ==
  /\ TypeOK
  /\ pc = "calls" => calls # <<>>

LEMMA TypedInit ==
  ASSUME RunAssumption, ToolAssumption, Init
  PROVE  Typed
<1>1. spec.maxSteps \in Nat
  BY DEF Init, RunAssumption, AgentSpec
<1>2. PICK fs \in SUBSET {"pii", "injection"} :
        flags = [f \in Flag |-> IF f \in fs THEN 1 ELSE 0]
  BY DEF Init
<1>3. flags \in [Flag -> Nat]
  BY <1>2
<1>4. approved \subseteq Tools
  BY DEF Init
<1> QED
  BY <1>1, <1>3, <1>4 DEF Init, Typed, TypeOK, RunAssumption

LEMMA RaisedType ==
  ASSUME flags \in [Flag -> Nat], NEW fs
  PROVE  Raised(fs) \in [Flag -> Nat]
BY DEF Raised

LEMMA CallsType ==
  ASSUME RunAssumption, NEW n \in 1..MaxCalls, NEW c \in [1..n -> Tools \cup {Stranger}]
  PROVE  /\ c \in Seq(Tools \cup {Stranger})
         /\ Len(c) = n
         /\ c # <<>>
<1>1. n \in Nat /\ n <= MaxCalls
  BY DEF RunAssumption
<1> QED
  BY <1>1

LEMMA TypedStep ==
  ASSUME RunAssumption, ToolAssumption, Typed, [Next]_vars
  PROVE  Typed'
<1> USE DEF Typed, TypeOK
<1>0. spec.maxSteps \in Nat /\ MaxCalls \in Nat /\ Granted(spec.grant) \subseteq Tools
  BY GrantedAreTools DEF RunAssumption, AgentSpec
<1>1. CASE RunOut
  BY <1>1 DEF RunOut, params
<1>2. CASE TimeOut
  BY <1>0, <1>2, RaisedType DEF TimeOut, HasTurn, params
<1>3. CASE DecideTool
  <2>1. PICK i \in DOMAIN spec.grant : calls' = <<spec.grant[i]>>
    BY <1>3 DEF DecideTool
  <2>2. spec.grant[i] \in Tools
    BY <2>1, <1>0 DEF Granted
  <2>3. /\ calls' \in Seq(Tools \cup {Stranger})
        /\ Len(calls') = 1
        /\ calls' # <<>>
    BY <2>1, <2>2
  <2> QED
    BY <1>0, <1>3, <2>3 DEF DecideTool, HasTurn, params
<1>4. CASE DecideFinish
  BY <1>0, <1>4 DEF DecideFinish, HasTurn, params
<1>5. CASE ModelAnswers
  BY <1>0, <1>5 DEF ModelAnswers, HasTurn, params
<1>6. CASE ModelFails
  BY <1>0, <1>6, RaisedType DEF ModelFails, HasTurn, params
<1>7. CASE ModelCalls
  <2>1. PICK n \in 1..MaxCalls : calls' \in [1..n -> Tools \cup {Stranger}]
    BY <1>7 DEF ModelCalls
  <2>2. /\ calls' \in Seq(Tools \cup {Stranger})
        /\ Len(calls') <= MaxCalls + 1
        /\ calls' # <<>>
    BY <1>0, <2>1, CallsType
  <2> QED
    BY <1>0, <1>7, <2>2 DEF ModelCalls, HasTurn, params
<1>8. CASE Deny
  BY <1>0, <1>8, RaisedType DEF Deny, StopHere, params
<1>9. CASE Hold
  <2>1. Head(calls) \in Tools
    BY <1>0, <1>9 DEF Hold, Permitted, Usable
  <2> QED
    BY <1>0, <1>9, <2>1, RaisedType DEF Hold, StopHere, params
<1>10. ASSUME NEW o \in Outcome \ {"quarantined"}, Invoke(o) PROVE Typed'
  <2>1. Head(calls) \in Tools
    BY <1>0, <1>10 DEF Invoke, Permitted, Usable
  <2>2. Recorded(Head(calls), o) \in Outcome
    BY <1>10 DEF Recorded, Outcome
  <2>3. seen' \subseteq Tools \X Outcome
    BY <1>10, <2>1, <2>2 DEF Invoke
  <2>4. /\ calls' \in Seq(Tools \cup {Stranger})
        /\ Len(calls') <= MaxCalls + 1
        /\ pc' = "calls" => calls' # <<>>
    <3>1. calls # <<>> /\ calls' = Tail(calls)
      BY <1>10 DEF Invoke
    <3>2. Len(calls') = Len(calls) - 1 /\ calls' \in Seq(Tools \cup {Stranger})
      BY <3>1
    <3>3. pc' = "calls" => Len(calls) # 1
      BY <1>10 DEF Invoke
    <3>4. Len(calls) \in Nat /\ Len(calls) <= MaxCalls + 1
      OBVIOUS
    <3>5. Len(calls) # 1 => Len(calls') # 0
      BY <3>2, <3>4
    <3>6. calls' = <<>> => Len(calls') = 0
      OBVIOUS
    <3> QED
      BY <1>0, <3>2, <3>3, <3>4, <3>5, <3>6
  <2> QED
    BY <1>0, <1>10, <2>3, <2>4, RaisedType DEF Invoke, params
<1>11. CASE Seal
  <2>1. flags' \in [Flag -> Nat]
    BY <1>11, RaisedType DEF Seal
  <2>2. /\ status' \in {"success", "failed", "blocked", "needs_review"}
        /\ output' \in {"none", "answer", "composed", "error"}
    BY <1>11 DEF Seal
  <2> QED
    BY <1>11, <2>1, <2>2 DEF Seal, params
<1>12. CASE Score
  <2>1. flags' \in [Flag -> Nat]
    BY <1>12, RaisedType DEF Score
  <2> QED
    BY <1>12, <2>1 DEF Score, params
<1>13. CASE UNCHANGED vars
  BY <1>13 DEF vars, params
<1> QED
  BY <1>1, <1>2, <1>3, <1>4, <1>5, <1>6, <1>7, <1>8, <1>9, <1>10, <1>11, <1>12, <1>13
  DEF Next, Turn, Govern

\* The type invariant holds in every reachable state.
THEOREM TypeCorrect == Spec => []TypeOK
<1>1. Init => Typed
  BY TypedInit, RunAssumption, ToolAssumption
<1>2. Typed /\ [Next]_vars => Typed'
  BY TypedStep, RunAssumption, ToolAssumption
<1>3. Typed => TypeOK
  BY DEF Typed
<1> QED
  BY <1>1, <1>2, <1>3, PTL DEF Spec

LEMMA AlwaysTyped == Spec => []Typed
<1>1. Init => Typed
  BY TypedInit, RunAssumption, ToolAssumption
<1>2. Typed /\ [Next]_vars => Typed'
  BY TypedStep, RunAssumption, ToolAssumption
<1> QED
  BY <1>1, <1>2, PTL DEF Spec

-----------------------------------------------------------------------------
(* Governance. While the loop runs nothing is held; what is held afterwards *)
(* is a granted call that lacked approval.                                  *)

GovInv ==
  /\ RunIsGoverned
  /\ pc \in {"turn", "calls"} => pending = NoTool

LEMMA GovStep ==
  ASSUME RunAssumption, ToolAssumption, Typed, GovInv, [Next]_vars
  PROVE  GovInv'
<1> USE DEF GovInv, RunIsGoverned, Governed, Result, Called
<1>0. UNCHANGED <<spec, approved>> /\ NoTool \notin Tools
  BY DEF Next, Turn, Govern, RunOut, TimeOut, DecideTool, DecideFinish, ModelAnswers,
     ModelFails, ModelCalls, Deny, Hold, Invoke, Seal, Score, vars, params, ToolAssumption
<1>1. CASE Turn
  <2>1. seen' = seen /\ pending' = pending /\ pending = NoTool
    BY <1>1 DEF Turn, RunOut, TimeOut, DecideTool, DecideFinish, ModelAnswers,
       ModelFails, ModelCalls
  <2> QED
    BY <1>0, <2>1
<1>2. CASE Deny
  BY <1>0, <1>2 DEF Deny, StopHere
<1>3. CASE Hold
  <2>1. /\ pending' \in Granted(spec.grant)
        /\ Gated(pending', approved)
        /\ seen' = seen /\ status' = "needs_review" /\ pc' = "seal"
    BY <1>3 DEF Hold, StopHere, Permitted, Usable, NeedsApproval
  <2> QED
    BY <1>0, <2>1
<1>4. ASSUME NEW o \in Outcome \ {"quarantined"}, Invoke(o) PROVE GovInv'
  <2>1. /\ Head(calls) \in Granted(spec.grant)
        /\ ~Gated(Head(calls), approved)
        /\ pending' = pending /\ pending = NoTool
    BY <1>4 DEF Invoke, Permitted, Usable, NeedsApproval
  <2>2. \A p \in seen' : p \in seen \/ p[1] = Head(calls)
    BY <1>4 DEF Invoke
  <2> QED
    BY <1>0, <2>1, <2>2
<1>5. CASE Seal
  <2>1. seen' = seen /\ pending' = pending /\ pc' = "score"
    BY <1>5 DEF Seal
  <2>2. status \in {"needs_review", "blocked"} => status' \in {"needs_review", "blocked"}
    BY <1>5 DEF Seal
  <2> QED
    BY <1>0, <2>1, <2>2
<1>6. CASE Score
  <2>1. seen' = seen /\ pending' = pending /\ pc' = "done"
    BY <1>6 DEF Score
  <2>2. status \in {"needs_review", "blocked"} => status' = status
    BY <1>6 DEF Score
  <2> QED
    BY <1>0, <2>1, <2>2
<1>7. CASE UNCHANGED vars
  BY <1>7 DEF vars, params
<1> QED
  BY <1>1, <1>2, <1>3, <1>4, <1>5, <1>6, <1>7 DEF Next, Govern

\* Only granted tools are called, side-effecting ones only with approval, and a
\* held action is a granted call that lacks it: for every agent, every approval
\* and everything a model may ask for.
THEOREM RunsAreGoverned == Spec => []RunIsGoverned
<1>1. Init => GovInv
  BY DEF Init, GovInv, RunIsGoverned, Governed, Result, Called
<1>2. Typed /\ GovInv /\ [Next]_vars => GovInv'
  BY GovStep, RunAssumption, ToolAssumption
<1>3. GovInv => RunIsGoverned
  BY DEF GovInv
<1> QED
  BY <1>1, <1>2, <1>3, AlwaysTyped, PTL DEF Spec

-----------------------------------------------------------------------------
(* The gate ends tool use: the loop is left with the call that met it.     *)

GateInv ==
  pending # NoTool \/ flags["unauthorized"] > 0 => pc \in {"seal", "score", "done"}

LEMMA GateStep ==
  ASSUME Typed, GateInv, [Next]_vars
  PROVE  GateInv'
<1> USE DEF GateInv
<1>0. \A f \in Flag : flags[f] \in Nat
  BY DEF Typed, TypeOK
<1>1. CASE RunOut \/ DecideTool \/ DecideFinish \/ ModelAnswers \/ ModelCalls
  BY <1>1 DEF RunOut, DecideTool, DecideFinish, ModelAnswers, ModelCalls
<1>2. CASE TimeOut \/ ModelFails \/ Deny \/ Hold \/ Seal \/ Score
  BY <1>2 DEF TimeOut, ModelFails, Deny, Hold, StopHere, Seal, Score
<1>3. ASSUME NEW o \in Outcome \ {"quarantined"}, Invoke(o) PROVE GateInv'
  <2>1. "unauthorized" \notin FlagsOf(Recorded(Head(calls), o))
    BY DEF FlagsOf
  <2>2. flags'["unauthorized"] = flags["unauthorized"]
    BY <1>0, <1>3, <2>1 DEF Invoke, Raised, Flag
  <2> QED
    BY <1>3, <2>2 DEF Invoke
<1>4. CASE UNCHANGED vars
  BY <1>4 DEF vars
<1> QED
  BY <1>1, <1>2, <1>3, <1>4 DEF Next, Turn, Govern

\* After a denied or held call no tool is called any more.
THEOREM GateEndsToolUse == Spec => StopsAtGate
<1>1. Init => GateInv
  <2>1. Init => pending = NoTool /\ flags["unauthorized"] = 0
    BY DEF Init, Flag
  <2> QED
    BY <2>1 DEF GateInv
<1>2. Typed /\ GateInv /\ [Next]_vars => GateInv'
  BY GateStep
<1>3. GateInv /\ [Next]_vars
        => [pending # NoTool \/ flags["unauthorized"] > 0 => seen' = seen]_vars
  <2> SUFFICES ASSUME GateInv, [Next]_vars, pc \in {"seal", "score", "done"}
               PROVE  seen' = seen \/ UNCHANGED vars
    BY DEF GateInv
  <2> QED
    BY DEF Next, Turn, Govern, RunOut, TimeOut, DecideTool, DecideFinish, ModelAnswers,
       ModelFails, ModelCalls, Deny, Hold, Invoke, Seal, Score
<1> QED
  BY <1>1, <1>2, <1>3, AlwaysTyped, PTL DEF Spec, StopsAtGate

-----------------------------------------------------------------------------
(* The status. "success" means that nothing went wrong so far; an           *)
(* unavailable source leaves its flag, which Seal turns into a failure.    *)

Troubles == {"unauthorized", "side_effect", "budget_exceeded", "compliance_block",
             "llm_unavailable"}

CleanInv ==
  /\ pc \in {"turn", "calls"} => status = "success"
  /\ status = "success" => pending = NoTool /\ \A f \in Troubles : flags[f] = 0
  /\ pc \in {"score", "done"} /\ status = "success" =>
       ~spec.review /\ \A o \in seen : o[2] # "hit"

LEMMA TroublesAreFlags == Troubles \subseteq Flag
BY DEF Troubles, Flag

LEMMA CleanStep ==
  ASSUME Typed, CleanInv, [Next]_vars
  PROVE  CleanInv'
<1> USE DEF CleanInv
<1>0. \A f \in Troubles : f \in Flag
  BY TroublesAreFlags
<1>1. CASE RunOut \/ DecideTool \/ DecideFinish \/ ModelAnswers \/ ModelCalls
  BY <1>1 DEF RunOut, DecideTool, DecideFinish, ModelAnswers, ModelCalls, params
<1>2. CASE TimeOut \/ ModelFails \/ Deny \/ Hold
  BY <1>2 DEF TimeOut, ModelFails, Deny, Hold, StopHere
<1>3. ASSUME NEW o \in Outcome \ {"quarantined"}, Invoke(o) PROVE CleanInv'
  <2>1. FlagsOf(Recorded(Head(calls), o)) \cap Troubles = {}
    BY DEF FlagsOf, Troubles
  <2>2. \A f \in Troubles : flags'[f] = flags[f]
    BY <1>0, <1>3, <2>1 DEF Invoke, Raised, Typed, TypeOK
  <2> QED
    BY <1>3, <2>2 DEF Invoke, params
<1>4. CASE Seal
  <2>1. PICK verdict \in Verdicts :
          LET hardFail == status = "success" /\ DegradedIsFatal
              afterFail == IF hardFail THEN "failed" ELSE status
              judged == IF verdict = "BLOCK" THEN "blocked" ELSE afterFail
              toHuman == spec.review /\ judged = "success"
          IN /\ status' = IF toHuman THEN "needs_review" ELSE judged
             /\ flags' = Raised(
                  (IF hardFail THEN {"hard_fail"} ELSE {}) \cup
                  (CASE verdict = "BLOCK" -> {"compliance_block"}
                     [] verdict = "ANNOTATE" -> {"compliance_annotate"}
                     [] OTHER -> {}) \cup
                  (IF toHuman THEN {"agent_requires_review"} ELSE {}))
    BY <1>4 DEF Seal
  <2>2. /\ UNCHANGED <<spec, seen, pending>>
        /\ pc' = "score"
    BY <1>4 DEF Seal, params
  <2>3. SUFFICES ASSUME status' = "success"
                 PROVE  /\ status = "success" /\ verdict # "BLOCK" /\ ~spec.review
                        /\ \A f \in Troubles : flags'[f] = flags[f]
    <3>1. verdict # "BLOCK" => \A o \in seen : o[2] # "hit"
      BY DEF Verdicts
    <3> QED
      BY <2>2, <2>3, <3>1
  <2>4. status = "success" /\ verdict # "BLOCK" /\ ~spec.review
    BY <2>1, <2>3
  <2>5. flags' = Raised(IF verdict = "ANNOTATE" THEN {"compliance_annotate"} ELSE {})
    BY <2>1, <2>3, <2>4
  <2>6. \A f \in Troubles : flags'[f] = flags[f]
    BY <1>0, <2>5 DEF Raised, Troubles, Typed, TypeOK
  <2> QED
    BY <2>4, <2>6
<1>5. CASE Score
  BY <1>5 DEF Score, params
<1>6. CASE UNCHANGED vars
  BY <1>6 DEF vars, params
<1> QED
  BY <1>1, <1>2, <1>3, <1>4, <1>5, <1>6 DEF Next, Turn, Govern

\* A run that ends with "success" was not denied, held, cut short or blocked,
\* saw no sanctions hit, and its agent needs no review.
THEOREM SuccessesAreClean == Spec => []SuccessIsClean
<1>1. Init => CleanInv
  BY DEF Init, CleanInv, Troubles, Flag
<1>2. Typed /\ CleanInv /\ [Next]_vars => CleanInv'
  BY CleanStep
<1>3. CleanInv => SuccessIsClean
  BY DEF CleanInv, SuccessIsClean, Troubles
<1> QED
  BY <1>1, <1>2, <1>3, AlwaysTyped, PTL DEF Spec

DegradedInv ==
  /\ (\E o \in seen : o[2] = "unavailable") => flags["source_degraded"] > 0
  /\ pc = "seal" /\ status = "needs_review" => pending # NoTool
  /\ pc \in {"score", "done"} /\ flags["source_degraded"] > 0 /\ ~spec.icp
       => status \in {"failed", "blocked"} \/ pending # NoTool

LEMMA DegradedStep ==
  ASSUME ToolAssumption, RunAssumption, Typed, CleanInv, GovInv, DegradedInv, [Next]_vars
  PROVE  DegradedInv'
<1> USE DEF DegradedInv
<1>0. /\ \A f \in Flag : flags[f] \in Nat
      /\ "source_degraded" \in Flag
      /\ pc \in {"turn", "calls"} => status = "success"
  BY DEF Typed, TypeOK, Flag, CleanInv
<1>1. CASE RunOut \/ DecideTool \/ DecideFinish \/ ModelAnswers \/ ModelCalls
  BY <1>0, <1>1 DEF RunOut, DecideTool, DecideFinish, ModelAnswers, ModelCalls, params
<1>2. CASE TimeOut \/ ModelFails \/ Deny
  <2>1. flags'["source_degraded"] = flags["source_degraded"]
    BY <1>0, <1>2 DEF TimeOut, ModelFails, Deny, Raised
  <2> QED
    BY <1>0, <1>2, <2>1 DEF TimeOut, ModelFails, Deny, StopHere, params
<1>3. CASE Hold
  <2>1. flags'["source_degraded"] = flags["source_degraded"]
    BY <1>0, <1>3 DEF Hold, Raised
  <2>2. pending' # NoTool
    <3>1. Head(calls) \in Tools
      BY <1>3, GrantedAreTools DEF Hold, Permitted, Usable, Typed, TypeOK
    <3> QED
      BY <1>3, <3>1 DEF Hold, ToolAssumption
  <2> QED
    BY <1>3, <2>1, <2>2 DEF Hold, StopHere, params
<1>4. ASSUME NEW o \in Outcome \ {"quarantined"}, Invoke(o) PROVE DegradedInv'
  <2> DEFINE out == Recorded(Head(calls), o)
  <2>1. seen' = seen \cup {<<Head(calls), out>>} /\ flags' = Raised(FlagsOf(out))
    BY <1>4 DEF Invoke
  <2>2. flags["source_degraded"] > 0 => flags'["source_degraded"] > 0
    BY <1>0, <2>1 DEF Raised
  <2>3. out = "unavailable" => flags'["source_degraded"] > 0
    BY <1>0, <2>1 DEF Raised, FlagsOf
  <2>4. pc' \in {"turn", "calls"}
    BY <1>4 DEF Invoke
  <2> QED
    BY <2>1, <2>2, <2>3, <2>4
<1>5. CASE Seal
  <2>1. \E fs : flags' = Raised(fs) /\ "source_degraded" \notin fs
    BY <1>5 DEF Seal
  <2>2. flags'["source_degraded"] = flags["source_degraded"]
    BY <1>0, <2>1 DEF Raised
  <2>3. UNCHANGED <<spec, seen, pending>> /\ pc' = "score"
    BY <1>5 DEF Seal, params
  <2>4. flags["source_degraded"] > 0 /\ ~spec.icp /\ status = "success"
          => status' \in {"failed", "blocked"}
    BY <1>5 DEF Seal, DegradedIsFatal
  <2>5. status \in {"failed", "blocked"} => status' \in {"failed", "blocked"}
    BY <1>5 DEF Seal
  <2>6. /\ status \in {"success", "failed", "blocked", "needs_review"}
        /\ status = "needs_review" => pending # NoTool
    BY <1>5 DEF Seal, Typed, TypeOK
  <2> QED
    BY <2>2, <2>3, <2>4, <2>5, <2>6
<1>6. CASE Score
  <2>1. flags'["source_degraded"] = flags["source_degraded"]
    BY <1>0, <1>6 DEF Score, Raised
  <2> QED
    BY <1>6, <2>1 DEF Score, params
<1>7. CASE UNCHANGED vars
  BY <1>7 DEF vars, params
<1> QED
  BY <1>1, <1>2, <1>3, <1>4, <1>5, <1>6, <1>7 DEF Next, Turn, Govern

\* A run with an unavailable source fails or is blocked, unless it is an ICP
\* agent's or waits for the approval of a held action.
THEOREM DegradedRunsFail == Spec => []DegradedIsNoResult
<1>1. Init => GovInv /\ CleanInv /\ DegradedInv
  BY DEF Init, GovInv, RunIsGoverned, Governed, Result, Called, CleanInv, Troubles, Flag,
     DegradedInv
<1>2. Typed /\ GovInv /\ CleanInv /\ DegradedInv /\ [Next]_vars
        => GovInv' /\ CleanInv' /\ DegradedInv'
  BY GovStep, CleanStep, DegradedStep, RunAssumption, ToolAssumption
<1>3. DegradedInv => DegradedIsNoResult
  BY DEF DegradedInv, DegradedIsNoResult
<1> QED
  BY <1>1, <1>2, <1>3, AlwaysTyped, PTL DEF Spec

-----------------------------------------------------------------------------
(* The risk score. An injection flag is raised for every quarantined        *)
(* observation, and a score below 60 leaves room for one of them at most.  *)

Quarantined == {o \in seen : o[2] = "quarantined"}

RiskInv ==
  /\ IsFiniteSet(Quarantined)
  /\ Cardinality(Quarantined) <= flags["injection"]
  /\ pc = "done" /\ status = "success" =>
       /\ flags["injection"] <= 1
       /\ spec.risk = "high" => flags["injection"] = 0 /\ flags["pii"] = 0

LEMMA ScoreParts ==
  ASSUME RunAssumption, Typed
  PROVE  /\ RiskScore \in Int
         /\ RiskScore < 60 => /\ flags["injection"] <= 1
                              /\ spec.risk = "high" => flags["injection"] = 0 /\ flags["pii"] = 0
<1> DEFINE base == CASE spec.risk = "low" -> 10 [] spec.risk = "medium" -> 25 [] OTHER -> 45
           se == flags["side_effect"]
           un == flags["unauthorized"]
           cb == flags["compliance_block"]
           inj == flags["injection"]
           pii == flags["pii"]
           te == flags["tool_error"]
           ar == flags["agent_requires_review"]
           be == flags["budget_exceeded"]
           sum == base + 35 * se + 40 * un + 40 * cb + 30 * inj + 15 * pii + 10 * te
                    + 20 * ar + 25 * be
<1>1. /\ se \in Nat /\ un \in Nat /\ cb \in Nat /\ inj \in Nat
      /\ pii \in Nat /\ te \in Nat /\ ar \in Nat /\ be \in Nat
  BY DEF Typed, TypeOK, Flag
<1>2. base \in Nat /\ base >= 10 /\ (spec.risk = "high" => base = 45)
  OBVIOUS
<1>3. RiskScore = IF sum > 100 THEN 100 ELSE sum
  BY DEF RiskScore
<1> HIDE DEF base, se, un, cb, inj, pii, te, ar, be
<1>4. sum \in Int /\ sum >= base + 30 * inj + 15 * pii
  BY <1>1, <1>2
<1>5. RiskScore \in Int /\ (RiskScore < 60 => sum < 60)
  <2> HIDE DEF sum
  <2> QED
    BY <1>3, <1>4
<1>6. sum < 60 => base + 30 * inj + 15 * pii < 60
  <2> HIDE DEF sum
  <2> QED
    BY <1>1, <1>2, <1>4
<1>7. sum < 60 => inj <= 1 /\ (base = 45 => inj = 0 /\ pii = 0)
  <2> HIDE DEF sum
  <2> QED
    BY <1>1, <1>2, <1>6
<1> HIDE DEF sum
<1> QED
  BY <1>2, <1>5, <1>7 DEF inj, pii

LEMMA RiskStep ==
  ASSUME RunAssumption, Typed, RiskInv, [Next]_vars
  PROVE  RiskInv'
<1> USE DEF RiskInv
<1>0. \A f \in Flag : flags[f] \in Nat
  BY DEF Typed, TypeOK
<1>1. CASE RunOut \/ DecideTool \/ DecideFinish \/ ModelAnswers \/ ModelCalls
  BY <1>1 DEF RunOut, DecideTool, DecideFinish, ModelAnswers, ModelCalls, Quarantined
<1>2. ASSUME seen' = seen, pc' \in {"seal", "score"}, NEW fs, flags' = Raised(fs)
      PROVE  RiskInv'
  <2>1. Quarantined' = Quarantined
    BY <1>2 DEF Quarantined
  <2>2. "injection" \in Flag /\ flags'["injection"] >= flags["injection"]
    BY <1>0, <1>2 DEF Raised, Flag
  <2>3. flags["injection"] \in Nat /\ flags'["injection"] \in Nat
    BY <1>0, <1>2, <2>2 DEF Raised
  <2>4. Cardinality(Quarantined) \in Nat
    BY FS_CardinalityType
  <2> QED
    BY <1>2, <2>1, <2>2, <2>3, <2>4
<1>3. CASE TimeOut \/ ModelFails \/ Deny \/ Hold
  BY <1>2, <1>3 DEF TimeOut, ModelFails, Deny, Hold, StopHere
<1>4. CASE Seal
  <2>1. \E fs : flags' = Raised(fs)
    BY <1>4 DEF Seal
  <2> QED
    BY <1>2, <1>4, <2>1 DEF Seal
<1>5. ASSUME NEW o \in Outcome \ {"quarantined"}, Invoke(o) PROVE RiskInv'
  <2> DEFINE out == Recorded(Head(calls), o)
             call == <<Head(calls), out>>
  <2>1. seen' = seen \cup {call} /\ flags' = Raised(FlagsOf(out))
    BY <1>5 DEF Invoke
  <2>2. pc' \in {"turn", "calls"}
    BY <1>5 DEF Invoke
  <2>3. "injection" \in Flag /\ flags["injection"] \in Nat
    BY <1>0 DEF Flag
  <2>4. Cardinality(Quarantined) \in Nat
    BY FS_CardinalityType
  <2>5. CASE out = "quarantined"
    <3>1. Quarantined' = Quarantined \cup {call}
      BY <2>1, <2>5 DEF Quarantined
    <3>2. /\ IsFiniteSet(Quarantined \cup {call})
          /\ Cardinality(Quarantined \cup {call}) <= Cardinality(Quarantined) + 1
      <4> HIDE DEF out, call
      <4>1. /\ IsFiniteSet(Quarantined \cup {call})
            /\ Cardinality(Quarantined \cup {call}) =
                 IF call \in Quarantined THEN Cardinality(Quarantined)
                 ELSE Cardinality(Quarantined) + 1
        BY FS_AddElement
      <4> QED
        BY <2>4, <4>1
    <3>3. flags'["injection"] = flags["injection"] + 1
      BY <2>1, <2>3, <2>5 DEF Raised, FlagsOf
    <3>4. Cardinality(Quarantined \cup {call}) \in Nat
      BY <3>2, FS_CardinalityType
    <3> QED
      BY <2>2, <2>3, <2>4, <3>1, <3>2, <3>3, <3>4
  <2>6. CASE out # "quarantined"
    <3>1. Quarantined' = Quarantined
      BY <2>1, <2>6 DEF Quarantined
    <3>2. flags'["injection"] = flags["injection"]
      BY <2>1, <2>3, <2>6 DEF Raised, FlagsOf
    <3> QED
      BY <2>2, <3>1, <3>2
  <2> QED
    BY <2>5, <2>6
<1>6. CASE Score
  <2>1. Quarantined' = Quarantined /\ spec' = spec
    BY <1>6 DEF Score, Quarantined, params
  <2>2. "injection" \in Flag /\ "pii" \in Flag
    BY DEF Flag
  <2>3. flags'["injection"] = flags["injection"] /\ flags'["pii"] = flags["pii"]
    BY <1>0, <1>6, <2>2 DEF Score, Raised
  <2>4. status' = "success" => RiskScore < 60
    BY <1>6, ScoreParts DEF Score
  <2> QED
    BY <2>1, <2>3, <2>4, ScoreParts
<1>7. CASE UNCHANGED vars
  BY <1>7 DEF vars, params, Quarantined
<1> QED
  BY <1>1, <1>3, <1>4, <1>5, <1>6, <1>7 DEF Next, Turn, Govern

LEMMA RiskInit == ASSUME Init PROVE RiskInv
<1>1. seen = {} /\ pc = "turn"
  BY DEF Init
<1>2. flags["injection"] \in Nat
  BY DEF Init, Flag
<1>3. Quarantined = {}
  BY <1>1 DEF Quarantined
<1> QED
  BY <1>1, <1>2, <1>3, FS_EmptySet DEF RiskInv

\* Two quarantined results rule out plain success, for a high-risk agent one does or
\* personal data in its input: however the flags were raised and in whatever order.
THEOREM RiskIsReviewed == Spec => []RiskyIsReviewed
<1>1. Init => RiskInv
  BY RiskInit
<1>2. Typed /\ RiskInv /\ [Next]_vars => RiskInv'
  BY RiskStep, RunAssumption
<1>3. Typed /\ RiskInv => RiskyIsReviewed
  <2> SUFFICES ASSUME Typed, RiskInv, pc = "done", status = "success"
               PROVE  /\ Cardinality(Quarantined) <= 1
                      /\ spec.risk = "high" => flags["pii"] = 0 /\ Quarantined = {}
    BY DEF RiskyIsReviewed, Quarantined
  <2>1. /\ flags["injection"] \in Nat
        /\ Cardinality(Quarantined) \in Nat
    BY FS_CardinalityType DEF Typed, TypeOK, Flag, RiskInv
  <2>2. Cardinality(Quarantined) = 0 => Quarantined = {}
    BY FS_EmptySet DEF RiskInv
  <2> QED
    BY <2>1, <2>2 DEF RiskInv
<1> QED
  BY <1>1, <1>2, <1>3, AlwaysTyped, PTL DEF Spec

-----------------------------------------------------------------------------
(* The rules engine. What it called is the part of the allow-list before    *)
(* some place, the call under way is the first one missing, and every turn *)
(* but the last called one more tool.                                      *)

Offered == Granted(spec.grant) \cap Registered

RulesInv ==
  mode = "rules" =>
    /\ InOrder(spec.grant, Registered, Result)
    /\ IsFiniteSet(Called)
    /\ pc = "turn" => Cardinality(Called) = turns
    /\ pc = "calls" =>
         /\ turns = Cardinality(Called) + 1
         /\ \E i \in DOMAIN spec.grant : NextTool(i) /\ calls = <<spec.grant[i]>>
    /\ pc \in {"seal", "score", "done"} /\ status = "success"
         /\ Cardinality(Offered) <= spec.maxSteps => Called = Offered

\* What comes before the next tool is what was called.
LEMMA CalledBeforeNext ==
  ASSUME Typed, RunAssumption, InOrder(spec.grant, Registered, Result),
         NEW i \in DOMAIN spec.grant, NextTool(i)
  PROVE  /\ i - 1 \in 0..Len(spec.grant)
         /\ Called = {spec.grant[k] : k \in 1..(i - 1)} \cap Registered
<1> DEFINE g == spec.grant
<1>1. g \in Seq(Tools)
  BY DEF Typed, TypeOK, RunAssumption, AgentSpec
<1>2. i \in 1..Len(g)
  BY <1>1
<1>3. PICK n \in 0..Len(g) : Called = {g[k] : k \in 1..n} \cap Registered
  BY DEF InOrder, Result
<1>4. \A k \in 1..(i - 1) : g[k] \in Granted(g)
  BY <1>1, <1>2 DEF Granted
<1>5. {g[k] : k \in 1..(i - 1)} \cap Registered \subseteq Called
  BY <1>4 DEF NextTool, Usable
<1>6. n < i
  <2> SUFFICES ASSUME i <= n PROVE FALSE
    BY <1>1, <1>2, <1>3
  <2>1. i \in 1..n
    BY <1>2
  <2>2. g[i] \in Called
    BY <1>3, <2>1 DEF NextTool, Usable
  <2> QED
    BY <2>2 DEF NextTool
<1>7. 1..n \subseteq 1..(i - 1)
  BY <1>2, <1>3, <1>6
<1> QED
  BY <1>1, <1>2, <1>3, <1>5, <1>7

\* There is a next tool as long as one that may be called was not.
LEMMA NextToolExists ==
  ASSUME Typed, RunAssumption, NEW t, Usable(t), t \notin Called
  PROVE  \E i \in DOMAIN spec.grant : NextTool(i)
<1> DEFINE g == spec.grant
           Missing == {i \in DOMAIN g : Usable(g[i]) /\ g[i] \notin Called}
<1>1. g \in Seq(Tools)
  BY DEF Typed, TypeOK, RunAssumption, AgentSpec
<1>2. Missing \subseteq Nat /\ Missing # {}
  BY <1>1 DEF Usable, Granted
<1>3. PICK i \in Missing : \A k \in Missing : <<k, i>> \notin OpToRel(<, Nat)
  BY <1>2, NatLessThanWellFounded, WFMin
<1>4. \A k \in Missing : ~(k < i)
  BY <1>2, <1>3 DEF OpToRel
<1>5. \A k \in 1..(i - 1) : k \in DOMAIN g /\ k < i
  BY <1>1
<1>6. \A k \in 1..(i - 1) : Usable(g[k]) => g[k] \in Called
  BY <1>4, <1>5
<1> QED
  BY <1>6 DEF NextTool

LEMMA CalledAreOffered ==
  ASSUME GovInv, InOrder(spec.grant, Registered, Result)
  PROVE  Called \subseteq Offered
BY DEF GovInv, RunIsGoverned, Governed, InOrder, Result, Offered

LEMMA OfferedFinite ==
  ASSUME Typed, RunAssumption
  PROVE  IsFiniteSet(Offered)
<1>1. spec.grant \in Seq(Tools)
  BY DEF Typed, TypeOK, RunAssumption, AgentSpec
<1>2. IsFiniteSet(1..Len(spec.grant))
  BY <1>1, FS_Interval
<1>3. DOMAIN spec.grant = 1..Len(spec.grant)
  BY <1>1
<1>4. Granted(spec.grant) = {spec.grant[i] : i \in 1..Len(spec.grant)}
  BY <1>3 DEF Granted
<1>5. spec.grant \in Surjection(1..Len(spec.grant), Granted(spec.grant))
  BY <1>1, <1>3, <1>4 DEF Surjection
<1>6. IsFiniteSet(Granted(spec.grant))
  BY <1>2, <1>5, FS_Surjection
<1> QED
  BY <1>6, FS_Subset DEF Offered

LEMMA RulesStep ==
  ASSUME RunAssumption, ToolAssumption, Typed, GovInv, RulesInv, [Next]_vars
  PROVE  RulesInv'
<1> SUFFICES ASSUME mode = "rules" PROVE RulesInv'
  BY DEF RulesInv, Next, Turn, Govern, RunOut, TimeOut, DecideTool, DecideFinish,
     ModelAnswers, ModelFails, ModelCalls, Deny, Hold, Invoke, Seal, Score, vars, params
<1>0. /\ InOrder(spec.grant, Registered, Result) /\ IsFiniteSet(Called)
      /\ spec' = spec
      /\ pc = "turn" => Cardinality(Called) = turns
      /\ turns \in Nat /\ spec.maxSteps \in Nat /\ turns <= spec.maxSteps
      /\ Cardinality(Called) \in Nat /\ Cardinality(Offered) \in Nat
      /\ Called \subseteq Offered /\ IsFiniteSet(Offered)
  <2>1. InOrder(spec.grant, Registered, Result) /\ IsFiniteSet(Called)
    BY DEF RulesInv
  <2>2. spec' = spec
    BY DEF Next, Turn, Govern, RunOut, TimeOut, DecideTool, DecideFinish,
       ModelAnswers, ModelFails, ModelCalls, Deny, Hold, Invoke, Seal, Score, vars, params
  <2>3. turns \in 0..spec.maxSteps /\ spec.maxSteps \in Nat
    BY DEF Typed, TypeOK, RunAssumption, AgentSpec
  <2> QED
    BY <2>1, <2>2, <2>3, CalledAreOffered, OfferedFinite, FS_CardinalityType DEF RulesInv
<1>1. ASSUME seen' = seen, pending' = pending
      PROVE  /\ InOrder(spec.grant, Registered, Result)'
             /\ Called' = Called /\ Offered' = Offered
  <2>1. Called' = Called /\ Offered' = Offered
    BY <1>0, <1>1 DEF Called, Offered
  <2>2. Result'.did = Result.did /\ Result'.held = Result.held
    BY <1>1, <2>1 DEF Result
  <2>3. PICK n \in 0..Len(spec.grant) :
          /\ Result.did = {spec.grant[i] : i \in 1..n} \cap Registered
          /\ Result.held # NoTool => n < Len(spec.grant) /\ Result.held = spec.grant[n + 1]
    BY <1>0 DEF InOrder
  <2>4. InOrder(spec.grant, Registered, Result)'
    <3>1. Result'.did = {spec.grant[i] : i \in 1..n} \cap Registered
      BY <2>2, <2>3
    <3>2. Result'.held # NoTool => n < Len(spec.grant) /\ Result'.held = spec.grant[n + 1]
      BY <2>2, <2>3
    <3> QED
      BY <1>0, <3>1, <3>2 DEF InOrder
  <2> QED
    BY <2>1, <2>4
<1>2. CASE RunOut
  <2>1. turns = spec.maxSteps
    BY <1>0, <1>2 DEF RunOut, HasTurn
  <2>2. Cardinality(Offered) <= spec.maxSteps => Called = Offered
    BY <1>0, <1>2, <2>1, FS_Subset DEF RunOut
  <2> QED
    BY <1>0, <1>1, <1>2, <2>2 DEF RunOut, RulesInv
<1>3. CASE TimeOut
  BY <1>0, <1>1, <1>3 DEF TimeOut, RulesInv
<1>4. CASE DecideTool
  <2>1. PICK i \in DOMAIN spec.grant : NextTool(i) /\ calls' = <<spec.grant[i]>>
    BY <1>4 DEF DecideTool
  <2>2. /\ InOrder(spec.grant, Registered, Result)' /\ Called' = Called
        /\ turns' = Cardinality(Called) + 1 /\ pc' = "calls"
    BY <1>0, <1>1, <1>4 DEF DecideTool
  <2>3. \E k \in DOMAIN spec'.grant : NextTool(k)' /\ calls' = <<spec'.grant[k]>>
    BY <1>0, <2>1, <2>2 DEF NextTool, Usable
  <2> QED
    BY <1>0, <2>2, <2>3 DEF RulesInv
<1>5. CASE DecideFinish
  <2>1. \A i \in DOMAIN spec.grant : ~NextTool(i)
    BY <1>5 DEF DecideFinish
  <2>2. \A t : Usable(t) => t \in Called
    BY <2>1, NextToolExists
  <2>3. Called = Offered
    BY <1>0, <2>2 DEF Offered, Usable
  <2> QED
    BY <1>0, <1>1, <1>5, <2>3 DEF DecideFinish, RulesInv
<1>6. CASE ModelAnswers \/ ModelFails \/ ModelCalls
  BY <1>6 DEF ModelAnswers, ModelFails, ModelCalls
<1>7. CASE Deny
  BY <1>0, <1>1, <1>7 DEF Deny, StopHere, RulesInv
<1>8. CASE Hold
  <2>1. PICK i \in DOMAIN spec.grant : NextTool(i) /\ calls = <<spec.grant[i]>>
    BY <1>8 DEF Hold, RulesInv
  <2>2. /\ i - 1 \in 0..Len(spec.grant)
        /\ Called = {spec.grant[k] : k \in 1..(i - 1)} \cap Registered
    BY <1>0, <2>1, CalledBeforeNext
  <2>3. Called' = Called /\ pending' = spec.grant[i] /\ i \in 1..Len(spec.grant)
    <3>1. spec.grant \in Seq(Tools)
      BY DEF Typed, TypeOK, RunAssumption, AgentSpec
    <3> QED
      BY <1>8, <2>1, <3>1 DEF Hold, Called
  <2>4. InOrder(spec.grant, Registered, Result)'
    <3> DEFINE n == i - 1
    <3>1. n \in 0..Len(spec.grant) /\ n < Len(spec.grant) /\ n + 1 = i
      BY <2>2, <2>3
    <3>2. Result'.did = {spec.grant[k] : k \in 1..n} \cap Registered
      BY <2>2, <2>3 DEF Result
    <3>3. Result'.held = spec.grant[n + 1]
      BY <2>3, <3>1 DEF Result
    <3> HIDE DEF n
    <3> QED
      BY <1>0, <3>1, <3>2, <3>3 DEF InOrder
  <2>5. pc' = "seal" /\ status' = "needs_review"
    BY <1>8 DEF Hold, StopHere
  <2> QED
    BY <1>0, <2>3, <2>4, <2>5 DEF RulesInv
<1>9. ASSUME NEW o \in Outcome \ {"quarantined"}, Invoke(o) PROVE RulesInv'
  <2>1. PICK i \in DOMAIN spec.grant : NextTool(i) /\ calls = <<spec.grant[i]>>
    BY <1>9 DEF Invoke, RulesInv
  <2>2. /\ i - 1 \in 0..Len(spec.grant)
        /\ Called = {spec.grant[k] : k \in 1..(i - 1)} \cap Registered
    BY <1>0, <2>1, CalledBeforeNext
  <2>3. /\ i \in 1..Len(spec.grant)
        /\ Called' = Called \cup {spec.grant[i]}
        /\ pc' = "turn" /\ turns' = turns /\ pending' = NoTool
    <3>1. spec.grant \in Seq(Tools)
      BY DEF Typed, TypeOK, RunAssumption, AgentSpec
    <3>2. Head(calls) = spec.grant[i] /\ Len(calls) = 1
      BY <2>1
    <3>3. seen' = seen \cup {<<Head(calls), Recorded(Head(calls), o)>>}
      BY <1>9 DEF Invoke
    <3>4. Called' = Called \cup {spec.grant[i]}
      <4>1. \A p \in seen' : p \in seen \/ p[1] = spec.grant[i]
        BY <3>2, <3>3
      <4>2. \E p \in seen' : p[1] = spec.grant[i]
        <5>1. <<Head(calls), Recorded(Head(calls), o)>> \in seen'
          BY <3>3
        <5> QED
          BY <3>2, <5>1
      <4>3. seen \subseteq seen'
        BY <3>3
      <4> QED
        BY <4>1, <4>2, <4>3 DEF Called
    <3> QED
      BY <1>9, <3>1, <3>2, <3>4 DEF Invoke, GovInv
  <2>4. Called' = {spec.grant[k] : k \in 1..i} \cap Registered
    <3>1. 1..i = 1..(i - 1) \cup {i}
      BY <2>3
    <3>2. {spec.grant[k] : k \in 1..i} = {spec.grant[k] : k \in 1..(i - 1)} \cup {spec.grant[i]}
      BY <3>1
    <3>3. spec.grant[i] \in Registered
      BY <2>1 DEF NextTool, Usable
    <3> QED
      BY <2>2, <2>3, <3>2, <3>3
  <2>5. InOrder(spec.grant, Registered, Result)'
    <3>1. Result'.did = {spec.grant[k] : k \in 1..i} \cap Registered /\ Result'.held = NoTool
      BY <2>3, <2>4 DEF Result
    <3>2. i \in 0..Len(spec.grant)
      BY <2>3
    <3> QED
      BY <1>0, <3>1, <3>2 DEF InOrder
  <2>6. spec.grant[i] \notin Called
    BY <2>1 DEF NextTool
  <2>7. IsFiniteSet(Called)' /\ Cardinality(Called') = turns'
    BY <1>0, <1>9, <2>3, <2>6, FS_AddElement DEF Invoke, RulesInv
  <2> QED
    BY <2>3, <2>5, <2>7 DEF RulesInv
<1>10. CASE Seal
  <2>1. /\ seen' = seen /\ pending' = pending /\ pc' = "score"
        /\ status' = "success" => status = "success"
    BY <1>10 DEF Seal
  <2> QED
    BY <1>0, <1>1, <1>10, <2>1 DEF Seal, RulesInv
<1>11. CASE Score
  <2>1. /\ seen' = seen /\ pending' = pending /\ pc' = "done"
        /\ status' = "success" => status = "success"
    BY <1>11 DEF Score
  <2> QED
    BY <1>0, <1>1, <1>11, <2>1 DEF Score, RulesInv
<1>12. CASE UNCHANGED vars
  <2>1. seen' = seen /\ pending' = pending
    BY <1>12 DEF vars
  <2> QED
    BY <1>0, <1>1, <1>12, <2>1 DEF vars, params, RulesInv, NextTool, Usable
<1> QED
  BY <1>2, <1>3, <1>4, <1>5, <1>6, <1>7, <1>8, <1>9, <1>10, <1>11, <1>12
  DEF Next, Turn, Govern

LEMMA RulesInit ==
  ASSUME RunAssumption, ToolAssumption, Init
  PROVE  RulesInv
<1>1. Called = {} /\ pending = NoTool /\ pc = "turn" /\ turns = 0
  BY DEF Init, Called
<1>2. spec.grant \in Seq(Tools)
  BY DEF Init, RunAssumption, AgentSpec
<1>3. 0 \in 0..Len(spec.grant) /\ 1..0 = {}
  BY <1>2
<1>4. InOrder(spec.grant, Registered, Result)
  BY <1>1, <1>3 DEF InOrder, Result
<1> QED
  BY <1>1, <1>4, FS_EmptySet DEF RulesInv

\* Without a model the allow-list is worked off in order, whatever the tools return:
\* what was called is an initial part of it, what is held comes next, and a success with
\* steps enough has called all of it.
THEOREM RulesGoInOrder == Spec => []RulesInOrder
<1>1. Init => GovInv /\ RulesInv
  BY RulesInit, RunAssumption, ToolAssumption
  DEF Init, GovInv, RunIsGoverned, Governed, Result, Called
<1>2. Typed /\ GovInv /\ RulesInv /\ [Next]_vars => GovInv' /\ RulesInv'
  BY GovStep, RulesStep, RunAssumption, ToolAssumption
<1>3. RulesInv => RulesInOrder
  BY DEF RulesInv, RulesInOrder, Thorough, Result, Offered
<1> QED
  BY <1>1, <1>2, <1>3, AlwaysTyped, PTL DEF Spec

=============================================================================
