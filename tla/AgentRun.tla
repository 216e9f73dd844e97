------------------------------ MODULE AgentRun ------------------------------
(***************************************************************************)
(* One run of an agent: AgentRuntime.run, run_node, _llm_step and          *)
(* _govern_and_invoke (backend/fingent/runtime.py), with Budget and the    *)
(* compliance overseer (backend/fingent/middleware.py).                    *)
(*                                                                         *)
(* The model provider and the tools are external: a model turn may ask for *)
(* any tools, granted or not, answer, or fail; a tool may return a clean   *)
(* result, report its source unavailable, return text with an injection    *)
(* signature or a sanctions hit, or raise. Of the spec, the input and the  *)
(* flags, only what decides the status is kept; observations are the pairs *)
(* (tool, outcome) that occurred.                                          *)
(***************************************************************************)
EXTENDS KernelContract, FiniteSets

CONSTANTS
  Agents,      \* the agent specs to choose from
  Modes,       \* "llm" with a model configured, else "rules"
  Registered,  \* tools the registry still has a descriptor for
  Untrusted,   \* tools whose output is injection-scanned
  Stranger,    \* a tool name nobody registered
  MaxCalls     \* bound: tool calls in one model turn

\* What of an AgentSpec decides how a run goes: security.allowed_tools, the
\* guardrails, risk_level, whether a human reviews its output, and whether it
\* is an ICP-matching agent.
AgentSpec == [grant : Seq(Tools), maxSteps : Nat,
              risk : {"low", "medium", "high"}, review : BOOLEAN, scan : BOOLEAN,
              icp : BOOLEAN]

ASSUME RunAssumption ==
  /\ Agents \subseteq AgentSpec
  /\ Modes \subseteq {"llm", "rules"}
  /\ Registered \subseteq Tools
  /\ Stranger \notin Tools
  /\ MaxCalls \in Nat

Flag == {"side_effect", "unauthorized", "compliance_block", "compliance_annotate",
         "injection", "pii", "tool_error", "agent_requires_review", "budget_exceeded",
         "source_degraded", "hard_fail", "llm_unavailable", "high_risk"}

\* What an observation records of a call.
Outcome == {"clean", "unavailable", "hit", "injected", "quarantined", "raised"}

VARIABLES
  spec,       \* the AgentSpec, fixed for the run
  mode,       \* "llm" or "rules"
  approved,   \* approved_tools, or all tools with approve_side_effecting
  pc,
  turns,      \* budget.steps
  calls,      \* tool calls of this model turn still to be governed
  seen,       \* observations
  flags,      \* how often each flag was raised
  status, output, pending

params == <<spec, mode, approved>>
vars == <<params, pc, turns, calls, seen, flags, status, output, pending>>

Count == [f \in Flag |-> 0]
Raised(fs) == [f \in Flag |-> flags[f] + IF f \in fs THEN 1 ELSE 0]

Called == {o[1] : o \in seen}

\* descriptors: allow-listed tools the registry knows, in order.
Usable(t) == t \in Granted(spec.grant) /\ t \in Registered

TypeOK ==
  /\ spec \in Agents
  /\ mode \in Modes
  /\ approved \subseteq Tools
  /\ pc \in {"turn", "calls", "seal", "score", "done"}
  /\ turns \in 0..spec.maxSteps
  /\ calls \in Seq(Tools \cup {Stranger})
  /\ Len(calls) <= MaxCalls + 1
  /\ seen \subseteq Tools \X Outcome
  /\ flags \in [Flag -> Nat]
  /\ status \in {"success", "failed", "blocked", "needs_review"}
  /\ output \in {"none", "answer", "composed", "error"}
  /\ pending \in Tools \cup {NoTool}

\* The input may hold personal data or an injection attempt.
Init ==
  /\ spec \in Agents
  /\ mode \in Modes
  /\ approved \in {{}, Tools} \cup {{t} : t \in Tools}
  /\ pc = "turn"
  /\ turns = 0
  /\ calls = <<>>
  /\ seen = {}
  /\ \E fs \in SUBSET {"pii", "injection"} :
       flags = [f \in Flag |-> IF f \in fs THEN 1 ELSE 0]
  /\ status = "success"
  /\ output = "none"
  /\ pending = NoTool

-----------------------------------------------------------------------------
(* The loop of run_node.                                                   *)

\* A bug: one turn too few.
HasTurnOneFewer == turns + 1 < spec.maxSteps
HasTurn == turns < spec.maxSteps

\* The for loop is exhausted: the status stays "success".
RunOut ==
  /\ pc = "turn"
  /\ ~HasTurn
  /\ pc' = "seal"
  /\ UNCHANGED <<params, turns, calls, seen, flags, status, output, pending>>

\* budget.step() raises once timeout_seconds have passed. It is given no tokens
\* and the loop bounds the steps, so it raises for no other reason.
TimeOut ==
  /\ pc = "turn"
  /\ HasTurn
  /\ turns' = turns + 1
  /\ flags' = Raised({"budget_exceeded"})
  /\ status' = "blocked"
  /\ pc' = "seal"
  /\ UNCHANGED <<params, calls, seen, output, pending>>

\* _decide_demo's choice: the first tool without an observation, an error included.
NextTool(i) ==
  /\ Usable(spec.grant[i])
  /\ spec.grant[i] \notin Called
  /\ \A k \in 1..(i - 1) : Usable(spec.grant[k]) => spec.grant[k] \in Called

DecideTool ==
  /\ pc = "turn" /\ mode = "rules"
  /\ HasTurn
  /\ turns' = turns + 1
  /\ \E i \in DOMAIN spec.grant : NextTool(i) /\ calls' = <<spec.grant[i]>>
  /\ pc' = "calls"
  /\ UNCHANGED <<params, seen, flags, status, output, pending>>

DecideFinish ==
  /\ pc = "turn" /\ mode = "rules"
  /\ HasTurn
  /\ \A i \in DOMAIN spec.grant : ~NextTool(i)
  /\ turns' = turns + 1
  /\ output' = "composed"
  /\ pc' = "seal"
  /\ UNCHANGED <<params, calls, seen, flags, status, pending>>

\* _llm_step: the model answers, with content or without, and before any tool
\* returned too: tool_choice "required" is a wish, which chat() itself drops when
\* the gateway refuses it.
ModelAnswers ==
  /\ pc = "turn" /\ mode = "llm"
  /\ HasTurn
  /\ turns' = turns + 1
  /\ output' \in {"answer", "none"}
  /\ pc' = "seal"
  /\ UNCHANGED <<params, calls, seen, flags, status, pending>>

ModelFails ==
  /\ pc = "turn" /\ mode = "llm"
  /\ HasTurn
  /\ turns' = turns + 1
  /\ flags' = Raised({"llm_unavailable"})
  /\ status' = "failed"
  /\ output' = "error"
  /\ pc' = "seal"
  /\ UNCHANGED <<params, calls, seen, pending>>

\* A bug: turns that call tools are not counted.
ModelCallsUncounted ==
  /\ pc = "turn" /\ mode = "llm"
  /\ HasTurn
  /\ \E n \in 1..MaxCalls : calls' \in [1..n -> Tools \cup {Stranger}]
  /\ pc' = "calls"
  /\ UNCHANGED <<params, turns, seen, flags, status, output, pending>>

\* Any names, any number of them; repetitions too.
ModelCalls ==
  /\ pc = "turn" /\ mode = "llm"
  /\ HasTurn
  /\ turns' = turns + 1
  /\ \E n \in 1..MaxCalls : calls' \in [1..n -> Tools \cup {Stranger}]
  /\ pc' = "calls"
  /\ UNCHANGED <<params, seen, flags, status, output, pending>>

-----------------------------------------------------------------------------
(* _govern_and_invoke, for the call at the head of calls.                  *)

\* A bug: only the first call of a turn meets the gate.
NeedsApprovalOnce(t) == Gated(t, approved) /\ (seen = {} \/ t \in Called)

\* A bug: a denied or held call is skipped and the rest of the turn goes on.
CarryOn == calls' = Tail(calls) /\ pc' = IF Len(calls) = 1 THEN "seal" ELSE "calls"

Permitted(t) == Usable(t)
NeedsApproval(t) == Gated(t, approved)

\* A denied or held call ends the turn and the loop.
StopHere == calls' = <<>> /\ pc' = "seal"

Deny ==
  /\ pc = "calls"
  /\ ~Permitted(Head(calls))
  /\ flags' = Raised({"unauthorized"})
  /\ status' = "blocked"
  /\ StopHere
  /\ UNCHANGED <<params, turns, seen, output, pending>>

Hold ==
  /\ pc = "calls"
  /\ Permitted(Head(calls))
  /\ NeedsApproval(Head(calls))
  /\ flags' = Raised({"side_effect"})
  /\ status' = "needs_review"
  /\ pending' = Head(calls)
  /\ StopHere
  /\ UNCHANGED <<params, turns, seen, output>>

\* What is recorded of a tool result: untrusted output with a signature is
\* replaced when the scan is on.
Recorded(t, o) ==
  IF o = "injected" /\ t \in Untrusted /\ spec.scan THEN "quarantined" ELSE o

FlagsOf(o) ==
  CASE o = "raised" -> {"tool_error"}
    [] o = "quarantined" -> {"injection"}
    [] o = "unavailable" -> {"source_degraded"}
    [] OTHER -> {}

Invoke(o) ==
  /\ pc = "calls"
  /\ Permitted(Head(calls))
  /\ ~NeedsApproval(Head(calls))
  /\ seen' = seen \cup {<<Head(calls), Recorded(Head(calls), o)>>}
  /\ flags' = Raised(FlagsOf(Recorded(Head(calls), o)))
  /\ calls' = Tail(calls)
  /\ pc' = IF Len(calls) = 1 THEN "turn" ELSE "calls"
  /\ UNCHANGED <<params, turns, status, output, pending>>

-----------------------------------------------------------------------------
(* After the loop.                                                         *)

DegradedIsFatal == flags["source_degraded"] > 0 /\ ~spec.icp

\* A bug: the overseer reads the output alone, not the observations.
VerdictsOnText == {"PASS", "ANNOTATE", "BLOCK"}

\* compliance_overseer: a sanctions hit blocks; so may what the output says.
Verdicts ==
  IF \E o \in seen : o[2] = "hit" THEN {"BLOCK"} ELSE {"PASS", "ANNOTATE", "BLOCK"}

\* _hard_fail_if_degraded, the overseer and the review gate, in this order.
Seal ==
  /\ pc = "seal"
  /\ LET hardFail == status = "success" /\ DegradedIsFatal
         afterFail == IF hardFail THEN "failed" ELSE status
     IN \E verdict \in Verdicts :
          LET judged == IF verdict = "BLOCK" THEN "blocked" ELSE afterFail
              toHuman == spec.review /\ judged = "success"
          IN /\ status' = IF toHuman THEN "needs_review" ELSE judged
             /\ flags' = Raised(
                  (IF hardFail THEN {"hard_fail"} ELSE {}) \cup
                  (CASE verdict = "BLOCK" -> {"compliance_block"}
                     [] verdict = "ANNOTATE" -> {"compliance_annotate"}
                     [] OTHER -> {}) \cup
                  (IF toHuman THEN {"agent_requires_review"} ELSE {}))
             /\ output' = IF hardFail THEN "error"
                          ELSE IF status = "success" /\ output = "none" THEN "composed"
                          ELSE output
  /\ pc' = "score"
  /\ UNCHANGED <<params, turns, calls, seen, pending>>

\* A bug: the score is added up from the operator's level alone.
RiskScoreOfLevel == CASE spec.risk = "low" -> 10 [] spec.risk = "medium" -> 25 [] OTHER -> 45

RiskScore ==
  LET base == CASE spec.risk = "low" -> 10 [] spec.risk = "medium" -> 25 [] OTHER -> 45
      sum == base + 35 * flags["side_effect"] + 40 * flags["unauthorized"]
               + 40 * flags["compliance_block"] + 30 * flags["injection"]
               + 15 * flags["pii"] + 10 * flags["tool_error"]
               + 20 * flags["agent_requires_review"] + 25 * flags["budget_exceeded"]
  IN IF sum > 100 THEN 100 ELSE sum

\* run: route high risk to a human, then persist the record.
Score ==
  /\ pc = "score"
  /\ IF RiskScore >= 60 /\ status = "success"
     THEN status' = "needs_review" /\ flags' = Raised({"high_risk"})
     ELSE UNCHANGED <<status, flags>>
  /\ pc' = "done"
  /\ UNCHANGED <<params, turns, calls, seen, output, pending>>

Turn == RunOut \/ TimeOut \/ DecideTool \/ DecideFinish
        \/ ModelAnswers \/ ModelFails \/ ModelCalls

Govern == Deny \/ Hold \/ \E o \in Outcome \ {"quarantined"} : Invoke(o)

Next == Turn \/ Govern \/ Seal \/ Score

Spec == Init /\ [][Next]_vars

\* The thread goes on; model and tool calls return or raise (both have timeouts).
FairSpec == Spec /\ WF_vars(Next)

-----------------------------------------------------------------------------
(* Properties.                                                             *)

Result == [status |-> status, held |-> pending, did |-> Called]

\* Whatever the model asks for, in whatever order and combination, only granted
\* tools are called and side-effecting ones only with approval, and what is
\* held for a reviewer is such a call (README: "write/send/pay tools never fire
\* unsupervised; they pause for approval").
RunIsGoverned == Governed(spec.grant, approved, Result)

\* Without a model the allow-list is worked off in order, up to the held tool,
\* and entirely when the run succeeds with steps enough.
RulesInOrder ==
  mode = "rules" =>
    /\ InOrder(spec.grant, Registered, Result)
    /\ pc = "done" /\ Cardinality(Granted(spec.grant) \cap Registered) <= spec.maxSteps
         => Thorough(spec.grant, Registered, Result)

\* A denied or held call ends the tool use of the whole run: neither the rest
\* of the same model turn nor a later turn calls anything.
StopsAtGate ==
  [][pending # NoTool \/ flags["unauthorized"] > 0 => seen' = seen]_vars

\* A run that ends with status "success" was not denied, held, cut short or
\* blocked, saw no sanctions hit, and its agent needs no review.
SuccessIsClean ==
  pc = "done" /\ status = "success" =>
    /\ pending = NoTool
    /\ \A f \in {"unauthorized", "side_effect", "budget_exceeded",
                  "compliance_block", "llm_unavailable"} : flags[f] = 0
    /\ \A o \in seen : o[2] # "hit"
    /\ ~spec.review

\* An unavailable source is never presented as a result, nor offered to a
\* reviewer as one, except by ICP agents (runtime.py: "real data only").
DegradedIsNoResult ==
  pc = "done" /\ (\E o \in seen : o[2] = "unavailable") /\ ~spec.icp
    => status \in {"failed", "blocked"} \/ pending # NoTool

\* Flags raised anywhere in the run count: two quarantined results, or for a
\* high-risk agent one, or personal data in its input, rule out plain success.
RiskyIsReviewed ==
  pc = "done" /\ status = "success" =>
    /\ Cardinality({o \in seen : o[2] = "quarantined"}) <= 1
    /\ spec.risk = "high" => flags["pii"] = 0 /\ \A o \in seen : o[2] # "quarantined"

\* Every run ends, whatever the model asks for.
Terminates == <>(pc = "done")

=============================================================================
