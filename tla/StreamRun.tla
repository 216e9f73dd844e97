----------------------------- MODULE StreamRun -----------------------------
(***************************************************************************)
(* A chat turn's run: AgentRuntime.run_stream (backend/fingent/            *)
(* runtime.py).  It is a second agent loop, written beside run_node's, a   *)
(* generator that yields an event wherever something happens and that the  *)
(* client may leave at each of them.  What the two loops share in the      *)
(* code, they share here: the governed call of _govern_and_invoke, the     *)
(* choice of _decide_demo, the hard fail, the overseer and the risk score. *)
(*                                                                         *)
(* output is final_text: the model's, composed from the observations (or   *)
(* the notice that stands in for it), or an error.                         *)
(***************************************************************************)
EXTENDS AgentRun

VARIABLES
  client   \* "there", or "left" in the middle of the stream

streamVars == <<vars, client>>

\* The input is only scanned for injection. The history a turn starts from is data
\* to the model.
StreamInit ==
  /\ Init
  /\ flags["pii"] = 0
  /\ client = "there"

-----------------------------------------------------------------------------
(* The loops, of a model and of the sweep without one.                     *)

Streaming(step) == client = "there" /\ pc = step /\ UNCHANGED <<params, client>>

\* The for loop is over.
StreamRunOut ==
  /\ Streaming("turn") /\ ~HasTurn
  /\ pc' = "seal"
  /\ UNCHANGED <<turns, calls, seen, flags, status, output, pending>>

\* budget.step(), of the model's loop alone, raises GuardrailTrip.
StreamTimeOut ==
  /\ Streaming("turn") /\ HasTurn /\ mode = "llm"
  /\ turns' = turns + 1
  /\ flags' = Raised({"budget_exceeded"}) /\ status' = "blocked"
  /\ pc' = "seal"
  /\ UNCHANGED <<calls, seen, output, pending>>

StreamAnswers ==
  /\ Streaming("turn") /\ HasTurn /\ mode = "llm"
  /\ turns' = turns + 1
  /\ output' \in {"answer", "none"}
  /\ pc' = "seal"
  /\ UNCHANGED <<calls, seen, flags, status, pending>>

\* stream_chat raises, before or after tokens were shown.
StreamFails ==
  /\ Streaming("turn") /\ HasTurn /\ mode = "llm"
  /\ turns' = turns + 1
  /\ flags' = Raised({"llm_unavailable"}) /\ status' = "failed"
  /\ output' = "error"
  /\ pc' = "seal"
  /\ UNCHANGED <<calls, seen, pending>>

StreamCalls ==
  /\ Streaming("turn") /\ HasTurn /\ mode = "llm"
  /\ turns' = turns + 1
  /\ \E n \in 1..MaxCalls : calls' \in [1..n -> Tools \cup {Stranger}]
  /\ pc' = "calls"
  /\ UNCHANGED <<seen, flags, status, output, pending>>

\* The sweep: one tool a turn, until none is left.
Sweep ==
  /\ Streaming("turn") /\ HasTurn /\ mode = "rules"
  /\ turns' = turns + 1
  /\ IF \E i \in DOMAIN spec.grant : NextTool(i)
     THEN /\ \E i \in DOMAIN spec.grant : NextTool(i) /\ calls' = <<spec.grant[i]>>
          /\ pc' = "calls"
          /\ UNCHANGED output
     ELSE /\ pc' = "seal" /\ output' = "composed"
          /\ UNCHANGED calls
  /\ UNCHANGED <<seen, flags, status, pending>>

\* _govern_and_invoke between the tool_call and the tool_result event; a call denied
\* or held stops either loop.
StreamGoverns ==
  /\ client = "there" /\ Govern
  /\ UNCHANGED client

-----------------------------------------------------------------------------
(* After the loops.                                                        *)

\* The sweep composes its answer however it ended; the model's turn only when it
\* succeeded without one.
StreamText(failed) ==
  IF failed THEN "error"
  ELSE IF output = "none" /\ (mode = "rules" \/ status = "success") THEN "composed"
  ELSE output

\* A bug: a degraded source fails the run only after the reviewer's gate.
GateFirst(hardFail, verdict) ==
  IF verdict = "BLOCK" THEN "blocked"
  ELSE IF spec.review /\ status = "success" THEN "needs_review"
  ELSE IF hardFail THEN "failed" ELSE status

Judged(hardFail, verdict) ==
  IF verdict = "BLOCK" THEN "blocked"
  ELSE IF hardFail THEN "failed"
  ELSE IF spec.review /\ status = "success" THEN "needs_review" ELSE status

StreamSeal ==
  /\ Streaming("seal")
  /\ LET hardFail == status = "success" /\ DegradedIsFatal
     IN \E verdict \in Verdicts :
          /\ status' = Judged(hardFail, verdict)
          /\ flags' = Raised(
               {f \in Flag :
                  \/ f = "hard_fail" /\ hardFail
                  \/ f = "compliance_block" /\ verdict = "BLOCK"
                  \/ f = "compliance_annotate" /\ verdict = "ANNOTATE"
                  \/ f = "agent_requires_review" /\ Judged(hardFail, verdict) = "needs_review"
                       /\ status = "success"})
          /\ output' = StreamText(hardFail)
  /\ pc' = "score"
  /\ UNCHANGED <<turns, calls, seen, pending>>

\* The score routes to a human; the record is persisted, the final event yielded.
StreamScore ==
  /\ Streaming("score")
  /\ LET risky == RiskScore >= 60 /\ status = "success"
     IN /\ status' = IF risky THEN "needs_review" ELSE status
        /\ flags' = Raised(IF risky THEN {"high_risk"} ELSE {})
  /\ pc' = "done"
  /\ UNCHANGED <<turns, calls, seen, output, pending>>

\* GeneratorExit at an event, the last before the record is persisted that of the
\* overseer's BLOCK: nothing of this turn is kept.
ClientLeaves ==
  /\ client = "there" /\ pc \in {"turn", "calls", "seal"}
  /\ client' = "left"
  /\ UNCHANGED vars

Stream ==
  \/ StreamRunOut \/ StreamTimeOut
  \/ StreamAnswers \/ StreamFails \/ StreamCalls \/ Sweep
  \/ StreamGoverns \/ StreamSeal \/ StreamScore

StreamNext == Stream \/ ClientLeaves

StreamSpec == StreamInit /\ [][StreamNext]_streamVars

-----------------------------------------------------------------------------
\* The streamed run is a run of the same kernel: each of its steps is one that
\* run_node could take, whatever the model says and wherever the client leaves, so
\* that what is proved of AgentRun holds of chat (runtime.py: "Every tool call still
\* passes through the same governance as run()/run_node()").  They differ in one
\* thing: stopped at the gate, run_node has no output and the sweep here has prose.
GateOutput ==
  IF mode = "rules" /\ (pending # NoTool \/ flags["unauthorized"] > 0) THEN "none" ELSE output

Kernel == INSTANCE AgentRun WITH output <- GateOutput

ImplementsRun == Kernel!Spec

=============================================================================
