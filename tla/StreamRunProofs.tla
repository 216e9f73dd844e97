--------------------------- MODULE StreamRunProofs ---------------------------
(***************************************************************************)
(* The streamed loop implements the plain one, for all agents, tools and   *)
(* allow-lists.                                                            *)
(***************************************************************************)
EXTENDS StreamRun, TLAPS

\* The loop was stopped at the gate.
Stopped == pending # NoTool \/ flags["unauthorized"] > 0

\* While the loop runs nothing is stopped, said or decided; the sweep ends without
\* success only where it was stopped.
StreamInv ==
  /\ spec \in Agents
  /\ mode \in {"llm", "rules"}
  /\ flags \in [Flag -> Nat]
  /\ pc \in {"turn", "calls"} => output = "none" /\ ~Stopped /\ status = "success"
  /\ pc = "seal" /\ mode = "rules" => (status = "success" <=> ~Stopped)

LEMMA RaisedFlags ==
  ASSUME flags \in [Flag -> Nat], NEW fs
  PROVE  /\ Raised(fs) \in [Flag -> Nat]
         /\ "unauthorized" \notin fs => Raised(fs)["unauthorized"] = flags["unauthorized"]
         /\ "unauthorized" \in fs => Raised(fs)["unauthorized"] > 0
BY DEF Raised, Flag

LEMMA PermittedIsTool ==
  ASSUME RunAssumption, ToolAssumption, spec \in Agents, NEW t, Permitted(t)
  PROVE  t # NoTool
<1>1. spec.grant \in Seq(Tools)
  BY DEF RunAssumption, AgentSpec
<1>2. t \in Tools
  BY <1>1 DEF Permitted, Usable, Granted
<1> QED
  BY <1>2 DEF ToolAssumption

LEMMA StreamInvInit ==
  ASSUME RunAssumption, StreamInit
  PROVE  StreamInv
<1>1. PICK fs \in SUBSET {"pii", "injection"} :
        flags = [f \in Flag |-> IF f \in fs THEN 1 ELSE 0]
  BY DEF StreamInit, Init
<1>2. flags \in [Flag -> Nat] /\ flags["unauthorized"] = 0
  BY <1>1 DEF Flag
<1> QED
  BY <1>2 DEF StreamInit, Init, StreamInv, Stopped, RunAssumption

LEMMA StreamInvStep ==
  ASSUME RunAssumption, ToolAssumption, StreamInv, [StreamNext]_streamVars
  PROVE  StreamInv'
<1> USE DEF StreamInv, Stopped
<1>1. CASE StreamRunOut
  BY <1>1 DEF StreamRunOut, Streaming, params
<1>2. CASE StreamTimeOut
  BY <1>2, RaisedFlags DEF StreamTimeOut, Streaming, params
<1>3. CASE StreamAnswers
  BY <1>3 DEF StreamAnswers, Streaming, params
<1>4. CASE StreamFails
  BY <1>4, RaisedFlags DEF StreamFails, Streaming, params
<1>5. CASE StreamCalls
  BY <1>5 DEF StreamCalls, Streaming, params
<1>6. CASE Sweep
  BY <1>6 DEF Sweep, Streaming, params
<1>7. CASE StreamGoverns
  <2>1. CASE Deny
    BY <1>7, <2>1, RaisedFlags DEF StreamGoverns, Deny, StopHere, params
  <2>2. CASE Hold
    BY <2>2, RaisedFlags, PermittedIsTool DEF Hold, StopHere, params
  <2>3. ASSUME NEW o \in Outcome \ {"quarantined"}, Invoke(o)
        PROVE  StreamInv'
    <3> DEFINE fs == FlagsOf(Recorded(Head(calls), o))
    <3>1. "unauthorized" \notin fs
      BY DEF FlagsOf
    <3>2. flags' = Raised(fs)
      BY <2>3 DEF Invoke
    <3> HIDE DEF fs
    <3> QED
      BY <2>3, <3>1, <3>2, RaisedFlags DEF Invoke, params
  <2> QED
    BY <1>7, <2>1, <2>2, <2>3 DEF StreamGoverns, Govern
<1>8. CASE StreamSeal
  <2>1. PICK fs : flags' = Raised(fs)
    BY <1>8 DEF StreamSeal
  <2> QED
    BY <1>8, <2>1, RaisedFlags DEF StreamSeal, Streaming, params
<1>9. CASE StreamScore
  BY <1>9, RaisedFlags DEF StreamScore, Streaming, params
<1>10. CASE ClientLeaves
  BY <1>10 DEF ClientLeaves, vars, params
<1>11. CASE UNCHANGED streamVars
  BY <1>11 DEF streamVars, vars, params
<1> QED
  BY <1>1, <1>2, <1>3, <1>4, <1>5, <1>6, <1>7, <1>8, <1>9, <1>10, <1>11
  DEF StreamNext, Stream

-----------------------------------------------------------------------------
(* Steps of the stream as steps of the kernel.                             *)

LEMMA StreamStartsAsKernel ==
  ASSUME RunAssumption, StreamInit
  PROVE  Kernel!Init
BY DEF StreamInit, Init, Kernel!Init, GateOutput, Kernel!Flag, Flag

\* What the mapping hides does not change unless output, pending or the flag does.
LEMMA SameOutput ==
  ASSUME UNCHANGED <<mode, output, pending>>,
         flags'["unauthorized"] = flags["unauthorized"]
  PROVE  GateOutput' = GateOutput
BY DEF GateOutput

LEMMA LoopRefines ==
  ASSUME RunAssumption, StreamInv,
         StreamRunOut \/ StreamTimeOut \/ StreamAnswers \/ StreamFails \/ StreamCalls
  PROVE  Kernel!Turn
<1>1. CASE StreamRunOut
  <2>1. GateOutput' = GateOutput
    BY <1>1, SameOutput DEF StreamRunOut, Streaming, params
  <2>2. Kernel!RunOut
    BY <1>1, <2>1 DEF StreamRunOut, Streaming, HasTurn, params,
      Kernel!RunOut, Kernel!HasTurn, Kernel!params
  <2> QED
    BY <2>2 DEF Kernel!Turn
<1>2. ASSUME mode = "llm", mode' = mode
      PROVE  GateOutput = output /\ GateOutput' = output'
  BY <1>2 DEF GateOutput
<1>3. CASE StreamTimeOut
  BY <1>2, <1>3 DEF StreamTimeOut, Streaming, HasTurn, params, Raised, Flag,
    Kernel!Turn, Kernel!TimeOut, Kernel!HasTurn, Kernel!params, Kernel!Raised, Kernel!Flag
<1>4. CASE StreamAnswers
  BY <1>2, <1>4 DEF StreamAnswers, Streaming, HasTurn, params,
    Kernel!Turn, Kernel!ModelAnswers, Kernel!HasTurn, Kernel!params
<1>5. CASE StreamFails
  BY <1>2, <1>5 DEF StreamFails, Streaming, HasTurn, params, Raised, Flag,
    Kernel!Turn, Kernel!ModelFails, Kernel!HasTurn, Kernel!params, Kernel!Raised, Kernel!Flag
<1>6. CASE StreamCalls
  BY <1>2, <1>6 DEF StreamCalls, Streaming, HasTurn, params,
    Kernel!Turn, Kernel!ModelCalls, Kernel!HasTurn, Kernel!params
<1> QED
  BY <1>1, <1>3, <1>4, <1>5, <1>6

LEMMA SweepRefines ==
  ASSUME RunAssumption, StreamInv, Sweep
  PROVE  Kernel!Turn
<1> USE DEF NextTool, Usable, Granted, Called,
            Kernel!NextTool, Kernel!Usable, Kernel!Granted, Kernel!Called
<1>1. CASE \E i \in DOMAIN spec.grant : NextTool(i)
  <2>1. GateOutput' = GateOutput
    BY <1>1, SameOutput DEF Sweep, Streaming, params
  <2>2. Kernel!DecideTool
    BY <1>1, <2>1 DEF Sweep, Streaming, HasTurn, params,
      Kernel!DecideTool, Kernel!HasTurn, Kernel!params
  <2> QED
    BY <2>2 DEF Kernel!Turn
<1>2. CASE ~ \E i \in DOMAIN spec.grant : NextTool(i)
  <2>1. GateOutput' = "composed"
    BY <1>2 DEF Sweep, Streaming, params, StreamInv, Stopped, GateOutput
  <2>2. Kernel!DecideFinish
    BY <1>2, <2>1 DEF Sweep, Streaming, HasTurn, params,
      Kernel!DecideFinish, Kernel!HasTurn, Kernel!params
  <2> QED
    BY <2>2 DEF Kernel!Turn
<1> QED
  BY <1>1, <1>2

LEMMA GovernRefines ==
  ASSUME RunAssumption, ToolAssumption, StreamInv, StreamGoverns
  PROVE  Kernel!Govern
<1> USE DEF Permitted, NeedsApproval, Gated, Usable, Granted, StopHere, Raised, Flag,
            Kernel!Permitted, Kernel!NeedsApproval, Kernel!Gated, Kernel!Usable,
            Kernel!Granted, Kernel!StopHere, Kernel!Raised, Kernel!Flag
<1>0. pc = "calls" => GateOutput = output /\ output = "none"
  BY DEF StreamInv, Stopped, GateOutput
<1>1. CASE Deny
  <2>1. flags'["unauthorized"] > 0
    BY <1>1, RaisedFlags DEF Deny, StreamInv
  <2>2. GateOutput' = GateOutput
    BY <1>0, <1>1, <2>1 DEF Deny, GateOutput
  <2>3. Kernel!Deny
    BY <1>1, <2>2 DEF Deny, params, Kernel!Deny, Kernel!params
  <2> QED
    BY <2>3 DEF Kernel!Govern
<1>2. CASE Hold
  <2>1. pending' # NoTool
    BY <1>2, PermittedIsTool DEF Hold, StreamInv
  <2>2. GateOutput' = GateOutput
    BY <1>0, <1>2, <2>1 DEF Hold, GateOutput
  <2>3. Kernel!Hold
    BY <1>2, <2>2 DEF Hold, params, Kernel!Hold, Kernel!params
  <2> QED
    BY <2>3 DEF Kernel!Govern
<1>3. ASSUME NEW o \in Outcome \ {"quarantined"}, Invoke(o)
      PROVE  Kernel!Govern
  <2>1. "unauthorized" \notin FlagsOf(Recorded(Head(calls), o))
    BY DEF FlagsOf
  <2>2. flags'["unauthorized"] = flags["unauthorized"]
    BY <1>3, <2>1, RaisedFlags DEF Invoke, StreamInv
  <2>3. GateOutput' = GateOutput
    BY <1>3, <2>2, SameOutput DEF Invoke, params
  <2>4. Kernel!Invoke(o)
    BY <1>3, <2>3 DEF Invoke, Recorded, FlagsOf, params,
      Kernel!Invoke, Kernel!Recorded, Kernel!FlagsOf, Kernel!params
  <2> QED
    BY <2>4 DEF Kernel!Govern, Kernel!Outcome, Outcome
<1> QED
  BY <1>1, <1>2, <1>3 DEF StreamGoverns, Govern

\* fail, judged, toHuman and listed are the locals of Seal, for a verdict v.
LEMMA SealRefines ==
  ASSUME RunAssumption, StreamInv, StreamSeal
  PROVE  Kernel!Seal
<1> DEFINE hardFail == status = "success" /\ DegradedIsFatal
           said(v) == {f \in Flag :
                         \/ f = "hard_fail" /\ hardFail
                         \/ f = "compliance_block" /\ v = "BLOCK"
                         \/ f = "compliance_annotate" /\ v = "ANNOTATE"
                         \/ f = "agent_requires_review" /\ Judged(hardFail, v) = "needs_review"
                              /\ status = "success"}
           fail == status = "success" /\ Kernel!DegradedIsFatal
           afterFail == IF fail THEN "failed" ELSE status
           judged(v) == IF v = "BLOCK" THEN "blocked" ELSE afterFail
           toHuman(v) == spec.review /\ judged(v) = "success"
           listed(v) == (IF fail THEN {"hard_fail"} ELSE {}) \cup
                        (CASE v = "BLOCK" -> {"compliance_block"}
                           [] v = "ANNOTATE" -> {"compliance_annotate"}
                           [] OTHER -> {}) \cup
                        (IF toHuman(v) THEN {"agent_requires_review"} ELSE {})
<1>1. PICK v \in Verdicts :
        /\ status' = Judged(hardFail, v)
        /\ flags' = Raised(said(v))
        /\ output' = StreamText(hardFail)
  BY DEF StreamSeal
<1>2. fail = hardFail /\ fail \in BOOLEAN /\ v \in Kernel!Verdicts
  BY DEF Verdicts, DegradedIsFatal, Kernel!Verdicts, Kernel!DegradedIsFatal
<1>3. Judged(hardFail, v) = IF toHuman(v) THEN "needs_review" ELSE judged(v)
  <2> HIDE DEF hardFail, fail
  <2> QED
    BY <1>2 DEF Judged
<1>4. said(v) = listed(v)
  <2> HIDE DEF hardFail, fail
  <2>1. Judged(hardFail, v) = "needs_review" /\ status = "success" <=> toHuman(v)
    BY <1>2 DEF Judged
  <2> QED
    BY <1>2, <2>1 DEF Flag
<1>5. GateOutput' = IF fail THEN "error"
                    ELSE IF status = "success" /\ GateOutput = "none" THEN "composed"
                    ELSE GateOutput
  <2>1. "unauthorized" \notin said(v)
    OBVIOUS
  <2>2. flags'["unauthorized"] = flags["unauthorized"]
    BY <1>1, <2>1, RaisedFlags DEF StreamInv
  <2>3. UNCHANGED <<mode, pending>> /\ pc = "seal"
    BY DEF StreamSeal, Streaming, params
  <2>4. output' = IF fail THEN "error"
                  ELSE IF output = "none" /\ (mode = "rules" \/ status = "success")
                  THEN "composed" ELSE output
    BY <1>1, <1>2 DEF StreamText
  <2>5. CASE mode = "llm"
    BY <2>3, <2>4, <2>5 DEF GateOutput
  <2>6. CASE mode = "rules" /\ Stopped
    BY <2>2, <2>3, <2>6 DEF GateOutput, StreamInv, Stopped
  <2>7. CASE mode = "rules" /\ ~Stopped
    BY <2>2, <2>3, <2>4, <2>7 DEF GateOutput, StreamInv, Stopped
  <2> QED
    BY <2>5, <2>6, <2>7 DEF StreamInv
<1>6. flags' = Kernel!Raised(listed(v))
  BY <1>1, <1>4 DEF Raised, Kernel!Raised, Flag, Kernel!Flag
<1>7. status' = IF toHuman(v) THEN "needs_review" ELSE judged(v)
  BY <1>1, <1>3
<1>8. pc = "seal" /\ pc' = "score" /\ UNCHANGED <<Kernel!params, turns, calls, seen, pending>>
  BY DEF StreamSeal, Streaming, params, Kernel!params
<1> QED
  BY <1>2, <1>5, <1>6, <1>7, <1>8, Zenon DEF Kernel!Seal

LEMMA ScoreRefines ==
  ASSUME RunAssumption, StreamInv, StreamScore
  PROVE  Kernel!Score
<1>1. flags'["unauthorized"] = flags["unauthorized"]
  BY RaisedFlags DEF StreamScore, StreamInv
<1>2. GateOutput' = GateOutput
  BY <1>1, SameOutput DEF StreamScore, Streaming, params
<1>3. Kernel!RiskScore = RiskScore
  BY DEF RiskScore, Kernel!RiskScore
<1>4. Raised({}) = flags
  BY DEF StreamInv, Raised
<1> QED
  BY <1>2, <1>3, <1>4 DEF StreamScore, Streaming, params, Raised, Flag,
    Kernel!Score, Kernel!params, Kernel!Raised, Kernel!Flag

\* run_stream keeps to run_node: from a start of the kernel, every step of the stream
\* is a step of the kernel or, where the client leaves, none.
THEOREM StreamsImplementRuns ==
  StreamSpec => ImplementsRun
<1>1. ASSUME StreamInv, [StreamNext]_streamVars
      PROVE  [Kernel!Next]_Kernel!vars
  <2>1. CASE StreamRunOut \/ StreamTimeOut \/ StreamAnswers \/ StreamFails \/ StreamCalls
    BY <1>1, <2>1, LoopRefines, RunAssumption DEF Kernel!Next
  <2>2. CASE Sweep
    BY <1>1, <2>2, SweepRefines, RunAssumption DEF Kernel!Next
  <2>3. CASE StreamGoverns
    BY <1>1, <2>3, GovernRefines, RunAssumption, ToolAssumption DEF Kernel!Next
  <2>4. CASE StreamSeal
    BY <1>1, <2>4, SealRefines, RunAssumption DEF Kernel!Next
  <2>5. CASE StreamScore
    BY <1>1, <2>5, ScoreRefines, RunAssumption DEF Kernel!Next
  <2>6. CASE UNCHANGED vars
    BY <2>6 DEF vars, params, GateOutput, Kernel!vars, Kernel!params
  <2> QED
    BY <1>1, <2>1, <2>2, <2>3, <2>4, <2>5, <2>6
    DEF StreamNext, Stream, ClientLeaves, streamVars
<1>2. StreamInit => StreamInv /\ Kernel!Init
  BY StreamInvInit, StreamStartsAsKernel, RunAssumption
<1>3. StreamInv /\ [StreamNext]_streamVars => StreamInv'
  BY StreamInvStep, RunAssumption, ToolAssumption
<1> QED
  BY <1>1, <1>2, <1>3, PTL DEF StreamSpec, ImplementsRun, Kernel!Spec

-----------------------------------------------------------------------------
(* What the kernel is proved to keep, the stream keeps.                    *)

Proved == INSTANCE AgentRunProofs WITH output <- GateOutput

\* The same module with the same mapping, and properties that do not mention the output.
LEMMA SameKernel ==
  /\ Kernel!Init <=> Proved!Init
  /\ [Kernel!Next]_Kernel!vars <=> [Proved!Next]_Proved!vars
<1>1. Kernel!Init <=> Proved!Init
  BY DEF Kernel!Init, Proved!Init, Kernel!Flag, Proved!Flag
<1>2. [Kernel!Next]_Kernel!vars <=> [Proved!Next]_Proved!vars
  BY DEF
     Kernel!RunOut, Proved!RunOut, Kernel!TimeOut, Proved!TimeOut,
     Kernel!DecideTool, Proved!DecideTool, Kernel!DecideFinish,
     Proved!DecideFinish, Kernel!ModelAnswers, Proved!ModelAnswers,
     Kernel!ModelFails, Proved!ModelFails, Kernel!ModelCalls, Proved!ModelCalls,
     Kernel!Deny, Proved!Deny, Kernel!Hold, Proved!Hold, Kernel!Invoke,
     Proved!Invoke, Kernel!Seal, Proved!Seal, Kernel!Score, Proved!Score,
     Kernel!Turn, Proved!Turn, Kernel!Govern, Proved!Govern, Kernel!Next,
     Proved!Next, Kernel!vars, Proved!vars, Kernel!params, Proved!params,
     Kernel!HasTurn, Proved!HasTurn, Kernel!NextTool, Proved!NextTool,
     Kernel!Usable, Proved!Usable, Kernel!Granted, Proved!Granted, Kernel!Called,
     Proved!Called, Kernel!Permitted, Proved!Permitted, Kernel!NeedsApproval,
     Proved!NeedsApproval, Kernel!Gated, Proved!Gated, Kernel!StopHere,
     Proved!StopHere, Kernel!Recorded, Proved!Recorded, Kernel!FlagsOf,
     Proved!FlagsOf, Kernel!Outcome, Proved!Outcome, Kernel!Flag, Proved!Flag,
     Kernel!Raised, Proved!Raised, Kernel!DegradedIsFatal, Proved!DegradedIsFatal,
     Kernel!Verdicts, Proved!Verdicts, Kernel!RiskScore, Proved!RiskScore
<1> QED
  BY <1>1, <1>2

LEMMA SameProperties ==
  /\ Proved!RunIsGoverned <=> RunIsGoverned
  /\ Proved!SuccessIsClean <=> SuccessIsClean
  /\ Proved!DegradedIsNoResult <=> DegradedIsNoResult
<1>1. Proved!RunIsGoverned <=> RunIsGoverned
  BY DEF Proved!RunIsGoverned, RunIsGoverned, Proved!Governed, Governed, Proved!Result,
     Result, Proved!Called, Called, Proved!Granted, Granted, Proved!Gated, Gated
<1>2. Proved!SuccessIsClean <=> SuccessIsClean
  BY DEF Proved!SuccessIsClean, SuccessIsClean
<1>3. Proved!DegradedIsNoResult <=> DegradedIsNoResult
  BY DEF Proved!DegradedIsNoResult, DegradedIsNoResult
<1> QED
  BY <1>1, <1>2, <1>3

\* In a chat turn too only granted tools are called, and side-effecting ones only with
\* approval; success is clean, and an unavailable source no result.
THEOREM StreamsAreGoverned ==
  StreamSpec => [](RunIsGoverned /\ SuccessIsClean /\ DegradedIsNoResult)
<1>1. Proved!RunAssumption /\ Proved!ToolAssumption
  BY RunAssumption, ToolAssumption DEF RunAssumption, ToolAssumption, AgentSpec,
     Proved!RunAssumption, Proved!ToolAssumption, Proved!AgentSpec
<1>2. Proved!Spec => []Proved!RunIsGoverned
  BY <1>1, Proved!RunsAreGoverned, PTL
<1>3. Proved!Spec => []Proved!SuccessIsClean
  BY <1>1, Proved!SuccessesAreClean, PTL
<1>4. Proved!Spec => []Proved!DegradedIsNoResult
  BY <1>1, Proved!DegradedRunsFail, PTL
<1> QED
  BY <1>2, <1>3, <1>4, SameKernel, SameProperties, StreamsImplementRuns, PTL
  DEF ImplementsRun, Kernel!Spec, Proved!Spec

=============================================================================
