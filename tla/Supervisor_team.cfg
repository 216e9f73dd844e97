\* Six small teams, with and without a model, strict and not, every status and two outputs.
CONSTANTS
  aml = aml
  kyc = kyc
  credit = credit
  memo = memo
  k1 = k1
  k2 = k2
  k3 = k3
  Names = {aml, kyc, credit, memo}
  Keys = {k1, k2, k3}
  Outputs = {"x", "y"}
  Teams <- SmallTeams
  Modes = {"llm", "dependency"}
  Stricts = {TRUE, FALSE}
  MaxReplans = 2
  NoAgent = NoAgent
SPECIFICATION Spec
\* A run ends.
CHECK_DEADLOCK FALSE
INVARIANTS
  RunsOnce
  DependenciesFirst
  SynthesisLast
  BoardIsCurrent
