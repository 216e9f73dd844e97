----------------------------- MODULE MCAgentRun -----------------------------
(* Small instances of AgentRun for TLC: the agents to choose from.         *)
EXTENDS AgentRun

CONSTANTS look, send, wire  \* a reading tool, two side-effecting ones

Agent(grant, steps, risk, review, icp) ==
  [grant |-> grant, maxSteps |-> steps, risk |-> risk, review |-> review,
   scan |-> TRUE, icp |-> icp]

\* Side-effecting tools before, after and between others, step limits below, at
\* and above the length of the allow-list; low and high risk, with and without
\* review, and with the right to answer without a source.
Senders ==
  {Agent(g, n, "low", FALSE, FALSE) :
     g \in {<<look, send>>, <<send, look>>, <<wire, look, send>>}, n \in 1..2}
  \cup {Agent(<<look, send>>, 3, "low", FALSE, FALSE)}
  \cup {Agent(<<look, send>>, 2, "high", h, FALSE) : h \in BOOLEAN}
  \cup {Agent(<<send, look>>, 2, "low", FALSE, TRUE)}

=============================================================================
