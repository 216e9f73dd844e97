---------------------------- MODULE MCStreamRun ----------------------------
(* Small instances of StreamRun for TLC: the agents to choose from.        *)
EXTENDS StreamRun

CONSTANTS look, feed, send  \* two reading tools, a side-effecting one

Agent(grant, steps, risk, review, icp) ==
  [grant |-> grant, maxSteps |-> steps, risk |-> risk, review |-> review,
   scan |-> TRUE, icp |-> icp]

\* A side-effecting tool before and after another, step limits at and below the
\* length of the allow-list; and readers of low and high risk, with and without
\* review, the scan, and the right to answer without a source.
Chatters ==
  {Agent(g, n, "low", FALSE, FALSE) : g \in {<<send, look>>, <<look, send>>}, n \in 1..2}
  \cup {Agent(<<look, feed>>, 2, r, h, i) : r \in {"low", "high"}, h \in BOOLEAN, i \in BOOLEAN}
  \cup {[Agent(<<look, feed>>, 2, "high", FALSE, FALSE) EXCEPT !.scan = FALSE]}

=============================================================================
