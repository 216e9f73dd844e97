---------------------------- MODULE MCSupervisor ----------------------------
(* Small instances of Supervisor for TLC: the teams to choose from.        *)
EXTENDS Supervisor

CONSTANTS aml, kyc, credit, memo, k1, k2, k3

Agent(n, t, ds, s, k) ==
  [name |-> n, template |-> t, deps |-> ds, synth |-> s, key |-> k, granted |-> TRUE]

Denied(m) == [m EXCEPT !.granted = FALSE]

\* A chain selected against its order, a cycle with a synthesis agent at its end,
\* two synthesis agents, an agent beside its copy (one key, one template), a lone
\* agent that depends on somebody who is not in the team, and four agents, which is
\* what it takes to revise a plan twice, one of whom may not write where it writes.
SmallTeams ==
  {<<Agent(memo, memo, <<aml>>, TRUE, k3), Agent(aml, aml, <<kyc>>, FALSE, k2), Agent(kyc, kyc, <<>>, FALSE, k1)>>,
   <<Agent(kyc, kyc, <<aml>>, FALSE, k1), Agent(aml, aml, <<kyc>>, FALSE, k2), Agent(memo, memo, <<kyc, aml>>, TRUE, k3)>>,
   <<Agent(kyc, kyc, <<>>, FALSE, k1), Agent(aml, aml, <<kyc>>, TRUE, k2), Agent(memo, memo, <<kyc>>, TRUE, k3)>>,
   <<Agent(kyc, kyc, <<>>, FALSE, k1), Agent(aml, kyc, <<>>, FALSE, k1), Agent(memo, memo, <<kyc>>, TRUE, k3)>>,
   <<Agent(kyc, kyc, <<aml>>, FALSE, k1)>>,
   <<Agent(kyc, kyc, <<credit>>, FALSE, k1), Agent(aml, aml, <<>>, FALSE, k2),
     Agent(memo, memo, <<kyc, aml>>, TRUE, k3), Denied(Agent(credit, credit, <<>>, FALSE, k2))>>}

=============================================================================
