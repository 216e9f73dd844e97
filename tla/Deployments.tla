----------------------------- MODULE Deployments -----------------------------
(***************************************************************************)
(* The deployment of one agent and its tokens: deploy_agent,               *)
(* undeploy_agent, update_agent, create_agent, duplicate_agent and         *)
(* delete_agent (backend/fingent/platform.py), on the enabled column of    *)
(* specs and the deploy_tokens table (store.py).  A step is one statement  *)
(* of the store.                                                           *)
(***************************************************************************)
EXTENDS Requests

CONSTANTS
  Tokens   \* what new_token may return; bound: how many

VARIABLES
  spec,      \* the row of the agent: none, or enabled or not
  issued,    \* tokens handed out so far
  tokens,    \* the deploy_tokens table
  revoked    \* history: tokens that existed when an undeploy began that has returned

deploymentVars == <<spec, issued, tokens, revoked>>

DeploymentCall ==
  [op : {"deploy"}, pc : {"enable", "token"}]
  \cup [op : {"undeploy"}, pc : {"disable", "revoke"}, before : SUBSET Tokens]
  \cup [op : {"save"}, pc : {"save"}]

DeploymentsTypeOK ==
  /\ spec \in {"none", "on", "off"}
  /\ tokens \subseteq issued /\ issued \subseteq Tokens
  /\ revoked \subseteq issued

DeploymentsInit ==
  /\ spec = "on"
  /\ issued = {} /\ tokens = {} /\ revoked = {}

\* deploy_agent, of an agent that is there.
BeginDeploy(t) ==
  /\ spec # "none"
  /\ Accept(t, [op |-> "deploy", pc |-> "enable"])
  /\ UNCHANGED deploymentVars

\* set_enabled: an UPDATE that may find no row any more.
Switch(on) == spec' = IF spec = "none" THEN spec ELSE IF on THEN "on" ELSE "off"

Enable(t) ==
  /\ At(t, "deploy", "enable") /\ Switch(TRUE) /\ Reach(t, "token")
  /\ UNCHANGED <<issued, tokens, revoked>>

\* create_deploy_token, of a token never seen before.
IssueToken(t) ==
  /\ At(t, "deploy", "token")
  /\ \E k \in Tokens \ issued : issued' = issued \cup {k} /\ tokens' = tokens \cup {k}
  /\ Respond(t)
  /\ UNCHANGED <<spec, revoked>>

BeginUndeploy(t) ==
  /\ Accept(t, [op |-> "undeploy", pc |-> "disable", before |-> tokens])
  /\ UNCHANGED deploymentVars

Disable(t) ==
  /\ At(t, "undeploy", "disable") /\ Switch(FALSE) /\ Reach(t, "revoke")
  /\ UNCHANGED <<issued, tokens, revoked>>

\* A bug: one token is revoked where the agent has several.
RevokedOne == IF tokens = {} THEN {} ELSE {CHOOSE k \in tokens : TRUE}

\* The rows revoke_deploy_tokens deletes.
Revoked == tokens

Revoke(t) ==
  /\ At(t, "undeploy", "revoke")
  /\ tokens' = tokens \ Revoked
  /\ revoked' = revoked \cup requests[t].before
  /\ Respond(t)
  /\ UNCHANGED <<spec, issued>>

\* update_agent has read an enabled spec; create_agent and duplicate_agent, under this
\* name, read none. Each calls save_spec later, which enables whatever row is there.
BeginSave(t) ==
  /\ Accept(t, [op |-> "save", pc |-> "save"])
  /\ UNCHANGED deploymentVars

SaveSpec(t) ==
  /\ At(t, "save", "save") /\ spec' = "on" /\ Respond(t)
  /\ UNCHANGED <<issued, tokens, revoked>>

\* delete_agent: the tokens stay.
Delete ==
  /\ spec # "none" /\ spec' = "none"
  /\ UNCHANGED <<issued, tokens, revoked, requests, accepted>>

DeploymentStep(t) ==
  Enable(t) \/ IssueToken(t) \/ Disable(t) \/ Revoke(t) \/ SaveSpec(t)

\* A token handed out before an undeploy began opens nothing once that has returned,
\* whatever deployments, edits and deletions it met (platform.py: undeploy_agent).
RevokedStaysDead == revoked \cap tokens = {}

=============================================================================
