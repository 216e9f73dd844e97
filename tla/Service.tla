------------------------------- MODULE Service -------------------------------
(***************************************************************************)
(* The process behind the HTTP interface (backend/fingent/app.py): its     *)
(* requests sign in and up, deploy and withdraw an agent, and talk to it,  *)
(* all over one store; a restart ends every request and keeps the tables.  *)
(***************************************************************************)
EXTENDS Accounts, Deployments, Chat

VARIABLES
  restarts

CONSTANTS
  AuthRequired,   \* _AUTH_REQUIRED; otherwise everyone is an admin
  ServiceTokens,  \* whether FINGENT_TENANT_TOKENS names any
  MaxRestarts     \* bound

ASSUME ServiceAssumption ==
  /\ AuthRequired \in BOOLEAN /\ ServiceTokens \in BOOLEAN
  /\ ServiceTokens => AuthRequired
  /\ NoRequest \notin SignInCall \cup DeploymentCall \cup ChatCall
  /\ MaxRestarts \in Nat

vars == <<accountVars, deploymentVars, chatVars, requests, accepted, restarts>>

TypeOK ==
  /\ requests \in [Threads -> SignInCall \cup DeploymentCall \cup ChatCall \cup {NoRequest}]
  /\ accepted \in 0..MaxRequests
  /\ restarts \in 0..MaxRestarts
  /\ AccountsTypeOK /\ DeploymentsTypeOK /\ ChatTypeOK

Init ==
  /\ requests = [t \in Threads |-> NoRequest] /\ accepted = 0 /\ restarts = 0
  /\ AccountsInit /\ DeploymentsInit /\ ChatInit

\* The endpoints that open sessions.
SignIn ==
  /\ \/ \E t \in Threads :
          \/ SignInStep(t)
          \/ \E u \in Users, password \in Passwords :
               BeginLogin(t, u, password) \/ BeginSignup(t, u, password)
     \/ \E u \in Users : LockOpens(u) \/ SessionEnds(u)
  /\ UNCHANGED <<deploymentVars, chatVars, restarts>>

\* _context and _authz let somebody in: open dev mode, a service token, a session.
Authorized == ~AuthRequired \/ ServiceTokens \/ \E u \in Users : sessions[u] > 0

\* The endpoints of an agent's lifecycle.
Administer ==
  /\ \/ \E t \in Threads : DeploymentStep(t)
     \/ /\ Authorized
        /\ \/ \E t \in Threads : BeginDeploy(t) \/ BeginUndeploy(t) \/ BeginSave(t)
           \/ Delete
  /\ UNCHANGED <<accountVars, chatVars, restarts>>

\* _invoke_ctx of chat_agent: a deploy token opens its agent, else as for the others.
Converse ==
  /\ \E t \in Threads :
       \/ (tokens # {} \/ Authorized) /\ BeginTurn(t)
       \/ Open(t, spec = "on")
       \/ TurnStep(t)
  /\ UNCHANGED <<accountVars, deploymentVars, restarts>>

Restart ==
  /\ restarts < MaxRestarts
  /\ restarts' = restarts + 1
  /\ requests' = [t \in Threads |-> NoRequest]
  /\ AccountsRestart /\ ChatRestart
  /\ UNCHANGED <<deploymentVars, accepted>>

Next == SignIn \/ Administer \/ Converse \/ Restart

Spec == Init /\ [][Next]_vars

=============================================================================
