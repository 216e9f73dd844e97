---------------------------- MODULE ServiceProofs ----------------------------
(***************************************************************************)
(* Theorems about the service process, for any number of threads,          *)
(* requests, users, tokens and embedding models.                           *)
(***************************************************************************)
EXTENDS Service, FiniteSetTheorems, SequenceTheorems, TLAPS

-----------------------------------------------------------------------------
(* The requests under way.                                                 *)

LoginCall == [op : {"login"}, user : Users, password : Passwords, pc : {"verify", "count", "clear", "session"}]
SignupCall == [op : {"signup"}, user : Users, password : Passwords, pc : {"lookup", "create", "session"}]
DeployCall == [op : {"deploy"}, pc : {"enable", "token"}]
UndeployCall == [op : {"undeploy"}, pc : {"disable", "revoke"}, before : SUBSET Tokens]
SaveCall == [op : {"save"}, pc : {"save"}]

Calls == SignInCall \cup DeploymentCall \cup ChatCall

LEMMA CallsByOp ==
  ASSUME NEW q \in Calls
  PROVE  /\ q.op = "login" <=> q \in LoginCall
         /\ q.op = "signup" <=> q \in SignupCall
         /\ q.op = "deploy" <=> q \in DeployCall
         /\ q.op = "undeploy" <=> q \in UndeployCall
         /\ q.op = "save" <=> q \in SaveCall
         /\ q.op = "chat" <=> q \in ChatCall
         /\ q.op \in {"login", "signup", "deploy", "undeploy", "save", "chat"}
         /\ q # NoRequest
BY ServiceAssumption
DEF ServiceAssumption, Calls, SignInCall, DeploymentCall, ChatCall, LoginCall, SignupCall,
    DeployCall, UndeployCall, SaveCall

RequestsOk == requests \in [Threads -> Calls \cup {NoRequest}]

\* Thread t goes on with the request q, or is done.
Goes(t, q) ==
  /\ requests' = [requests EXCEPT ![t] = q]
  /\ accepted' = accepted

\* What a step of one endpoint does to the thread t that takes it.
SameCall(q, r) == q.op = r.op /\ q.user = r.user /\ q.password = r.password

LEMMA SignInMoves ==
  ASSUME RequestsOk, NEW t \in Threads, SignInStep(t)
  PROVE  /\ requests[t] \in LoginCall \cup SignupCall
         /\ \E q \in LoginCall \cup SignupCall \cup {NoRequest} :
              /\ Goes(t, q)
              /\ q # NoRequest => SameCall(q, requests[t])
<1>1. requests[t] \in Calls /\ requests[t].op \in {"login", "signup"}
  BY DEF RequestsOk, SignInStep, Verify, CountFailure, ClearFailures, OpenSession, LookUp, CreateUser, At
<1>2. requests[t] \in LoginCall \cup SignupCall
  BY <1>1, CallsByOp
<1>3. CASE Respond(t)
  BY <1>2, <1>3 DEF Respond, Goes
<1>4. ASSUME NEW pc, Reach(t, pc),
             \/ requests[t].op = "login" /\ pc \in {"count", "clear", "session"}
             \/ requests[t].op = "signup" /\ pc \in {"create", "session"}
      PROVE  \E q \in LoginCall \cup SignupCall :
               /\ Goes(t, q)
               /\ SameCall(q, requests[t])
  <2> DEFINE q == [requests[t] EXCEPT !.pc = pc]
  <2>1. /\ q \in LoginCall \cup SignupCall
        /\ SameCall(q, requests[t])
    BY <1>2, <1>4 DEF LoginCall, SignupCall, SameCall
  <2>2. Goes(t, q)
    BY <1>4 DEF Reach, Goes
  <2> QED
    BY <2>1, <2>2
<1>5. CASE Verify(t)
  <2>1. requests[t].op = "login" /\ (Reach(t, "clear") \/ Reach(t, "count"))
    BY <1>5 DEF Verify, At
  <2>2. CASE Reach(t, "clear")
    BY <1>2, <1>4, <2>1, <2>2
  <2>3. CASE Reach(t, "count")
    BY <1>2, <1>4, <2>1, <2>3
  <2> QED
    BY <2>1, <2>2, <2>3
<1>6. CASE ClearFailures(t)
  BY <1>2, <1>4, <1>6 DEF ClearFailures, At
<1>7. CASE LookUp(t)
  BY <1>2, <1>3, <1>4, <1>7 DEF LookUp, At
<1>8. CASE CreateUser(t)
  BY <1>2, <1>4, <1>8 DEF CreateUser, At
<1>9. CASE CountFailure(t) \/ OpenSession(t)
  BY <1>2, <1>3, <1>9 DEF CountFailure, OpenSession
<1> QED
  BY <1>2, <1>5, <1>6, <1>7, <1>8, <1>9 DEF SignInStep

LEMMA DeploymentMoves ==
  ASSUME RequestsOk, NEW t \in Threads, DeploymentStep(t)
  PROVE  /\ requests[t] \in DeployCall \cup UndeployCall \cup SaveCall
         /\ \E q \in DeployCall \cup UndeployCall \cup {NoRequest} :
              /\ Goes(t, q)
              /\ q \in UndeployCall => requests[t] \in UndeployCall /\ q.before = requests[t].before
<1>1. requests[t] \in Calls /\ requests[t].op \in {"deploy", "undeploy", "save"}
  BY DEF RequestsOk, DeploymentStep, Enable, IssueToken, Disable, Revoke, SaveSpec, At
<1>2. /\ requests[t] \in DeployCall \cup UndeployCall \cup SaveCall
      /\ requests[t].op = "deploy" => requests[t] \in DeployCall
      /\ requests[t].op = "undeploy" => requests[t] \in UndeployCall
  BY <1>1, CallsByOp
<1>3. NoRequest \notin UndeployCall
  BY ServiceAssumption DEF ServiceAssumption, UndeployCall, DeploymentCall
<1>4. CASE IssueToken(t) \/ Revoke(t) \/ SaveSpec(t)
  BY <1>2, <1>3, <1>4 DEF IssueToken, Revoke, SaveSpec, Respond, Goes
<1>5. CASE Enable(t)
  <2> DEFINE q == [requests[t] EXCEPT !.pc = "token"]
  <2>1. requests[t] \in DeployCall
    BY <1>2, <1>5 DEF Enable, At
  <2>2. q \in DeployCall /\ q \notin UndeployCall
    BY <2>1 DEF DeployCall, UndeployCall
  <2>3. Goes(t, q)
    BY <1>5 DEF Enable, Reach, Goes
  <2> QED
    BY <1>2, <2>2, <2>3
<1>6. CASE Disable(t)
  <2> DEFINE q == [requests[t] EXCEPT !.pc = "revoke"]
  <2>1. requests[t] \in UndeployCall
    BY <1>2, <1>6 DEF Disable, At
  <2>2. q \in UndeployCall /\ q.before = requests[t].before
    BY <2>1 DEF UndeployCall
  <2>3. Goes(t, q)
    BY <1>6 DEF Disable, Reach, Goes
  <2> QED
    BY <1>2, <2>1, <2>2, <2>3
<1> QED
  BY <1>4, <1>5, <1>6 DEF DeploymentStep

LEMMA ChatMoves ==
  ASSUME RequestsOk, ChatTypeOK, NEW t \in Threads, TurnStep(t) \/ \E on \in BOOLEAN : Open(t, on)
  PROVE  /\ requests[t] \in ChatCall
         /\ \E q \in ChatCall \cup {NoRequest} :
              /\ Goes(t, q)
              /\ q # NoRequest =>
                   /\ q.turn = requests[t].turn
                   /\ q.read = requests[t].read \/ q.read = history
                   /\ \/ q.recalled = requests[t].recalled
                      \/ q.recalled \subseteq {row \in memories : Comparable(row)}
<1>1. requests[t] \in Calls /\ requests[t].op = "chat"
  BY DEF RequestsOk, TurnStep, Open, Recall, Conclude, Fail, AppendTurn, Remember, Leave, At
<1>2. requests[t] \in ChatCall
  BY <1>1, CallsByOp
<1>3. CASE Respond(t)
  BY <1>2, <1>3 DEF Respond, Goes
<1>4. ASSUME NEW pc \in {"final", "remember"}, Reach(t, pc)
      PROVE  \E q \in ChatCall :
               /\ Goes(t, q)
               /\ q.turn = requests[t].turn /\ q.read = requests[t].read
               /\ q.recalled = requests[t].recalled
  <2> DEFINE q == [requests[t] EXCEPT !.pc = pc]
  <2>1. /\ q \in ChatCall /\ q.turn = requests[t].turn /\ q.read = requests[t].read
        /\ q.recalled = requests[t].recalled
    BY <1>2, <1>4 DEF ChatCall
  <2>2. Goes(t, q)
    BY <1>4 DEF Reach, Goes
  <2> QED
    BY <2>1, <2>2
<1>5. CASE Recall(t)
  <2>1. PICK rows \in {{}, {row \in memories : Comparable(row)}} :
          requests' = [requests EXCEPT ![t].pc = "run", ![t].recalled = rows]
    BY <1>5 DEF Recall
  <2> DEFINE q == [requests[t] EXCEPT !.pc = "run", !.recalled = rows]
  <2>2. rows \subseteq {row \in memories : Comparable(row)} /\ rows \subseteq Memory
    BY <2>1 DEF ChatTypeOK
  <2>3. q \in ChatCall /\ q.turn = requests[t].turn /\ q.read = requests[t].read /\ q.recalled = rows
    BY <1>2, <2>2 DEF ChatCall
  <2>4. Goes(t, q)
    BY <1>5, <2>1 DEF Recall, Goes
  <2> QED
    BY <1>2, <2>2, <2>3, <2>4
<1>6. ASSUME NEW on \in BOOLEAN, Open(t, on), on
      PROVE  \E q \in ChatCall :
               /\ Goes(t, q)
               /\ q.turn = requests[t].turn /\ q.read = history /\ q.recalled = requests[t].recalled
  <2> DEFINE q == [requests[t] EXCEPT !.pc = "recall", !.read = history]
  <2>1. /\ q \in ChatCall /\ q.turn = requests[t].turn /\ q.read = history
        /\ q.recalled = requests[t].recalled
    BY <1>2 DEF ChatCall, ChatTypeOK
  <2>2. Goes(t, q)
    BY <1>6 DEF Open, Goes
  <2> QED
    BY <2>1, <2>2
<1>7. CASE Conclude(t)
  BY <1>2, <1>4, <1>7 DEF Conclude
<1>8. CASE AppendTurn(t)
  BY <1>2, <1>4, <1>8 DEF AppendTurn
<1>9. CASE Fail(t) \/ Remember(t) \/ Leave(t)
  BY <1>2, <1>3, <1>9 DEF Fail, Remember, Leave
<1>10. ASSUME NEW on \in BOOLEAN, Open(t, on), ~on PROVE Respond(t)
  BY <1>10 DEF Open
<1> QED
  BY <1>2, <1>3, <1>5, <1>6, <1>7, <1>8, <1>9, <1>10 DEF TurnStep

-----------------------------------------------------------------------------
(* Types.  Tokens that an undeploy is to revoke were handed out.           *)

TypeInv ==
  /\ TypeOK
  /\ \A t \in Threads : requests[t] \in UndeployCall => requests[t].before \subseteq issued

LEMMA GoesType ==
  ASSUME TypeOK, NEW t \in Threads, NEW q \in Calls \cup {NoRequest}, Goes(t, q)
  PROVE  requests' \in [Threads -> Calls \cup {NoRequest}] /\ accepted' \in 0..MaxRequests
BY DEF TypeOK, Goes, Calls

LEMMA AcceptType ==
  ASSUME TypeOK, NEW t \in Threads, NEW q \in Calls, Accept(t, q)
  PROVE  /\ requests' \in [Threads -> Calls \cup {NoRequest}] /\ accepted' \in 0..MaxRequests
         /\ requests[t] = NoRequest /\ requests' = [requests EXCEPT ![t] = q]
         /\ accepted + 1 \in Turns /\ accepted' = accepted + 1
<1>1. MaxRequests \in Nat /\ accepted \in 0..MaxRequests /\ accepted < MaxRequests
  BY RequestsAssumption DEF RequestsAssumption, TypeOK, Accept
<1>2. accepted' \in 0..MaxRequests /\ accepted + 1 \in 1..MaxRequests
  BY <1>1 DEF Accept
<1> QED
  BY <1>2 DEF TypeOK, Accept, Calls, Turns

\* What the other endpoints' requests are when one thread takes a step.
LEMMA BeforeStays ==
  ASSUME TypeInv, NEW t \in Threads, NEW q, requests' = [requests EXCEPT ![t] = q],
         q \in UndeployCall => q.before \subseteq issued, issued \subseteq issued'
  PROVE  \A s \in Threads : requests'[s] \in UndeployCall => requests'[s].before \subseteq issued'
BY DEF TypeInv, TypeOK

LEMMA SignInType ==
  ASSUME TypeInv, SignIn
  PROVE  TypeInv'
<1>1. UNCHANGED <<deploymentVars, chatVars, restarts>>
  BY DEF SignIn
<1>2. /\ RequestsOk
      /\ MaxAttempts \in Nat \ {0} /\ MaxSessions \in Nat
  BY AccountsAssumption DEF TypeInv, TypeOK, RequestsOk, Calls, AccountsAssumption
<1> USE DEF TypeInv
<1>3. ASSUME NEW t \in Threads, SignInStep(t) PROVE TypeInv'
  <2>1. requests[t] \in LoginCall \cup SignupCall
    BY <1>2, <1>3, SignInMoves
  <2>2. PICK q \in LoginCall \cup SignupCall \cup {NoRequest} : Goes(t, q)
    BY <1>2, <1>3, SignInMoves
  <2>3. q \notin UndeployCall /\ q \in Calls \cup {NoRequest}
    BY <2>2, ServiceAssumption
    DEF ServiceAssumption, LoginCall, SignupCall, UndeployCall, Calls, SignInCall, DeploymentCall
  <2>4. requests' \in [Threads -> Calls \cup {NoRequest}] /\ accepted' \in 0..MaxRequests
    BY <2>2, <2>3, GoesType
  <2>5. \A s \in Threads : requests'[s] \in UndeployCall => requests'[s].before \subseteq issued'
    BY <1>1, <2>2, <2>3, BeforeStays DEF Goes, deploymentVars
  <2>6. requests[t].user \in Users /\ requests[t].password \in Passwords
    BY <2>1 DEF LoginCall, SignupCall
  <2>7. AccountsTypeOK'
    <3> USE DEF AccountsTypeOK
    <3>1. AccountsTypeOK
      BY DEF TypeOK
    <3>2. CASE Verify(t)
      BY <2>6, <3>1, <3>2 DEF Verify
    <3>3. CASE CountFailure(t)
      <4> DEFINE u == requests[t].user
      <4>1. fails[u] \in 0..MaxAttempts - 1
        BY <2>6, <3>1
      <4>2. CASE LockNow(fails[u] + 1)
        <5>1. 0 \in 0..MaxAttempts - 1
          BY <1>2
        <5>2. locked' = locked \cup {u} /\ fails' = [fails EXCEPT ![u] = 0]
          BY <3>3, <4>2 DEF CountFailure
        <5> QED
          BY <2>6, <3>1, <3>3, <5>1, <5>2 DEF CountFailure
      <4>3. CASE ~LockNow(fails[u] + 1)
        <5>1. fails[u] + 1 \in 0..MaxAttempts - 1
          BY <1>2, <4>1, <4>3 DEF LockNow
        <5>2. fails' = [fails EXCEPT ![u] = @ + 1] /\ UNCHANGED locked
          BY <3>3, <4>3 DEF CountFailure
        <5> QED
          BY <2>6, <3>1, <3>3, <5>1, <5>2 DEF CountFailure
      <4> QED
        BY <4>2, <4>3
    <3>4. CASE ClearFailures(t)
      <4>1. 0 \in 0..MaxAttempts - 1
        BY <1>2
      <4> QED
        BY <2>6, <3>1, <3>4, <4>1 DEF ClearFailures
    <3>5. CASE OpenSession(t)
      <4>1. sessions[requests[t].user] + 1 \in 0..MaxSessions
        BY <1>2, <2>6, <3>1, <3>5 DEF OpenSession
      <4> QED
        BY <2>6, <3>1, <3>5, <4>1 DEF OpenSession
    <3>6. CASE LookUp(t)
      BY <3>1, <3>6 DEF LookUp, accountVars
    <3>7. CASE CreateUser(t)
      BY <2>6, <3>1, <3>7 DEF CreateUser
    <3> QED
      BY <1>3, <3>2, <3>3, <3>4, <3>5, <3>6, <3>7 DEF SignInStep
  <2> QED
    BY <1>1, <2>4, <2>5, <2>7 DEF TypeOK, DeploymentsTypeOK, ChatTypeOK, deploymentVars, chatVars, Calls
<1>4. ASSUME NEW t \in Threads, NEW u \in Users, NEW password \in Passwords,
             BeginLogin(t, u, password) \/ BeginSignup(t, u, password)
      PROVE  TypeInv'
  <2>1. PICK q \in LoginCall \cup SignupCall : Accept(t, q)
    BY <1>4 DEF BeginLogin, BeginSignup, LoginCall, SignupCall
  <2>2. q \notin UndeployCall /\ q \in Calls
    BY <2>1 DEF LoginCall, SignupCall, UndeployCall, Calls, SignInCall
  <2>3. /\ requests' \in [Threads -> Calls \cup {NoRequest}] /\ accepted' \in 0..MaxRequests
        /\ requests' = [requests EXCEPT ![t] = q]
    BY <2>1, <2>2, AcceptType
  <2>4. \A s \in Threads : requests'[s] \in UndeployCall => requests'[s].before \subseteq issued'
    BY <1>1, <2>2, <2>3, BeforeStays DEF deploymentVars
  <2>5. AccountsTypeOK'
    BY <1>4 DEF BeginLogin, BeginSignup, accountVars, AccountsTypeOK, TypeOK
  <2> QED
    BY <1>1, <2>3, <2>4, <2>5 DEF TypeOK, DeploymentsTypeOK, ChatTypeOK, deploymentVars, chatVars, Calls
<1>5. ASSUME NEW u \in Users, LockOpens(u) \/ SessionEnds(u) PROVE TypeInv'
  <2>1. AccountsTypeOK
    BY DEF TypeOK
  <2>2. AccountsTypeOK'
    <3>1. CASE LockOpens(u)
      BY <2>1, <3>1 DEF LockOpens, AccountsTypeOK
    <3>2. CASE SessionEnds(u)
      <4>1. sessions[u] - 1 \in 0..MaxSessions
        BY <1>2, <2>1, <3>2 DEF SessionEnds, AccountsTypeOK
      <4> QED
        BY <2>1, <3>2, <4>1 DEF SessionEnds, AccountsTypeOK
    <3> QED
      BY <1>5, <3>1, <3>2
  <2> QED
    BY <1>1, <1>5, <2>2 DEF LockOpens, SessionEnds, TypeOK, DeploymentsTypeOK, ChatTypeOK, deploymentVars, chatVars
<1> QED
  BY <1>3, <1>4, <1>5 DEF SignIn

LEMMA AdministerType ==
  ASSUME TypeInv, Administer
  PROVE  TypeInv'
<1>1. UNCHANGED <<accountVars, chatVars, restarts>>
  BY DEF Administer
<1>2. RequestsOk
  BY DEF TypeInv, TypeOK, RequestsOk, Calls
<1> USE DEF TypeInv
<1>3. ASSUME NEW t \in Threads, DeploymentStep(t) PROVE TypeInv'
  <2>1. requests[t] \in DeployCall \cup UndeployCall \cup SaveCall
    BY <1>2, <1>3, DeploymentMoves
  <2>2. PICK q \in DeployCall \cup UndeployCall \cup {NoRequest} :
          /\ Goes(t, q)
          /\ q \in UndeployCall => requests[t] \in UndeployCall /\ q.before = requests[t].before
    BY <1>2, <1>3, DeploymentMoves
  <2>3. q \in Calls \cup {NoRequest}
    BY <2>2 DEF DeployCall, UndeployCall, Calls, DeploymentCall
  <2>4. requests' \in [Threads -> Calls \cup {NoRequest}] /\ accepted' \in 0..MaxRequests
    BY <2>2, <2>3, GoesType
  <2>5. DeploymentsTypeOK' /\ issued \subseteq issued'
    <3> USE DEF DeploymentsTypeOK
    <3>1. DeploymentsTypeOK
      BY DEF TypeOK
    <3>2. CASE Enable(t) \/ Disable(t)
      BY <3>1, <3>2 DEF Enable, Disable, Switch
    <3>3. CASE IssueToken(t)
      BY <3>1, <3>3 DEF IssueToken
    <3>4. CASE Revoke(t)
      <4>1. requests[t] \in UndeployCall
        BY <2>1, <3>4, CallsByOp DEF Revoke, At, DeployCall, SaveCall
      <4>2. requests[t].before \subseteq issued
        BY <4>1
      <4> QED
        BY <3>1, <3>4, <4>2 DEF Revoke
    <3>5. CASE SaveSpec(t)
      BY <3>1, <3>5 DEF SaveSpec
    <3> QED
      BY <1>3, <3>2, <3>3, <3>4, <3>5 DEF DeploymentStep
  <2>6. \A s \in Threads : requests'[s] \in UndeployCall => requests'[s].before \subseteq issued'
    BY <2>2, <2>5, BeforeStays DEF Goes
  <2> QED
    BY <1>1, <2>4, <2>5, <2>6 DEF TypeOK, AccountsTypeOK, ChatTypeOK, accountVars, chatVars, Calls
<1>4. ASSUME NEW t \in Threads, BeginDeploy(t) \/ BeginUndeploy(t) \/ BeginSave(t) PROVE TypeInv'
  <2>1. DeploymentsTypeOK /\ UNCHANGED deploymentVars
    BY <1>4 DEF BeginDeploy, BeginUndeploy, BeginSave, TypeOK
  <2>2. PICK q \in DeployCall \cup UndeployCall \cup SaveCall :
          Accept(t, q) /\ (q \in UndeployCall => q.before \subseteq issued)
    <3>1. CASE BeginDeploy(t)
      <4> DEFINE q == [op |-> "deploy", pc |-> "enable"]
      <4>1. Accept(t, q) /\ q \in DeployCall /\ q \notin UndeployCall
        BY <3>1 DEF BeginDeploy, DeployCall, UndeployCall
      <4> QED
        BY <4>1
    <3>2. CASE BeginUndeploy(t)
      <4> DEFINE q == [op |-> "undeploy", pc |-> "disable", before |-> tokens]
      <4>1. Accept(t, q) /\ q \in UndeployCall /\ q.before \subseteq issued
        BY <2>1, <3>2 DEF BeginUndeploy, UndeployCall, DeploymentsTypeOK
      <4> QED
        BY <4>1
    <3>3. CASE BeginSave(t)
      <4> DEFINE q == [op |-> "save", pc |-> "save"]
      <4>1. Accept(t, q) /\ q \in SaveCall /\ q \notin UndeployCall
        BY <3>3 DEF BeginSave, SaveCall, UndeployCall
      <4> QED
        BY <4>1
    <3> QED
      BY <1>4, <3>1, <3>2, <3>3
  <2>3. q \in Calls
    BY <2>2 DEF DeployCall, UndeployCall, SaveCall, Calls, DeploymentCall
  <2>4. /\ requests' \in [Threads -> Calls \cup {NoRequest}] /\ accepted' \in 0..MaxRequests
        /\ requests' = [requests EXCEPT ![t] = q]
    BY <2>2, <2>3, AcceptType
  <2>5. \A s \in Threads : requests'[s] \in UndeployCall => requests'[s].before \subseteq issued'
    BY <2>1, <2>2, <2>4, BeforeStays DEF deploymentVars
  <2> QED
    BY <1>1, <2>1, <2>4, <2>5
    DEF TypeOK, AccountsTypeOK, ChatTypeOK, DeploymentsTypeOK, accountVars, chatVars, deploymentVars, Calls
<1>5. CASE Delete
  BY <1>1, <1>5
  DEF Delete, TypeOK, AccountsTypeOK, ChatTypeOK, DeploymentsTypeOK, accountVars, chatVars
<1> QED
  BY <1>3, <1>4, <1>5 DEF Administer

\* Working memory keeps messages.
LEMMA LatestType ==
  ASSUME NEW h \in Seq(Message)
  PROVE  Latest(h) \in Seq(Message)
<1>1. MaxTurns \in Nat \ {0} /\ Len(h) \in Nat
  BY ChatAssumption DEF ChatAssumption
<1>2. CASE Len(h) > MaxTurns
  <2>1. Len(h) - MaxTurns + 1 \in 1..Len(h) + 1 /\ Len(h) \in 0..Len(h)
    BY <1>1, <1>2
  <2>2. SubSeq(h, Len(h) - MaxTurns + 1, Len(h)) \in Seq(Message)
    BY <2>1
  <2> QED
    BY <1>2, <2>2 DEF Latest
<1>3. CASE ~(Len(h) > MaxTurns)
  BY <1>3 DEF Latest
<1> QED
  BY <1>2, <1>3

LEMMA ConverseType ==
  ASSUME TypeInv, Converse
  PROVE  TypeInv'
<1>1. UNCHANGED <<accountVars, deploymentVars, restarts>>
  BY DEF Converse
<1>2. RequestsOk /\ ChatTypeOK
  BY DEF TypeInv, TypeOK, RequestsOk, Calls
<1> USE DEF TypeInv
<1>3. ASSUME NEW t \in Threads, TurnStep(t) \/ Open(t, spec = "on") PROVE TypeInv'
  <2>0. TurnStep(t) \/ \E on \in BOOLEAN : Open(t, on)
    BY <1>3
  <2>1. requests[t] \in ChatCall
    BY <1>2, <2>0, ChatMoves
  <2>2. PICK q \in ChatCall \cup {NoRequest} : Goes(t, q)
    BY <1>2, <2>0, ChatMoves
  <2>3. q \in Calls \cup {NoRequest} /\ q \notin UndeployCall
    BY <2>2, ServiceAssumption
    DEF ServiceAssumption, ChatCall, UndeployCall, Calls, DeploymentCall
  <2>4. requests' \in [Threads -> Calls \cup {NoRequest}] /\ accepted' \in 0..MaxRequests
    BY <2>2, <2>3, GoesType
  <2>5. \A s \in Threads : requests'[s] \in UndeployCall => requests'[s].before \subseteq issued'
    BY <1>1, <2>2, <2>3, BeforeStays DEF Goes, deploymentVars
  <2>6. ChatTypeOK'
    <3>1. requests[t].turn \in Turns
      BY <2>1 DEF ChatCall
    <3>2. CASE Recall(t) \/ Fail(t) \/ Leave(t) \/ Open(t, spec = "on")
      BY <1>2, <3>2 DEF Recall, Fail, Leave, Open, ChatTypeOK, chatVars
    <3>3. CASE Conclude(t)
      BY <1>2, <3>1, <3>3 DEF Conclude, ChatTypeOK
    <3>4. CASE AppendTurn(t)
      <4> DEFINE ask == [role |-> "user", turn |-> requests[t].turn]
                 answer == [role |-> "assistant", turn |-> requests[t].turn]
      <4>1. ask \in Message /\ answer \in Message
        BY <3>1 DEF Message
      <4>2. history \in Seq(Message)
        BY <1>2 DEF ChatTypeOK
      <4>3. history' = Latest(history \o <<ask, answer>>)
        BY <3>4 DEF AppendTurn
      <4> HIDE DEF ask, answer
      <4>4. history \o <<ask, answer>> \in Seq(Message)
        BY <4>1, <4>2
      <4>5. history' \in Seq(Message)
        BY <4>3, <4>4, LatestType
      <4> QED
        BY <1>2, <3>4, <4>5 DEF AppendTurn, ChatTypeOK
    <3>5. CASE Remember(t)
      <4>1. Labelled(requests[t].turn) \subseteq Memory
        BY <1>2, <3>1, ChatAssumption DEF Labelled, Memory, ChatTypeOK, ChatAssumption
      <4> QED
        BY <1>2, <3>5, <4>1 DEF Remember, ChatTypeOK
    <3> QED
      BY <1>3, <3>2, <3>3, <3>4, <3>5 DEF TurnStep
  <2> QED
    BY <1>1, <2>4, <2>5, <2>6 DEF TypeOK, AccountsTypeOK, DeploymentsTypeOK, accountVars, deploymentVars, Calls
<1>4. ASSUME NEW t \in Threads, BeginTurn(t) PROVE TypeInv'
  <2> DEFINE q == [op |-> "chat", pc |-> "open", turn |-> accepted + 1, read |-> <<>>, recalled |-> {}]
  <2>1. Accept(t, q)
    BY <1>4 DEF BeginTurn
  <2>2. accepted + 1 \in Turns
    BY <2>1, RequestsAssumption DEF RequestsAssumption, TypeOK, Accept, Turns
  <2>3. q \in ChatCall /\ q \notin UndeployCall
    BY <2>2 DEF ChatCall, UndeployCall
  <2>4. q \in Calls
    BY <2>3 DEF Calls
  <2> HIDE DEF q
  <2>5. /\ requests' \in [Threads -> Calls \cup {NoRequest}] /\ accepted' \in 0..MaxRequests
        /\ requests' = [requests EXCEPT ![t] = q]
    BY <2>1, <2>4, AcceptType
  <2>6. \A s \in Threads : requests'[s] \in UndeployCall => requests'[s].before \subseteq issued'
    BY <1>1, <2>3, <2>5, BeforeStays DEF deploymentVars
  <2> QED
    BY <1>1, <1>2, <1>4, <2>5, <2>6
    DEF BeginTurn, TypeOK, AccountsTypeOK, ChatTypeOK, DeploymentsTypeOK, accountVars, chatVars, deploymentVars, Calls
<1> QED
  BY <1>3, <1>4 DEF Converse

LEMMA RestartType ==
  ASSUME TypeInv, Restart
  PROVE  TypeInv'
<1> USE DEF TypeInv, TypeOK
<1>1. NoRequest \notin UndeployCall
  BY ServiceAssumption DEF ServiceAssumption, UndeployCall, DeploymentCall
<1>2. requests' = [t \in Threads |-> NoRequest]
  BY DEF Restart
<1>3. restarts' \in 0..MaxRestarts
  BY ServiceAssumption DEF ServiceAssumption, Restart
<1>4. AccountsTypeOK'
  <2>1. 0 \in 0..MaxAttempts - 1
    BY AccountsAssumption DEF AccountsAssumption
  <2> QED
    BY <2>1 DEF Restart, AccountsRestart, AccountsTypeOK
<1>5. ChatTypeOK'
  BY DEF Restart, ChatRestart, ChatTypeOK
<1> QED
  BY <1>1, <1>2, <1>3, <1>4, <1>5 DEF Restart, DeploymentsTypeOK, deploymentVars

LEMMA TypeInit == Init => TypeInv
<1> SUFFICES ASSUME Init PROVE TypeInv
  OBVIOUS
<1> USE DEF Init
<1>1. NoRequest \notin UndeployCall
  BY ServiceAssumption DEF ServiceAssumption, UndeployCall, DeploymentCall
<1>2. AccountsTypeOK
  BY AccountsAssumption DEF AccountsAssumption, AccountsInit, AccountsTypeOK
<1>3. DeploymentsTypeOK /\ ChatTypeOK
  BY DEF DeploymentsInit, DeploymentsTypeOK, ChatInit, ChatTypeOK
<1>4. accepted \in 0..MaxRequests /\ restarts \in 0..MaxRestarts
  BY ServiceAssumption, RequestsAssumption DEF ServiceAssumption, RequestsAssumption
<1> QED
  BY <1>1, <1>2, <1>3, <1>4 DEF TypeInv, TypeOK

LEMMA AlwaysTypeInv == Spec => []TypeInv
<1>1. ASSUME TypeInv, UNCHANGED vars PROVE TypeInv'
  BY <1>1 DEF TypeInv, TypeOK, AccountsTypeOK, DeploymentsTypeOK, ChatTypeOK, vars, accountVars,
              deploymentVars, chatVars
<1>2. TypeInv /\ [Next]_vars => TypeInv'
  BY <1>1, SignInType, AdministerType, ConverseType, RestartType DEF Next
<1> QED
  BY <1>2, TypeInit, PTL DEF Spec

\* Requests, accounts, tokens and memories keep their types, however requests overlap
\* and whenever the process restarts.
THEOREM TypeCorrect == Spec => []TypeOK
<1>1. TypeInv => TypeOK
  BY DEF TypeInv
<1> QED
  BY <1>1, AlwaysTypeInv, PTL

-----------------------------------------------------------------------------
(* Tokens.  A token is never handed out twice, and an undeploy only counts *)
(* those that were handed out when it began.                               *)

\* Revoked tokens stay dead, for any overlap of deployments and withdrawals
\* (undeploy_agent).
THEOREM RevokedAreDead == Spec => []RevokedStaysDead
<1>1. Init => RevokedStaysDead
  BY DEF Init, DeploymentsInit, RevokedStaysDead
<1>2. ASSUME TypeInv, RevokedStaysDead, [Next]_vars PROVE RevokedStaysDead'
  <2> USE <1>2 DEF RevokedStaysDead
  <2>1. revoked \subseteq issued
    BY DEF TypeInv, TypeOK, DeploymentsTypeOK
  <2>2. CASE UNCHANGED <<tokens, revoked>>
    BY <2>2
  <2>3. ASSUME NEW t \in Threads, DeploymentStep(t) PROVE RevokedStaysDead'
    <3>1. CASE IssueToken(t)
      BY <2>1, <3>1 DEF IssueToken
    <3>2. CASE Revoke(t)
      <4>1. tokens' = {}
        BY <3>2 DEF Revoke, Revoked
      <4> QED
        BY <4>1
    <3>3. CASE Enable(t) \/ Disable(t) \/ SaveSpec(t)
      BY <3>3 DEF Enable, Disable, SaveSpec
    <3> QED
      BY <2>3, <3>1, <3>2, <3>3 DEF DeploymentStep
  <2>4. CASE Administer
    BY <2>3, <2>4
    DEF Administer, BeginDeploy, BeginUndeploy, BeginSave, Delete, deploymentVars
  <2>5. CASE SignIn \/ Converse \/ Restart \/ UNCHANGED vars
    BY <2>5 DEF SignIn, Converse, Restart, vars, deploymentVars
  <2> QED
    BY <2>4, <2>5 DEF Next
<1> QED
  BY <1>1, <1>2, AlwaysTypeInv, PTL DEF Spec

-----------------------------------------------------------------------------
(* Accounts.  Whoever is past the lookup saw no account, and as long as    *)
(* nobody else signs up under that name there is none.                     *)

Signing(t, u) == requests[t] \in SignupCall /\ requests[t].user = u

KeptInv ==
  \A u \in Users : u \notin overlapped =>
    /\ \A s, t \in Threads : Signing(s, u) /\ Signing(t, u) => s = t
    /\ \A t \in Threads : Signing(t, u) /\ requests[t].pc = "create" => accounts[u] = NoAccount

\* A thread that is given a request of another kind signs nobody up.
LEMMA KeptElsewhere ==
  ASSUME TypeInv, KeptInv, UNCHANGED <<accounts, overlapped>>,
         \A t \in Threads : requests'[t] \in SignupCall => requests'[t] = requests[t]
  PROVE  KeptInv'
BY DEF KeptInv, Signing

LEMMA KeptBySignIn ==
  ASSUME TypeInv, KeptInv, SignIn
  PROVE  KeptInv'
<1>1. RequestsOk /\ requests \in [Threads -> Calls \cup {NoRequest}]
  BY DEF TypeInv, TypeOK, RequestsOk, Calls
<1>2. NoRequest \notin SignupCall
  BY ServiceAssumption DEF ServiceAssumption, SignupCall, SignInCall
<1>3. ASSUME NEW t \in Threads, SignInStep(t) PROVE KeptInv'
  <2>1. requests[t] \in LoginCall \cup SignupCall
    BY <1>1, <1>3, SignInMoves
  <2>2. PICK q \in LoginCall \cup SignupCall \cup {NoRequest} :
          Goes(t, q) /\ (q # NoRequest => SameCall(q, requests[t]))
    BY <1>1, <1>3, SignInMoves
  <2>3. requests' = [requests EXCEPT ![t] = q] /\ requests'[t] = q
    BY <1>1, <2>2 DEF Goes
  <2>4. q \in SignupCall => requests[t] \in SignupCall /\ q.user = requests[t].user
    BY <1>2, <2>1, <2>2 DEF SameCall, SignupCall, LoginCall
  <2>5. \A s \in Threads, u \in Users : Signing(s, u)' => Signing(s, u)
    BY <1>1, <2>3, <2>4 DEF Signing
  <2>6. UNCHANGED overlapped
    BY <1>3 DEF SignInStep, Verify, CountFailure, ClearFailures, OpenSession, LookUp, CreateUser, accountVars
  <2>7. CASE LookUp(t)
    <3>1. ASSUME NEW u \in Users, u \notin overlapped, Signing(t, u)', requests'[t].pc = "create"
          PROVE  accounts[u] = NoAccount
      <4>1. requests[t].user = u /\ q # NoRequest
        BY <1>2, <2>3, <2>4, <3>1 DEF Signing
      <4>2. ~Taken(u)
        <5>1. CASE Respond(t)
          <6>1. requests'[t] = NoRequest
            BY <1>1, <5>1 DEF Respond
          <6> QED
            BY <2>3, <4>1, <6>1
        <5> QED
          BY <2>7, <4>1, <5>1 DEF LookUp
      <4>3. UserRecord(u) = NoAccount
        BY <4>2 DEF Taken
      <4> QED
        BY <4>3, AccountsAssumption DEF UserRecord, AccountsAssumption
    <3>2. UNCHANGED accounts
      BY <2>7 DEF LookUp, accountVars
    <3>3. \A s \in Threads : s # t => requests'[s] = requests[s]
      BY <1>1, <2>3
    <3> QED
      BY <2>5, <2>6, <3>1, <3>2, <3>3 DEF KeptInv
  <2>8. CASE CreateUser(t)
    <3>1. /\ requests[t].op = "signup" /\ requests[t].pc = "create"
          /\ accounts' = [accounts EXCEPT ![requests[t].user] = requests[t].password]
          /\ requests' = [requests EXCEPT ![t].pc = "session"]
      BY <2>8 DEF CreateUser, At, Reach
    <3>2. requests[t] \in SignupCall
      BY <2>1, <3>1 DEF LoginCall, SignupCall
    <3>3. requests'[t].pc = "session"
      BY <1>1, <3>1, <3>2 DEF SignupCall
    <3>4. Signing(t, requests[t].user) /\ requests[t].user \in Users
      BY <3>2 DEF Signing, SignupCall
    <3>5. \A s \in Threads : s # t => requests'[s] = requests[s]
      BY <1>1, <2>3
    <3>6. accounts \in [Users -> Passwords \cup {NoAccount}]
      BY DEF TypeInv, TypeOK, AccountsTypeOK
    <3>7. ASSUME NEW u \in Users, u \notin overlapped, NEW s \in Threads,
                 Signing(s, u)', requests'[s].pc = "create"
          PROVE  accounts'[u] = NoAccount
      <4>1. s # t /\ Signing(s, u) /\ requests[s].pc = "create"
        BY <2>5, <3>3, <3>5, <3>7
      <4>2. u # requests[t].user
        BY <3>4, <3>7, <4>1 DEF KeptInv
      <4> QED
        BY <3>1, <3>6, <3>7, <4>1, <4>2 DEF KeptInv
    <3> QED
      BY <2>5, <2>6, <3>7 DEF KeptInv
  <2>9. CASE Verify(t) \/ CountFailure(t) \/ ClearFailures(t) \/ OpenSession(t)
    <3>1. UNCHANGED <<accounts, overlapped>>
      BY <2>9 DEF Verify, CountFailure, ClearFailures, OpenSession
    <3>2. q \notin SignupCall
      <4>1. requests[t].op = "login" \/ Respond(t)
        BY <2>9 DEF Verify, CountFailure, ClearFailures, OpenSession, At
      <4>2. CASE requests[t].op = "login"
        BY <2>4, <4>2 DEF SignupCall
      <4>3. CASE Respond(t)
        <5>1. requests'[t] = NoRequest
          BY <1>1, <4>3 DEF Respond
        <5> QED
          BY <1>2, <2>3, <5>1
      <4> QED
        BY <4>1, <4>2, <4>3
    <3>3. \A s \in Threads : requests'[s] \in SignupCall => requests'[s] = requests[s]
      BY <1>1, <2>3, <3>2
    <3> QED
      BY <3>1, <3>3, KeptElsewhere
  <2> QED
    BY <1>3, <2>7, <2>8, <2>9 DEF SignInStep
<1>4. ASSUME NEW t \in Threads, NEW u \in Users, NEW password \in Passwords, BeginSignup(t, u, password)
      PROVE  KeptInv'
  <2> DEFINE q == [op |-> "signup", user |-> u, password |-> password, pc |-> "lookup"]
  <2>1. q \in SignupCall /\ q.user = u /\ q.pc = "lookup"
    BY DEF SignupCall
  <2>2. q \in Calls /\ Accept(t, q)
    BY <1>4, <2>1 DEF BeginSignup, Calls, SignInCall, SignupCall
  <2> HIDE DEF q
  <2>3. requests' = [requests EXCEPT ![t] = q] /\ requests[t] = NoRequest
    BY <2>2, AcceptType DEF TypeInv
  <2>4. /\ UNCHANGED accounts
        /\ overlapped' = IF SigningUp(u) = {} THEN overlapped ELSE overlapped \cup {u}
    BY <1>4 DEF BeginSignup
  <2>5. /\ requests'[t] = q
        /\ \A s \in Threads : s # t => requests'[s] = requests[s]
    BY <1>1, <2>3
  <2>6. ASSUME u \notin overlapped', NEW s \in Threads, s # t, requests[s] \in SignupCall
        PROVE  requests[s].user # u
    <3>1. SigningUp(u) = {}
      BY <2>4, <2>6
    <3>2. requests[s] # NoRequest /\ requests[s].op = "signup"
      BY <1>2, <2>6 DEF SignupCall
    <3> QED
      BY <3>1, <3>2 DEF SigningUp
  <2>7. \A v \in Users : v \notin overlapped' => v \notin overlapped
    BY <2>4
  <2> QED
    BY <2>1, <2>4, <2>5, <2>6, <2>7 DEF KeptInv, Signing
<1>5. ASSUME NEW t \in Threads, NEW u \in Users, NEW password \in Passwords, BeginLogin(t, u, password)
      PROVE  KeptInv'
  <2> DEFINE q == [op |-> "login", user |-> u, password |-> password, pc |-> "verify"]
  <2>1. q \in LoginCall /\ q \notin SignupCall
    BY DEF LoginCall, SignupCall
  <2>2. q \in Calls /\ Accept(t, q)
    BY <1>5, <2>1 DEF BeginLogin, Calls, SignInCall, LoginCall
  <2> HIDE DEF q
  <2>3. requests' = [requests EXCEPT ![t] = q]
    BY <2>2, AcceptType DEF TypeInv
  <2>4. \A s \in Threads : requests'[s] \in SignupCall => requests'[s] = requests[s]
    BY <1>1, <2>1, <2>3
  <2> QED
    BY <1>5, <2>4, KeptElsewhere DEF BeginLogin, accountVars
<1>6. ASSUME NEW u \in Users, LockOpens(u) \/ SessionEnds(u) PROVE KeptInv'
  BY <1>6, KeptElsewhere DEF LockOpens, SessionEnds
<1> QED
  BY <1>3, <1>4, <1>5, <1>6 DEF SignIn

\* The other endpoints, and a restart, begin no login and no sign-up and move none.
LEMMA SignInElsewhere ==
  ASSUME TypeInv, Administer \/ Converse \/ Restart \/ UNCHANGED vars
  PROVE  \A s \in Threads : requests'[s] \in LoginCall \cup SignupCall => requests'[s] = requests[s]
<1>1. requests \in [Threads -> Calls \cup {NoRequest}] /\ RequestsOk /\ ChatTypeOK
  BY DEF TypeInv, TypeOK, RequestsOk, Calls
<1>2. NoRequest \notin LoginCall \cup SignupCall
  BY ServiceAssumption DEF ServiceAssumption, LoginCall, SignupCall, SignInCall
<1>3. ASSUME NEW t \in Threads, NEW q, requests' = [requests EXCEPT ![t] = q],
             q \notin LoginCall \cup SignupCall
      PROVE  \A s \in Threads : requests'[s] \in LoginCall \cup SignupCall => requests'[s] = requests[s]
  BY <1>1, <1>3
<1>4. ASSUME NEW t \in Threads, DeploymentStep(t)
      PROVE  \E q : requests' = [requests EXCEPT ![t] = q] /\ q \notin LoginCall \cup SignupCall
  <2>1. PICK q \in DeployCall \cup UndeployCall \cup {NoRequest} : Goes(t, q)
    BY <1>1, <1>4, DeploymentMoves
  <2>2. q \notin LoginCall \cup SignupCall
    BY <1>2, <2>1 DEF DeployCall, UndeployCall, LoginCall, SignupCall
  <2> QED
    BY <2>1, <2>2 DEF Goes
<1>5. ASSUME NEW t \in Threads, TurnStep(t) \/ \E on \in BOOLEAN : Open(t, on)
      PROVE  \E q : requests' = [requests EXCEPT ![t] = q] /\ q \notin LoginCall \cup SignupCall
  <2>1. PICK q \in ChatCall \cup {NoRequest} : Goes(t, q)
    BY <1>1, <1>5, ChatMoves
  <2>2. q \notin LoginCall \cup SignupCall
    BY <1>2, <2>1 DEF ChatCall, LoginCall, SignupCall
  <2> QED
    BY <2>1, <2>2 DEF Goes
<1>6. ASSUME NEW t \in Threads, BeginDeploy(t) \/ BeginUndeploy(t) \/ BeginSave(t) \/ BeginTurn(t)
      PROVE  \E q : requests' = [requests EXCEPT ![t] = q] /\ q \notin LoginCall \cup SignupCall
  BY <1>6 DEF BeginDeploy, BeginUndeploy, BeginSave, BeginTurn, Accept, LoginCall, SignupCall
<1>7. CASE Administer
  <2>1. CASE Delete
    BY <2>1 DEF Delete
  <2> QED
    BY <1>3, <1>4, <1>6, <1>7, <2>1 DEF Administer
<1>8. CASE Converse
  <2>1. ASSUME NEW t \in Threads, Open(t, spec = "on") PROVE \E on \in BOOLEAN : Open(t, on)
    BY <2>1
  <2> QED
    BY <1>3, <1>5, <1>6, <1>8, <2>1 DEF Converse
<1>9. CASE Restart
  BY <1>2, <1>9 DEF Restart
<1>10. CASE UNCHANGED vars
  BY <1>10 DEF vars
<1> QED
  BY <1>7, <1>8, <1>9, <1>10

\* Nobody's account is replaced unless sign-ups of that name overlapped, for any number
\* of threads and restarts (signup: "username already exists").
THEOREM AccountsAreKept == Spec => AccountsKept
<1>1. Init => KeptInv
  <2>1. NoRequest \notin SignupCall
    BY ServiceAssumption DEF ServiceAssumption, SignupCall, SignInCall
  <2> QED
    BY <2>1 DEF Init, KeptInv, Signing
<1>2. ASSUME TypeInv, KeptInv, [Next]_vars PROVE KeptInv'
  <2>1. CASE SignIn
    BY <1>2, <2>1, KeptBySignIn
  <2>2. CASE Administer \/ Converse \/ Restart \/ UNCHANGED vars
    <3>1. UNCHANGED <<accounts, overlapped>>
      BY <2>2 DEF Administer, Converse, Restart, vars, accountVars, AccountsRestart
    <3> QED
      BY <1>2, <2>2, <3>1, SignInElsewhere, KeptElsewhere
  <2> QED
    BY <1>2, <2>1, <2>2 DEF Next
<1>3. ASSUME TypeInv, KeptInv, [Next]_vars
      PROVE  [\A u \in Users : accounts[u] # NoAccount /\ accounts'[u] # accounts[u] => u \in overlapped]_accounts
  <2>1. CASE UNCHANGED accounts
    BY <2>1
  <2>2. ASSUME NEW t \in Threads, CreateUser(t), NEW u \in Users,
               accounts[u] # NoAccount, accounts'[u] # accounts[u]
        PROVE  u \in overlapped
    <3>1. requests[t].op = "signup" /\ requests[t].pc = "create" /\ requests[t] \in Calls
      BY <1>3, <2>2 DEF CreateUser, At, TypeInv, TypeOK, Calls
    <3>2. requests[t] \in SignupCall
      BY <3>1, CallsByOp
    <3>3. accounts \in [Users -> Passwords \cup {NoAccount}]
      BY <1>3 DEF TypeInv, TypeOK, AccountsTypeOK
    <3>4. requests[t].user = u
      BY <2>2, <3>3 DEF CreateUser
    <3> QED
      BY <1>3, <2>2, <3>1, <3>2, <3>4 DEF KeptInv, Signing
  <2>3. UNCHANGED accounts \/ \E t \in Threads : CreateUser(t)
    BY <1>3
    DEF Next, SignIn, SignInStep, Verify, CountFailure, ClearFailures, OpenSession, LookUp, BeginLogin,
        BeginSignup, LockOpens, SessionEnds, Administer, Converse, Restart, vars, accountVars, AccountsRestart
  <2> QED
    BY <2>1, <2>2, <2>3
<1> QED
  BY <1>1, <1>2, <1>3, AlwaysTypeInv, PTL DEF Spec, AccountsKept

-----------------------------------------------------------------------------
(* Memories.  A row is of the model it is labelled with, or lexical.       *)

\* No model has vectors as long as the lexical ones.
LexicalApart == \A m \in Models : Dim[m] = Dim[Lexical] => m = Lexical

MixInv ==
  /\ \A row \in memories : row.vec = row.embedder \/ row.vec = Lexical
  /\ \A t \in Threads : requests[t] \in ChatCall =>
       \A row \in requests[t].recalled : row.vec = embedder

LEMMA MixStep ==
  ASSUME LexicalApart, TypeInv, MixInv, [Next]_vars
  PROVE  MixInv'
<1>1. /\ requests \in [Threads -> Calls \cup {NoRequest}] /\ RequestsOk
      /\ ChatTypeOK /\ memories \subseteq Memory /\ embedder \in Models
  BY DEF TypeInv, TypeOK, RequestsOk, Calls, ChatTypeOK
<1>2. NoRequest \notin ChatCall
  BY ServiceAssumption DEF ServiceAssumption, ChatCall
<1>3. ASSUME UNCHANGED embedder, \A row \in memories' : row.vec = row.embedder \/ row.vec = Lexical,
             NEW t \in Threads, NEW q, requests' = [requests EXCEPT ![t] = q],
             q \in ChatCall => \A row \in q.recalled : row.vec = embedder
      PROVE  MixInv'
  BY <1>1, <1>3 DEF MixInv
<1>4. ASSUME NEW row \in memories, Comparable(row) PROVE row.vec = embedder
  <2>1. row.vec \in Models /\ row.embedder = embedder /\ Dim[row.vec] = Dim[embedder]
    BY <1>1, <1>4 DEF Memory, Comparable
  <2> QED
    BY <1>1, <1>4, <2>1 DEF MixInv, LexicalApart
<1>5. ASSUME NEW t \in Threads, TurnStep(t) \/ Open(t, spec = "on") PROVE MixInv'
  <2>0. TurnStep(t) \/ \E on \in BOOLEAN : Open(t, on)
    BY <1>5
  <2>1. requests[t] \in ChatCall
    BY <1>1, <2>0, ChatMoves
  <2>2. PICK q \in ChatCall \cup {NoRequest} :
          /\ Goes(t, q)
          /\ q # NoRequest =>
               /\ q.turn = requests[t].turn
               /\ q.read = requests[t].read \/ q.read = history
               /\ \/ q.recalled = requests[t].recalled
                  \/ q.recalled \subseteq {row \in memories : Comparable(row)}
    BY <1>1, <2>0, ChatMoves
  <2>3. q \in ChatCall => \A row \in q.recalled : row.vec = embedder
    BY <1>2, <1>4, <2>1, <2>2 DEF MixInv
  <2>4. UNCHANGED embedder
    BY <1>5 DEF TurnStep, Open, Recall, Conclude, Fail, AppendTurn, Remember, Leave, chatVars
  <2>5. \A row \in memories' : row.vec = row.embedder \/ row.vec = Lexical
    <3>1. UNCHANGED memories \/ Remember(t)
      BY <1>5 DEF TurnStep, Open, Recall, Conclude, Fail, AppendTurn, Leave, chatVars
    <3> QED
      BY <3>1 DEF Remember, Labelled, MixInv
  <2> QED
    BY <1>3, <2>2, <2>3, <2>4, <2>5 DEF Goes
<1>6. ASSUME NEW t \in Threads, BeginTurn(t) PROVE MixInv'
  <2> DEFINE q == [op |-> "chat", pc |-> "open", turn |-> accepted + 1, read |-> <<>>, recalled |-> {}]
  <2>1. requests' = [requests EXCEPT ![t] = q] /\ UNCHANGED <<embedder, memories>>
    BY <1>6 DEF BeginTurn, Accept, chatVars
  <2>2. q.recalled = {}
    OBVIOUS
  <2> HIDE DEF q
  <2> QED
    BY <1>3, <2>1, <2>2 DEF MixInv
<1>7. CASE Converse
  BY <1>5, <1>6, <1>7 DEF Converse
<1>8. CASE Restart
  BY <1>2, <1>8 DEF Restart, ChatRestart, MixInv
<1>9. CASE SignIn \/ Administer \/ UNCHANGED vars
  <2>1. UNCHANGED <<embedder, memories>>
    BY <1>9 DEF SignIn, Administer, vars, chatVars
  <2>2. \A s \in Threads : requests'[s] \in ChatCall => requests'[s] = requests[s]
    <3>1. ASSUME NEW t \in Threads, NEW q, requests' = [requests EXCEPT ![t] = q], q \notin ChatCall
          PROVE  \A s \in Threads : requests'[s] \in ChatCall => requests'[s] = requests[s]
      BY <1>1, <3>1
    <3>2. ASSUME NEW t \in Threads, SignInStep(t)
          PROVE  \E q : requests' = [requests EXCEPT ![t] = q] /\ q \notin ChatCall
      <4>1. PICK q \in LoginCall \cup SignupCall \cup {NoRequest} : Goes(t, q)
        BY <1>1, <3>2, SignInMoves
      <4>2. q \notin ChatCall
        BY <1>2, <4>1 DEF LoginCall, SignupCall, ChatCall
      <4> QED
        BY <4>1, <4>2 DEF Goes
    <3>3. ASSUME NEW t \in Threads, DeploymentStep(t)
          PROVE  \E q : requests' = [requests EXCEPT ![t] = q] /\ q \notin ChatCall
      <4>1. PICK q \in DeployCall \cup UndeployCall \cup {NoRequest} : Goes(t, q)
        BY <1>1, <3>3, DeploymentMoves
      <4>2. q \notin ChatCall
        BY <1>2, <4>1 DEF DeployCall, UndeployCall, ChatCall
      <4> QED
        BY <4>1, <4>2 DEF Goes
    <3>4. ASSUME NEW t \in Threads,
                 \/ BeginDeploy(t) \/ BeginUndeploy(t) \/ BeginSave(t)
                 \/ \E u \in Users, password \in Passwords : BeginLogin(t, u, password) \/ BeginSignup(t, u, password)
          PROVE  \E q : requests' = [requests EXCEPT ![t] = q] /\ q \notin ChatCall
      <4>1. ASSUME NEW r, Accept(t, r), r.op # "chat"
            PROVE  \E q : requests' = [requests EXCEPT ![t] = q] /\ q \notin ChatCall
        <5>1. r \notin ChatCall
          BY <4>1 DEF ChatCall
        <5> QED
          BY <4>1, <5>1 DEF Accept
      <4>2. CASE BeginDeploy(t)
        BY <4>1, <4>2 DEF BeginDeploy
      <4>3. CASE BeginUndeploy(t)
        BY <4>1, <4>3 DEF BeginUndeploy
      <4>4. CASE BeginSave(t)
        BY <4>1, <4>4 DEF BeginSave
      <4>5. ASSUME NEW u \in Users, NEW password \in Passwords, BeginLogin(t, u, password)
            PROVE  \E q : requests' = [requests EXCEPT ![t] = q] /\ q \notin ChatCall
        BY <4>1, <4>5 DEF BeginLogin
      <4>6. ASSUME NEW u \in Users, NEW password \in Passwords, BeginSignup(t, u, password)
            PROVE  \E q : requests' = [requests EXCEPT ![t] = q] /\ q \notin ChatCall
        BY <4>1, <4>6 DEF BeginSignup
      <4> QED
        BY <3>4, <4>2, <4>3, <4>4, <4>5, <4>6
    <3>5. CASE UNCHANGED requests
      BY <3>5
    <3>6. \/ UNCHANGED requests
          \/ \E t \in Threads :
               \/ SignInStep(t) \/ DeploymentStep(t)
               \/ BeginDeploy(t) \/ BeginUndeploy(t) \/ BeginSave(t)
               \/ \E u \in Users, password \in Passwords : BeginLogin(t, u, password) \/ BeginSignup(t, u, password)
      BY <1>9 DEF SignIn, Administer, Delete, LockOpens, SessionEnds, vars
    <3> QED
      BY <3>1, <3>2, <3>3, <3>4, <3>5, <3>6
  <2> QED
    BY <2>1, <2>2 DEF MixInv
<1> QED
  BY <1>7, <1>8, <1>9 DEF Next

\* Provided no model has vectors as long as the lexical ones, no query is compared with
\* a vector of another model, however often the model is unreachable or changed.
THEOREM VectorsAreNotMixed ==
  ASSUME LexicalApart
  PROVE  Spec => []ModelsNotMixed
<1>1. Init => MixInv
  <2>1. NoRequest \notin ChatCall
    BY ServiceAssumption DEF ServiceAssumption, ChatCall
  <2> QED
    BY <2>1 DEF Init, ChatInit, MixInv
<1>2. TypeInv /\ MixInv /\ [Next]_vars => MixInv'
  BY MixStep
<1>3. ASSUME TypeInv, MixInv PROVE ModelsNotMixed
  <2>1. ASSUME NEW t \in Threads, requests[t] # NoRequest, requests[t].op = "chat"
        PROVE  requests[t] \in ChatCall
    <3>1. requests[t] \in Calls
      BY <1>3, <2>1 DEF TypeInv, TypeOK, Calls
    <3> QED
      BY <2>1, <3>1, CallsByOp
  <2> QED
    BY <1>3, <2>1 DEF MixInv, ModelsNotMixed
<1> QED
  BY <1>1, <1>2, <1>3, AlwaysTypeInv, PTL DEF Spec

-----------------------------------------------------------------------------
(* The lock.  While it is open, wrong passwords are counted or about to    *)
(* be; once it is shut only those verify that had passed it.               *)

InLogin(q, u, pc) == q \in LoginCall /\ q.user = u /\ q.pc = pc

LoggingIn(u, pc) == {t \in Threads : InLogin(requests[t], u, pc)}

Steps == {"verify", "count"}

\* How many logins of each user are at the step.
Number == [pc \in Steps |-> [u \in Users |-> Cardinality(LoggingIn(u, pc))]]

LockInv ==
  \A u \in Users :
    /\ u \notin locked => tries[u] <= fails[u] + Number["count"][u]
    /\ u \in locked => tries[u] + Number["verify"][u] <= MaxAttempts + Cardinality(Threads) - 1

LEMMA LoginsAreFew ==
  ASSUME NEW u \in Users
  PROVE  /\ Cardinality(Threads) \in Nat
         /\ \A pc \in Steps : IsFiniteSet(LoggingIn(u, pc)) /\ Number[pc][u] \in Nat
         /\ Number["verify"][u] \in Nat /\ Number["count"][u] \in Nat
         /\ Number["verify"][u] + Number["count"][u] <= Cardinality(Threads)
<1>1. IsFiniteSet(Threads) /\ Cardinality(Threads) \in Nat
  BY RequestsAssumption, FS_CardinalityType DEF RequestsAssumption
<1>2. ASSUME NEW pc \in Steps PROVE IsFiniteSet(LoggingIn(u, pc)) /\ Number[pc][u] \in Nat
  <2>1. LoggingIn(u, pc) \subseteq Threads
    BY DEF LoggingIn
  <2>2. IsFiniteSet(LoggingIn(u, pc))
    BY <1>1, <2>1, FS_Subset
  <2> QED
    BY <2>2, FS_CardinalityType DEF Number
<1>3. Number["verify"][u] + Number["count"][u] <= Cardinality(Threads)
  <2> DEFINE V == LoggingIn(u, "verify")
             C == LoggingIn(u, "count")
  <2>1. V \cap C = {} /\ V \cup C \subseteq Threads
    BY DEF LoggingIn, InLogin
  <2>2. IsFiniteSet(V) /\ IsFiniteSet(C) /\ Cardinality(V) \in Nat /\ Cardinality(C) \in Nat
    BY <1>2 DEF Number, Steps
  <2>3. Number["verify"][u] = Cardinality(V) /\ Number["count"][u] = Cardinality(C)
    BY DEF Number, Steps
  <2> HIDE DEF V, C
  <2>4. Cardinality(V \cup C) = Cardinality(V) + Cardinality(C) - Cardinality(V \cap C)
    BY <2>2, FS_Union
  <2>5. Cardinality(V \cap C) = 0
    BY <2>1, FS_EmptySet
  <2>6. Cardinality(V \cup C) <= Cardinality(Threads)
    BY <1>1, <2>1, FS_Subset
  <2> DEFINE v == Cardinality(V)
             c == Cardinality(C)
             n == Cardinality(Threads)
             m == Cardinality(V \cup C)
  <2>7. v \in Nat /\ c \in Nat /\ n \in Nat /\ m = v + c - 0 /\ m <= n
    BY <1>1, <2>2, <2>4, <2>5, <2>6
  <2> HIDE DEF v, c, n, m
  <2>8. v + c <= n
    BY <2>7
  <2> QED
    BY <2>3, <2>8 DEF v, c, n
<1> QED
  BY <1>1, <1>2, <1>3 DEF Steps

\* How the number of logins at a step changes where only the thread t goes on.
OnlyMoves(t) == \A s \in Threads : s # t => requests'[s] = requests[s]

LEMMA NumberMoves ==
  ASSUME NEW t \in Threads, OnlyMoves(t),
         NEW u \in Users, NEW pc \in Steps
  PROVE  /\ (InLogin(requests'[t], u, pc) <=> InLogin(requests[t], u, pc)) => Number'[pc][u] = Number[pc][u]
         /\ InLogin(requests'[t], u, pc) /\ ~InLogin(requests[t], u, pc) => Number'[pc][u] = Number[pc][u] + 1
         /\ ~InLogin(requests'[t], u, pc) /\ InLogin(requests[t], u, pc) => Number'[pc][u] = Number[pc][u] - 1
<1>1. \A s \in Threads : s # t => requests'[s] = requests[s]
  BY DEF OnlyMoves
<1>2. IsFiniteSet(LoggingIn(u, pc))
  BY LoginsAreFew
<1>3. ASSUME InLogin(requests'[t], u, pc) <=> InLogin(requests[t], u, pc)
      PROVE  Number'[pc][u] = Number[pc][u]
  <2>1. LoggingIn(u, pc)' = LoggingIn(u, pc)
    BY <1>1, <1>3 DEF LoggingIn, InLogin
  <2> QED
    BY <2>1 DEF Number
<1>4. ASSUME InLogin(requests'[t], u, pc), ~InLogin(requests[t], u, pc)
      PROVE  Number'[pc][u] = Number[pc][u] + 1
  <2>1. LoggingIn(u, pc)' = LoggingIn(u, pc) \cup {t} /\ t \notin LoggingIn(u, pc)
    BY <1>1, <1>4 DEF LoggingIn, InLogin
  <2> QED
    BY <1>2, <2>1, FS_AddElement DEF Number
<1>5. ASSUME ~InLogin(requests'[t], u, pc), InLogin(requests[t], u, pc)
      PROVE  Number'[pc][u] = Number[pc][u] - 1
  <2>1. LoggingIn(u, pc)' = LoggingIn(u, pc) \ {t} /\ t \in LoggingIn(u, pc)
    BY <1>1, <1>5 DEF LoggingIn, InLogin
  <2> QED
    BY <1>2, <2>1, FS_RemoveElement DEF Number
<1> QED
  BY <1>3, <1>4, <1>5

\* Where no login moves.
LEMMA LockElsewhere ==
  ASSUME LockInv, UNCHANGED <<fails, locked, tries>>,
         \A s \in Threads :
           requests[s] \in LoginCall \/ requests'[s] \in LoginCall => requests'[s] = requests[s]
  PROVE  LockInv'
<1>1. ASSUME NEW u \in Users, NEW pc \in Steps PROVE Number'[pc][u] = Number[pc][u]
  <2>1. LoggingIn(u, pc)' = LoggingIn(u, pc)
    BY DEF LoggingIn, InLogin
  <2> QED
    BY <2>1 DEF Number
<1> QED
  BY <1>1 DEF LockInv, Steps

LEMMA LoginsStay ==
  ASSUME TypeInv, Administer \/ Converse \/ UNCHANGED vars
  PROVE  \A s \in Threads : requests[s] \in LoginCall => requests'[s] = requests[s]
<1>1. RequestsOk /\ ChatTypeOK /\ NoRequest \notin LoginCall
  BY ServiceAssumption DEF TypeInv, TypeOK, RequestsOk, Calls, ServiceAssumption, LoginCall, SignInCall
<1>2. ASSUME NEW t \in Threads, requests[t] \notin LoginCall,
             \E q : requests' = [requests EXCEPT ![t] = q]
      PROVE  \A s \in Threads : requests[s] \in LoginCall => requests'[s] = requests[s]
  BY <1>1, <1>2 DEF RequestsOk
<1>3. ASSUME NEW t \in Threads, DeploymentStep(t)
      PROVE  requests[t] \notin LoginCall /\ \E q : requests' = [requests EXCEPT ![t] = q]
  <2>1. requests[t] \in DeployCall \cup UndeployCall \cup SaveCall
    BY <1>1, <1>3, DeploymentMoves
  <2>2. \E q \in DeployCall \cup UndeployCall \cup {NoRequest} : Goes(t, q)
    BY <1>1, <1>3, DeploymentMoves
  <2> QED
    BY <2>1, <2>2 DEF Goes, DeployCall, UndeployCall, SaveCall, LoginCall
<1>4. ASSUME NEW t \in Threads, TurnStep(t) \/ \E on \in BOOLEAN : Open(t, on)
      PROVE  requests[t] \notin LoginCall /\ \E q : requests' = [requests EXCEPT ![t] = q]
  <2>1. requests[t] \in ChatCall
    BY <1>1, <1>4, ChatMoves
  <2>2. \E q \in ChatCall \cup {NoRequest} : Goes(t, q)
    BY <1>1, <1>4, ChatMoves
  <2> QED
    BY <2>1, <2>2 DEF Goes, ChatCall, LoginCall
<1>5. ASSUME NEW t \in Threads, BeginDeploy(t) \/ BeginUndeploy(t) \/ BeginSave(t) \/ BeginTurn(t)
      PROVE  requests[t] \notin LoginCall /\ \E q : requests' = [requests EXCEPT ![t] = q]
  BY <1>1, <1>5 DEF BeginDeploy, BeginUndeploy, BeginSave, BeginTurn, Accept
<1>6. CASE Administer
  <2>1. CASE Delete
    BY <2>1 DEF Delete
  <2> QED
    BY <1>2, <1>3, <1>5, <1>6, <2>1 DEF Administer
<1>7. CASE Converse
  <2>1. ASSUME NEW t \in Threads, Open(t, spec = "on") PROVE \E on \in BOOLEAN : Open(t, on)
    BY <2>1
  <2> QED
    BY <1>2, <1>4, <1>5, <1>7, <2>1 DEF Converse
<1>8. CASE UNCHANGED vars
  BY <1>8 DEF vars
<1> QED
  BY <1>6, <1>7, <1>8

\* The bookkeeping of one user is about that user's logins only.
LEMMA LockByLogin ==
  ASSUME TypeInv, LockInv, NEW t \in Threads, SignInStep(t), requests[t] \in LoginCall
  PROVE  LockInv'
<1> USE DEF Steps
<1> DEFINE me == requests[t].user
<1>1. /\ RequestsOk /\ AccountsTypeOK /\ me \in Users
      /\ MaxAttempts \in Nat \ {0} /\ NoRequest \notin LoginCall
  BY AccountsAssumption, ServiceAssumption
  DEF TypeInv, TypeOK, RequestsOk, Calls, AccountsAssumption, ServiceAssumption, LoginCall, SignInCall
<1>2. /\ fails \in [Users -> 0..MaxAttempts - 1] /\ tries \in [Users -> Nat]
      /\ \A u \in Users : fails[u] \in Nat /\ fails[u] <= MaxAttempts - 1 /\ tries[u] \in Nat
  BY <1>1 DEF AccountsTypeOK
<1>3. \A u \in Users : /\ Number["verify"][u] \in Nat /\ Number["count"][u] \in Nat /\ Cardinality(Threads) \in Nat
             /\ Number["verify"][u] + Number["count"][u] <= Cardinality(Threads)
  BY LoginsAreFew
<1>4. \A pc : InLogin(requests[t], me, pc) <=> pc = requests[t].pc
  BY DEF InLogin
<1>5. \A u, pc : u # me => ~InLogin(requests[t], u, pc)
  BY DEF InLogin
<1>6. ASSUME Respond(t), NEW u \in Users, NEW pc \in Steps
      PROVE  /\ u # me \/ requests[t].pc # pc => Number'[pc][u] = Number[pc][u]
             /\ u = me /\ requests[t].pc = pc => Number'[pc][u] = Number[pc][u] - 1
  <2>1. OnlyMoves(t) /\ requests'[t] = NoRequest
    BY <1>1, <1>6 DEF Respond, RequestsOk, OnlyMoves
  <2>2. ~InLogin(requests'[t], u, pc)
    BY <1>1, <2>1 DEF InLogin
  <2>3. InLogin(requests[t], u, pc) <=> u = me /\ pc = requests[t].pc
    BY <1>4, <1>5
  <2> HIDE DEF me
  <2>4. /\ ~InLogin(requests[t], u, pc) => Number'[pc][u] = Number[pc][u]
        /\ InLogin(requests[t], u, pc) => Number'[pc][u] = Number[pc][u] - 1
    BY <2>1, <2>2, NumberMoves
  <2> QED
    BY <2>3, <2>4
<1>7. ASSUME NEW step \in {"count", "clear", "session"}, Reach(t, step), requests[t].pc # step, NEW u \in Users, NEW pc \in Steps
      PROVE  /\ u # me \/ pc \notin {requests[t].pc, step} => Number'[pc][u] = Number[pc][u]
             /\ u = me /\ requests[t].pc = pc => Number'[pc][u] = Number[pc][u] - 1
             /\ u = me /\ pc = step => Number'[pc][u] = Number[pc][u] + 1
  <2> DEFINE q == [requests[t] EXCEPT !.pc = step]
  <2>1. q \in LoginCall /\ q.user = me /\ q.pc = step
    BY <1>7 DEF LoginCall
  <2>2. OnlyMoves(t) /\ requests'[t] = q
    BY <1>1, <1>7 DEF Reach, RequestsOk, OnlyMoves
  <2>3. /\ InLogin(requests'[t], u, pc) <=> u = me /\ pc = step
        /\ InLogin(requests[t], u, pc) <=> u = me /\ pc = requests[t].pc
    BY <1>4, <1>5, <2>1, <2>2 DEF InLogin
  <2> HIDE DEF me
  <2>4. /\ (InLogin(requests'[t], u, pc) <=> InLogin(requests[t], u, pc)) => Number'[pc][u] = Number[pc][u]
        /\ InLogin(requests'[t], u, pc) /\ ~InLogin(requests[t], u, pc) => Number'[pc][u] = Number[pc][u] + 1
        /\ ~InLogin(requests'[t], u, pc) /\ InLogin(requests[t], u, pc) => Number'[pc][u] = Number[pc][u] - 1
    BY <2>2, NumberMoves
  <2> QED
    BY <1>7, <2>3, <2>4
<1>8. CASE Verify(t)
  <2>1. requests[t].pc = "verify" /\ UNCHANGED <<fails, locked>>
    BY <1>8 DEF Verify, At
  <2>2. CASE Reach(t, "clear") /\ UNCHANGED tries
    <3>1. ASSUME NEW u \in Users
          PROVE  /\ u \notin locked => tries[u] <= fails[u] + Number'["count"][u]
                 /\ u \in locked => tries[u] + Number'["verify"][u] <= MaxAttempts + Cardinality(Threads) - 1
      <4>1. /\ Number'["count"][u] = Number["count"][u]
            /\ Number'["verify"][u] \in {Number["verify"][u], Number["verify"][u] - 1}
            /\ Number["verify"][u] \in Nat /\ tries[u] \in Nat
            /\ MaxAttempts \in Nat /\ Cardinality(Threads) \in Nat
        BY <1>1, <1>2, <1>3, <1>7, <2>1, <2>2
      <4> QED
        BY <4>1 DEF LockInv
    <3> QED
      BY <2>1, <2>2, <3>1 DEF LockInv
  <2>3. CASE Reach(t, "count") /\ tries' = [tries EXCEPT ![me] = @ + 1]
    <3>1. /\ Number'["count"][me] = Number["count"][me] + 1
          /\ Number'["verify"][me] = Number["verify"][me] - 1
          /\ tries'[me] = tries[me] + 1
      BY <1>1, <1>2, <1>7, <2>1, <2>3
    <3>2. \A u \in Users : u # me => /\ Number'["count"][u] = Number["count"][u]
                                     /\ Number'["verify"][u] = Number["verify"][u]
                                     /\ tries'[u] = tries[u]
      BY <1>2, <1>7, <2>1, <2>3
    <3>3. ASSUME NEW u \in Users
          PROVE  /\ u \notin locked' => tries'[u] <= fails'[u] + Number'["count"][u]
                 /\ u \in locked' => tries'[u] + Number'["verify"][u] <= MaxAttempts + Cardinality(Threads) - 1
      <4>1. CASE u = me
        BY <1>1, <1>2, <1>3, <2>1, <3>1, <4>1 DEF LockInv
      <4>2. CASE u # me
        BY <2>1, <3>2, <4>2 DEF LockInv
      <4> QED
        BY <4>1, <4>2
    <3> QED
      BY <3>3 DEF LockInv
  <2> QED
    BY <1>8, <2>2, <2>3 DEF Verify
<1>9. CASE CountFailure(t)
  <2>1. requests[t].pc = "count" /\ Respond(t) /\ UNCHANGED tries
    BY <1>9 DEF CountFailure, At
  <2>2. /\ Number'["count"][me] = Number["count"][me] - 1
        /\ Number'["verify"][me] = Number["verify"][me]
        /\ \A u \in Users : u # me => /\ Number'["count"][u] = Number["count"][u]
                            /\ Number'["verify"][u] = Number["verify"][u]
    <3>1. \A u \in Users : \A pc \in Steps :
            /\ u # me \/ requests[t].pc # pc => Number'[pc][u] = Number[pc][u]
            /\ u = me /\ requests[t].pc = pc => Number'[pc][u] = Number[pc][u] - 1
      BY <1>6, <2>1
    <3> QED
      BY <1>1, <2>1, <3>1
  <2>3. CASE fails[me] + 1 >= MaxAttempts
    <3>1. locked' = locked \cup {me} /\ fails' = [fails EXCEPT ![me] = 0]
      BY <1>9, <2>3 DEF CountFailure, LockNow
    <3>2. tries[me] + Number["verify"][me] <= MaxAttempts + Cardinality(Threads) - 1
      <4>1. CASE me \in locked
        BY <1>1, <4>1 DEF LockInv
      <4>2. CASE me \notin locked
        <5>1. tries[me] <= fails[me] + Number["count"][me]
          BY <1>1, <4>2 DEF LockInv
        <5> QED
          BY <1>1, <1>2, <1>3, <5>1
      <4> QED
        BY <4>1, <4>2
    <3>3. \A u \in Users : u # me => fails'[u] = fails[u] /\ (u \in locked' <=> u \in locked)
      BY <1>2, <3>1
    <3> QED
      BY <2>1, <2>2, <3>1, <3>2, <3>3 DEF LockInv
  <2>4. CASE ~(fails[me] + 1 >= MaxAttempts)
    <3>1. fails' = [fails EXCEPT ![me] = @ + 1] /\ UNCHANGED locked
      BY <1>9, <2>4 DEF CountFailure, LockNow
    <3>2. fails'[me] = fails[me] + 1 /\ \A u \in Users : u # me => fails'[u] = fails[u]
      BY <1>1, <1>2, <3>1
    <3>3. ASSUME NEW u \in Users
          PROVE  /\ u \notin locked' => tries'[u] <= fails'[u] + Number'["count"][u]
                 /\ u \in locked' => tries'[u] + Number'["verify"][u] <= MaxAttempts + Cardinality(Threads) - 1
      <4>1. CASE u = me
        <5>1. fails[u] \in Nat /\ Number["count"][u] \in Nat /\ tries[u] \in Nat
          BY <1>2, <1>3
        <5>2. u \notin locked => tries[u] <= fails[u] + Number["count"][u]
          BY DEF LockInv
        <5>3. /\ fails'[u] = fails[u] + 1 /\ Number'["count"][u] = Number["count"][u] - 1
              /\ Number'["verify"][u] = Number["verify"][u] /\ tries'[u] = tries[u] /\ locked' = locked
          BY <2>1, <2>2, <3>1, <3>2, <4>1
        <5> HIDE DEF me
        <5>4. u \notin locked => tries'[u] <= fails'[u] + Number'["count"][u]
          BY <5>1, <5>2, <5>3
        <5> QED
          BY <5>3, <5>4 DEF LockInv
      <4>2. CASE u # me
        BY <2>1, <2>2, <3>1, <3>2, <4>2 DEF LockInv
      <4> QED
        BY <4>1, <4>2
    <3> QED
      BY <3>3 DEF LockInv
  <2> QED
    BY <2>3, <2>4
<1>10. CASE ClearFailures(t)
  <2>1. /\ requests[t].pc = "clear" /\ Reach(t, "session")
        /\ fails' = [fails EXCEPT ![me] = 0] /\ locked' = locked \ {me}
        /\ tries' = [tries EXCEPT ![me] = 0]
    BY <1>10 DEF ClearFailures, At
  <2>2. \A u \in Users : /\ Number'["count"][u] = Number["count"][u]
                         /\ Number'["verify"][u] = Number["verify"][u]
    BY <1>7, <2>1
  <2>3. ASSUME NEW u \in Users
        PROVE  /\ u \notin locked' => tries'[u] <= fails'[u] + Number'["count"][u]
               /\ u \in locked' => tries'[u] + Number'["verify"][u] <= MaxAttempts + Cardinality(Threads) - 1
    <3>1. CASE u = me
      <4>1. tries'[u] = 0 /\ fails'[u] = 0 /\ u \notin locked'
        BY <1>1, <1>2, <2>1, <3>1
      <4> QED
        BY <1>3, <2>2, <4>1
    <3>2. CASE u # me
      BY <1>2, <2>1, <2>2, <3>2 DEF LockInv
    <3> QED
      BY <3>1, <3>2
  <2> QED
    BY <2>3 DEF LockInv
<1>11. CASE OpenSession(t)
  <2>1. requests[t].pc = "session" /\ Respond(t) /\ UNCHANGED <<fails, locked, tries>>
    BY <1>11 DEF OpenSession, At
  <2>2. \A u \in Users : /\ Number'["count"][u] = Number["count"][u]
                         /\ Number'["verify"][u] = Number["verify"][u]
    BY <1>6, <2>1
  <2> QED
    BY <2>1, <2>2 DEF LockInv
<1>12. ~LookUp(t) /\ ~CreateUser(t)
  BY DEF LookUp, CreateUser, At, LoginCall
<1> QED
  BY <1>8, <1>9, <1>10, <1>11, <1>12 DEF SignInStep

LEMMA LockStep ==
  ASSUME TypeInv, LockInv, [Next]_vars
  PROVE  LockInv'
<1> USE DEF Steps
<1>1. /\ RequestsOk /\ AccountsTypeOK
      /\ MaxAttempts \in Nat \ {0} /\ NoRequest \notin LoginCall
  BY AccountsAssumption, ServiceAssumption
  DEF TypeInv, TypeOK, RequestsOk, Calls, AccountsAssumption, ServiceAssumption, LoginCall, SignInCall
<1>2. \A u \in Users : /\ Number["verify"][u] \in Nat /\ Number["count"][u] \in Nat /\ Cardinality(Threads) \in Nat
  BY LoginsAreFew
<1>3. CASE Administer \/ Converse \/ UNCHANGED vars
  <2>1. UNCHANGED <<fails, locked, tries>>
    BY <1>3 DEF Administer, Converse, vars, accountVars
  <2>2. \A s \in Threads : requests[s] \in LoginCall => requests'[s] = requests[s]
    BY <1>3, LoginsStay
  <2>3. \A s \in Threads : requests'[s] \in LoginCall => requests'[s] = requests[s]
    BY <1>3, SignInElsewhere
  <2> QED
    BY <2>1, <2>2, <2>3, LockElsewhere
<1>4. CASE Restart
  <2>1. tries' = [u \in Users |-> 0] /\ fails' = [u \in Users |-> 0] /\ locked' = {}
    BY <1>4 DEF Restart, AccountsRestart
  <2>2. ASSUME NEW u \in Users PROVE Number'["count"][u] = 0
    <3>1. LoggingIn(u, "count")' = {}
      BY <1>1, <1>4 DEF Restart, LoggingIn, InLogin
    <3> QED
      BY <3>1, FS_EmptySet DEF Number
  <2> QED
    BY <2>1, <2>2 DEF LockInv
<1>5. ASSUME NEW t \in Threads, SignInStep(t), SignIn PROVE LockInv'
  <2>1. CASE requests[t] \in LoginCall
    BY <1>5, <2>1, LockByLogin
  <2>2. CASE requests[t] \notin LoginCall
    <3>1. requests[t] \in SignupCall
      BY <1>1, <1>5, <2>2, SignInMoves
    <3>2. PICK q \in LoginCall \cup SignupCall \cup {NoRequest} :
            Goes(t, q) /\ (q # NoRequest => SameCall(q, requests[t]))
      BY <1>1, <1>5, SignInMoves
    <3>3. q \notin LoginCall
      BY <1>1, <3>1, <3>2 DEF SameCall, SignupCall, LoginCall
    <3>4. \A s \in Threads :
            requests[s] \in LoginCall \/ requests'[s] \in LoginCall => requests'[s] = requests[s]
      BY <1>1, <2>2, <3>2, <3>3 DEF Goes, RequestsOk
    <3>5. UNCHANGED <<fails, locked, tries>>
      BY <1>5, <3>1 DEF SignInStep, Verify, CountFailure, ClearFailures, OpenSession, LookUp, CreateUser,
         At, SignupCall, accountVars
    <3> QED
      BY <3>4, <3>5, LockElsewhere
  <2> QED
    BY <2>1, <2>2
<1>6. ASSUME NEW t \in Threads, NEW v \in Users, NEW password \in Passwords, BeginLogin(t, v, password)
      PROVE  LockInv'
  <2> DEFINE q == [op |-> "login", user |-> v, password |-> password, pc |-> "verify"]
  <2>1. q \in LoginCall /\ q.user = v /\ q.pc = "verify"
    BY DEF LoginCall
  <2>2. requests' = [requests EXCEPT ![t] = q] /\ requests[t] = NoRequest
    BY <1>6 DEF BeginLogin, Accept
  <2> HIDE DEF q
  <2>3. \A u, pc : /\ ~InLogin(requests[t], u, pc)
                   /\ InLogin(q, u, pc) => u = v /\ pc = "verify"
    BY <1>1, <2>1, <2>2 DEF InLogin
  <2>4. ASSUME NEW u \in Users, NEW pc \in Steps, u # v \/ pc # "verify"
        PROVE  Number'[pc][u] = Number[pc][u]
    <3>1. OnlyMoves(t) /\ requests'[t] = q
      BY <1>1, <2>2 DEF OnlyMoves, RequestsOk
    <3>2. InLogin(requests'[t], u, pc) <=> InLogin(requests[t], u, pc)
      BY <2>3, <2>4, <3>1
    <3> QED
      BY <3>1, <3>2, NumberMoves
  <2> QED
    BY <1>6, <2>4 DEF BeginLogin, accountVars, LockInv
<1>7. ASSUME NEW t \in Threads, NEW v \in Users, NEW password \in Passwords, BeginSignup(t, v, password)
      PROVE  LockInv'
  <2> DEFINE q == [op |-> "signup", user |-> v, password |-> password, pc |-> "lookup"]
  <2>1. q \notin LoginCall
    BY DEF LoginCall
  <2>2. requests' = [requests EXCEPT ![t] = q] /\ requests[t] = NoRequest
    BY <1>7 DEF BeginSignup, Accept
  <2> HIDE DEF q
  <2>3. \A s \in Threads :
          requests[s] \in LoginCall \/ requests'[s] \in LoginCall => requests'[s] = requests[s]
    BY <1>1, <2>1, <2>2 DEF RequestsOk
  <2> QED
    BY <1>7, <2>3, LockElsewhere DEF BeginSignup
<1>8. ASSUME NEW u \in Users, LockOpens(u) PROVE LockInv'
  <2>1. /\ locked' = locked \ {u} /\ tries' = [tries EXCEPT ![u] = 0]
        /\ UNCHANGED <<fails, requests>>
    BY <1>8 DEF LockOpens
  <2>2. \A v \in Users, pc \in Steps : Number'[pc][v] = Number[pc][v]
    BY <2>1 DEF Number, LoggingIn
  <2>3. tries \in [Users -> Nat] /\ fails[u] \in Nat
    BY <1>1 DEF AccountsTypeOK
  <2>4. tries'[u] <= fails'[u] + Number'["count"][u]
    BY <1>2, <2>1, <2>2, <2>3
  <2> QED
    BY <2>1, <2>2, <2>3, <2>4 DEF LockInv
<1>9. ASSUME NEW u \in Users, SessionEnds(u) PROVE LockInv'
  BY <1>9, LockElsewhere DEF SessionEnds
<1> QED
  BY <1>3, <1>4, <1>5, <1>6, <1>7, <1>8, <1>9 DEF Next, SignIn

\* However many threads verify passwords at once, the lock lets through no more wrong ones
\* than LockoutHolds says (login: it is looked at before, and counted after, the check).
THEOREM TheLockHolds == Spec => []LockoutHolds
<1>1. Init => LockInv
  <2>1. \A u \in Users : Number["count"][u] \in Nat
    BY LoginsAreFew
  <2> QED
    BY <2>1 DEF Init, AccountsInit, LockInv
<1>2. TypeInv /\ LockInv => LockoutHolds
  <2> SUFFICES ASSUME TypeInv, LockInv, NEW u \in Users
               PROVE  tries[u] <= MaxAttempts + Cardinality(Threads) - 1
    BY DEF LockoutHolds
  <2>1. /\ MaxAttempts \in Nat /\ fails[u] \in Nat /\ fails[u] <= MaxAttempts - 1 /\ tries[u] \in Nat
    BY AccountsAssumption DEF TypeInv, TypeOK, AccountsTypeOK, AccountsAssumption
  <2>2. /\ Number["verify"][u] \in Nat /\ Number["count"][u] \in Nat /\ Cardinality(Threads) \in Nat
        /\ Number["verify"][u] + Number["count"][u] <= Cardinality(Threads)
    BY LoginsAreFew
  <2>3. CASE u \in locked
    BY <2>1, <2>2, <2>3 DEF LockInv
  <2>4. CASE u \notin locked
    BY <2>1, <2>2, <2>4 DEF LockInv
  <2> QED
    BY <2>3, <2>4
<1> QED
  BY <1>1, <1>2, LockStep, AlwaysTypeInv, PTL DEF Spec

-----------------------------------------------------------------------------
(* Working memory.  A history is whole turns, all on record; the turns     *)
(* that may still be appended are in none, and no two requests share one.  *)

\* _MAX_TURNS counts messages, two to a turn.
EvenLimit == MaxTurns % 2 = 0

Paired(h, known) ==
  \E n \in Nat :
    /\ Len(h) = 2 * n /\ 2 * n <= MaxTurns
    /\ \A i \in 1..n :
         /\ h[2 * i - 1].role = "user" /\ h[2 * i].role = "assistant"
         /\ h[2 * i - 1].turn = h[2 * i].turn
         /\ h[2 * i].turn \in known
    /\ \A i, k \in 1..n : h[2 * i].turn = h[2 * k].turn => i = k

TurnIn(h, turn) == \E i \in 1..Len(h) : h[i].turn = turn

LEMMA PairedIsWhole ==
  ASSUME NEW h \in Seq(Message), Paired(h, recorded)
  PROVE  WholeTurns(h)
<1>1. PICK n \in Nat :
        /\ Len(h) = 2 * n /\ 2 * n <= MaxTurns
        /\ \A i \in 1..n :
             /\ h[2 * i - 1].role = "user" /\ h[2 * i].role = "assistant"
             /\ h[2 * i - 1].turn = h[2 * i].turn
             /\ h[2 * i].turn \in recorded
        /\ \A i, k \in 1..n : h[2 * i].turn = h[2 * k].turn => i = k
  BY DEF Paired
<1>2. Len(h) % 2 = 0 /\ Len(h) \div 2 = n
  BY <1>1
<1>3. \A i \in 1..n : \A k \in 1..(i - 1) : h[2 * k].turn # h[2 * i].turn
  <2> TAKE i \in 1..n
  <2> TAKE k \in 1..(i - 1)
  <2>1. k \in 1..n /\ k # i
    OBVIOUS
  <2> QED
    BY <1>1, <2>1
<1> QED
  BY <1>1, <1>2, <1>3 DEF WholeTurns

LEMMA PairedOfMore ==
  ASSUME NEW h, NEW known, NEW more, known \subseteq more, Paired(h, known)
  PROVE  Paired(h, more)
BY DEF Paired

LEMMA TurnsAreKnown ==
  ASSUME NEW h \in Seq(Message), NEW known, Paired(h, known), NEW turn, TurnIn(h, turn)
  PROVE  turn \in known
<1>1. PICK n \in Nat :
        /\ Len(h) = 2 * n
        /\ \A i \in 1..n : h[2 * i - 1].turn = h[2 * i].turn /\ h[2 * i].turn \in known
  BY DEF Paired
<1>2. PICK i \in 1..Len(h) : h[i].turn = turn
  BY DEF TurnIn
<1>3. CASE i % 2 = 0
  <2>1. (i \div 2) \in 1..n /\ i = 2 * (i \div 2)
    BY <1>1, <1>3
  <2> QED
    BY <1>1, <1>2, <2>1
<1>4. CASE i % 2 # 0
  <2>1. (i + 1) \div 2 \in 1..n /\ i = 2 * ((i + 1) \div 2) - 1
    BY <1>1, <1>4
  <2> QED
    BY <1>1, <1>2, <2>1
<1> QED
  BY <1>3, <1>4

\* What _append makes of whole turns and one more.
LEMMA AppendKeepsPairs ==
  ASSUME EvenLimit, NEW h \in Seq(Message), NEW known, NEW turn \in Turns, turn \in known,
         Paired(h, known), ~TurnIn(h, turn),
         NEW g, g = Latest(h \o <<[role |-> "user", turn |-> turn], [role |-> "assistant", turn |-> turn]>>)
  PROVE  Paired(g, known) /\ \A x : TurnIn(g, x) => x = turn \/ TurnIn(h, x)
<1> DEFINE pair == <<[role |-> "user", turn |-> turn], [role |-> "assistant", turn |-> turn]>>
           long == h \o pair
<1>1. PICK n \in Nat :
        /\ Len(h) = 2 * n /\ 2 * n <= MaxTurns
        /\ \A i \in 1..n :
             /\ h[2 * i - 1].role = "user" /\ h[2 * i].role = "assistant"
             /\ h[2 * i - 1].turn = h[2 * i].turn
             /\ h[2 * i].turn \in known
        /\ \A i, k \in 1..n : h[2 * i].turn = h[2 * k].turn => i = k
  BY DEF Paired
<1>2. MaxTurns \in Nat \ {0}
  BY ChatAssumption DEF ChatAssumption
<1>3. /\ long \in Seq(Message) /\ Len(long) = 2 * n + 2
      /\ \A i \in 1..(2 * n) : long[i] = h[i]
      /\ long[2 * n + 1] = [role |-> "user", turn |-> turn]
      /\ long[2 * n + 2] = [role |-> "assistant", turn |-> turn]
  BY <1>1 DEF Message
<1> HIDE DEF long, pair
<1>4. \A i \in 1..(n + 1) :
        /\ long[2 * i - 1].role = "user" /\ long[2 * i].role = "assistant"
        /\ long[2 * i - 1].turn = long[2 * i].turn
        /\ long[2 * i].turn \in known
  <2> TAKE i \in 1..(n + 1)
  <2>1. CASE i = n + 1
    BY <1>3, <2>1
  <2>2. CASE i # n + 1
    <3>1. i \in 1..n /\ 2 * i \in 1..(2 * n) /\ 2 * i - 1 \in 1..(2 * n)
      BY <2>2
    <3> QED
      BY <1>1, <1>3, <3>1
  <2> QED
    BY <2>1, <2>2
<1>5. \A i, k \in 1..(n + 1) : long[2 * i].turn = long[2 * k].turn => i = k
  <2>1. \A i \in 1..n : long[2 * i] = h[2 * i] /\ h[2 * i].turn # turn
    <3> TAKE i \in 1..n
    <3>1. 2 * i \in 1..(2 * n)
      OBVIOUS
    <3> QED
      BY <1>1, <1>3, <3>1 DEF TurnIn
  <2>2. long[2 * (n + 1)].turn = turn
    <3>1. 2 * (n + 1) = 2 * n + 2
      OBVIOUS
    <3> QED
      BY <1>3, <3>1
  <2>3. \A i \in 1..(n + 1) : i = n + 1 \/ i \in 1..n
    OBVIOUS
  <2> SUFFICES ASSUME NEW i \in 1..(n + 1), NEW k \in 1..(n + 1), long[2 * i].turn = long[2 * k].turn
               PROVE  i = k
    OBVIOUS
  <2>4. CASE i = n + 1 \/ k = n + 1
    BY <2>1, <2>2, <2>3, <2>4
  <2>5. CASE i \in 1..n /\ k \in 1..n
    BY <1>1, <2>1, <2>5
  <2> QED
    BY <2>3, <2>4, <2>5
<1>6. \A i \in 1..(2 * n + 2) : long[i].turn = turn \/ (i \in 1..(2 * n) /\ long[i] = h[i])
  <2> TAKE i \in 1..(2 * n + 2)
  <2>1. i \in 1..(2 * n) \/ i = 2 * n + 1 \/ i = 2 * n + 2
    OBVIOUS
  <2> QED
    BY <1>3, <2>1
<1>7. CASE Len(long) <= MaxTurns
  <2>1. g = long
    BY <1>2, <1>3, <1>7 DEF Latest, long, pair
  <2>2. Paired(long, known)
    <3>1. Len(long) = 2 * (n + 1) /\ 2 * (n + 1) <= MaxTurns /\ n + 1 \in Nat
      <4>1. 2 * (n + 1) = 2 * n + 2 /\ n + 1 \in Nat
        OBVIOUS
      <4> QED
        BY <1>3, <1>7, <4>1
    <3> QED
      BY <1>4, <1>5, <3>1 DEF Paired
  <2>3. \A x : TurnIn(long, x) => x = turn \/ TurnIn(h, x)
    BY <1>1, <1>3, <1>6 DEF TurnIn
  <2> QED
    BY <2>1, <2>2, <2>3
<1>8. CASE Len(long) > MaxTurns
  <2>1. MaxTurns = 2 * n
    <3>1. PICK m \in Nat : MaxTurns = 2 * m
      <4>1. MaxTurns = 2 * (MaxTurns \div 2) /\ MaxTurns \div 2 \in Nat
        BY <1>2 DEF EvenLimit
      <4> QED
        BY <4>1
    <3>2. 2 * n + 2 > 2 * m /\ 2 * n <= 2 * m
      BY <1>1, <1>3, <1>8, <3>1
    <3>3. m = n
      BY <3>2
    <3> QED
      BY <3>1, <3>3
  <2>2. g = SubSeq(long, 3, Len(long))
    <3>1. g = SubSeq(long, Len(long) - MaxTurns + 1, Len(long))
      BY <1>8 DEF Latest, long, pair
    <3>2. Len(long) - MaxTurns + 1 = 3
      BY <1>3, <2>1
    <3> QED
      BY <3>1, <3>2
  <2>3. Len(g) = 2 * n /\ \A i \in 1..(2 * n) : g[i] = long[i + 2]
    <3> DEFINE m == 2 * n + 2
    <3>1. m \in Int /\ 3 \in Int /\ g = SubSeq(long, 3, m) /\ \A i \in 3..m : long[i] \in Message
      <4>1. m \in Int /\ 3 \in Int /\ Len(long) = m
        BY <1>3
      <4>2. ASSUME NEW i \in 3..m PROVE long[i] \in Message
        <5>1. i \in 1..Len(long)
          BY <4>1
        <5> QED
          BY <1>3, <5>1, ElementOfSeq
      <4> QED
        BY <2>2, <4>1, <4>2
    <3>2. Len(g) = IF 3 <= m THEN m - 3 + 1 ELSE 0
      BY <3>1, SubSeqProperties
    <3>3. \A i \in 1..(m - 3 + 1) : g[i] = long[i + 3 - 1]
      <4> HIDE DEF m
      <4>1. \A i \in 1..(m - 3 + 1) : SubSeq(long, 3, m)[i] = long[3 + i - 1]
        BY <3>1, SubSeqProperties
      <4>2. \A i \in 1..(m - 3 + 1) : 3 + i - 1 = i + 3 - 1
        BY <3>1
      <4> QED
        BY <3>1, <4>1, <4>2
    <3>4. m - 3 + 1 = 2 * n
      OBVIOUS
    <3>5. Len(g) = 2 * n
      BY <3>2
    <3>6. ASSUME NEW i \in 1..(2 * n) PROVE g[i] = long[i + 2]
      <4>1. i \in 1..(m - 3 + 1) /\ i + 3 - 1 = i + 2
        BY <3>4
      <4>2. g[i] = long[i + 3 - 1]
        BY <3>3, <4>1
      <4> QED
        BY <4>1, <4>2
    <3> QED
      BY <3>5, <3>6
  <2>4. \A i \in 1..n : g[2 * i] = long[2 * (i + 1)] /\ g[2 * i - 1] = long[2 * (i + 1) - 1]
    <3> TAKE i \in 1..n
    <3>1. 2 * i \in 1..(2 * n) /\ 2 * i - 1 \in 1..(2 * n)
      OBVIOUS
    <3>2. 2 * i + 2 = 2 * (i + 1) /\ 2 * i - 1 + 2 = 2 * (i + 1) - 1
      OBVIOUS
    <3> QED
      BY <2>3, <3>1, <3>2
  <2>5. \A i \in 1..n : i + 1 \in 1..(n + 1)
    OBVIOUS
  <2>6. Paired(g, known)
    <3>1. \A i, k \in 1..n : g[2 * i].turn = g[2 * k].turn => i = k
      <4> SUFFICES ASSUME NEW i \in 1..n, NEW k \in 1..n, g[2 * i].turn = g[2 * k].turn PROVE i = k
        OBVIOUS
      <4>1. i + 1 \in 1..(n + 1) /\ k + 1 \in 1..(n + 1)
        BY <2>5
      <4>2. long[2 * (i + 1)].turn = long[2 * (k + 1)].turn
        BY <2>4
      <4>3. i + 1 = k + 1
        BY <1>5, <4>1, <4>2
      <4> QED
        BY <4>3
    <3>2. \A i \in 1..n :
             /\ g[2 * i - 1].role = "user" /\ g[2 * i].role = "assistant"
             /\ g[2 * i - 1].turn = g[2 * i].turn
             /\ g[2 * i].turn \in known
      BY <1>4, <2>4, <2>5
    <3> QED
      BY <1>1, <2>3, <3>1, <3>2 DEF Paired
  <2>7. \A x : TurnIn(g, x) => x = turn \/ TurnIn(h, x)
    <3> SUFFICES ASSUME NEW x, TurnIn(g, x) PROVE x = turn \/ TurnIn(h, x)
      OBVIOUS
    <3>1. PICK i \in 1..(2 * n) : g[i].turn = x
      BY <2>3 DEF TurnIn
    <3>2. i + 2 \in 1..(2 * n + 2) /\ long[i + 2].turn = x
      <4>1. i + 2 \in 1..(2 * n + 2)
        OBVIOUS
      <4>2. g[i] = long[i + 2]
        BY <2>3
      <4> QED
        BY <3>1, <4>1, <4>2
    <3>3. x = turn \/ (i + 2 \in 1..(2 * n) /\ h[i + 2].turn = x)
      BY <1>6, <3>2
    <3> QED
      BY <1>1, <3>3 DEF TurnIn
  <2> QED
    BY <2>6, <2>7
<1>9. Len(long) \in Int
  BY <1>3
<1>10. Len(long) <= MaxTurns \/ Len(long) > MaxTurns
  BY <1>2, <1>9
<1> QED
  BY <1>7, <1>8, <1>10

ToCome == {"open", "recall", "run", "final"}

\* What is known of a chat request q, when n have been accepted, the turns on record are known,
\* and the session's history is h.
TurnOk(q, h, known, n) ==
  /\ q.turn \in 1..n
  /\ Paired(q.read, known)
  /\ q.pc = "final" => q.turn \in known
  /\ q.pc \in ToCome => ~TurnIn(h, q.turn)

HistoryInv ==
  /\ recorded \subseteq 1..accepted
  /\ Paired(history, recorded)
  /\ \A t \in Threads : requests[t] \in ChatCall => TurnOk(requests[t], history, recorded, accepted)
  /\ \A s, t \in Threads :
       requests[s] \in ChatCall /\ requests[t] \in ChatCall /\ requests[s].turn = requests[t].turn => s = t

\* Where a thread that goes on appends nothing.
LEMMA HistoryStays ==
  ASSUME TypeInv, HistoryInv, NEW t \in Threads, NEW q, requests' = [requests EXCEPT ![t] = q],
         history' = history, recorded \subseteq recorded', recorded' \subseteq 1..accepted',
         accepted' \in {accepted, accepted + 1},
         q \in ChatCall =>
           /\ TurnOk(q, history, recorded', accepted')
           /\ \/ requests[t] \in ChatCall /\ q.turn = requests[t].turn
              \/ q.turn = accepted + 1
  PROVE  HistoryInv'
<1>1. requests \in [Threads -> Calls \cup {NoRequest}] /\ accepted \in Nat
  BY RequestsAssumption DEF TypeInv, TypeOK, Calls, RequestsAssumption
<1>2. requests'[t] = q /\ \A s \in Threads : s # t => requests'[s] = requests[s]
  BY <1>1
<1>3. Paired(history', recorded')
  BY PairedOfMore DEF HistoryInv
<1>4. ASSUME NEW s \in Threads, s # t, requests[s] \in ChatCall
      PROVE  /\ requests[s].turn \in 1..accepted' /\ requests[s].turn # accepted + 1
             /\ Paired(requests[s].read, recorded')
             /\ requests[s].pc = "final" => requests[s].turn \in recorded'
             /\ requests[s].pc \in ToCome => ~TurnIn(history, requests[s].turn)
  <2>1. TurnOk(requests[s], history, recorded, accepted)
    BY <1>4 DEF HistoryInv
  <2>2. Paired(requests[s].read, recorded')
    BY <2>1, PairedOfMore DEF TurnOk
  <2>3. requests[s].turn \in 1..accepted' /\ requests[s].turn # accepted + 1
    BY <1>1, <2>1 DEF TurnOk
  <2> QED
    BY <2>1, <2>2, <2>3 DEF TurnOk
<1>5. ASSUME NEW s \in Threads, requests'[s] \in ChatCall
      PROVE  /\ requests'[s].turn \in 1..accepted'
             /\ Paired(requests'[s].read, recorded')
             /\ requests'[s].pc = "final" => requests'[s].turn \in recorded'
             /\ requests'[s].pc \in ToCome => ~TurnIn(history', requests'[s].turn)
  <2>1. CASE s = t
    BY <1>2, <1>5, <2>1 DEF TurnOk
  <2>2. CASE s # t
    BY <1>2, <1>4, <1>5, <2>2
  <2> QED
    BY <2>1, <2>2
<1>6. ASSUME NEW r \in Threads, NEW s \in Threads, requests'[r] \in ChatCall, requests'[s] \in ChatCall,
             requests'[r].turn = requests'[s].turn
      PROVE  r = s
  <2>1. ASSUME NEW x \in Threads, requests[x] \in ChatCall, x # t, q \in ChatCall, q.turn = requests[x].turn
        PROVE  FALSE
    <3>1. requests[t] \in ChatCall /\ q.turn = requests[t].turn
      BY <1>4, <2>1
    <3> QED
      BY <2>1, <3>1 DEF HistoryInv
  <2> QED
    BY <1>2, <1>6, <2>1 DEF HistoryInv
<1> QED
  BY <1>3, <1>5, <1>6 DEF HistoryInv, TurnOk

\* A request of another endpoint is begun, or goes on.
LEMMA HistoryElsewhere ==
  ASSUME TypeInv, HistoryInv, SignIn \/ Administer \/ UNCHANGED vars
  PROVE  HistoryInv'
<1>1. /\ RequestsOk /\ ChatTypeOK /\ NoRequest \notin ChatCall
      /\ history' = history /\ recorded' = recorded
  BY ServiceAssumption
  DEF TypeInv, TypeOK, RequestsOk, Calls, ServiceAssumption, SignIn, Administer, vars, chatVars
<1>2. recorded' \subseteq 1..accepted /\ recorded' \subseteq 1..(accepted + 1) /\ accepted \in Nat
  BY <1>1, RequestsAssumption DEF HistoryInv, TypeInv, TypeOK, RequestsAssumption
<1>3. ASSUME NEW t \in Threads, NEW q, q \notin ChatCall, requests' = [requests EXCEPT ![t] = q],
             accepted' \in {accepted, accepted + 1}
      PROVE  HistoryInv'
  BY <1>1, <1>2, <1>3, HistoryStays
<1>4. ASSUME UNCHANGED <<requests, accepted>> PROVE HistoryInv'
  BY <1>1, <1>4 DEF HistoryInv
<1>5. ASSUME NEW t \in Threads, SignInStep(t) PROVE HistoryInv'
  <2>1. PICK q \in LoginCall \cup SignupCall \cup {NoRequest} : Goes(t, q)
    BY <1>1, <1>5, SignInMoves
  <2> QED
    BY <1>1, <1>3, <2>1 DEF Goes, LoginCall, SignupCall, ChatCall
<1>6. ASSUME NEW t \in Threads, DeploymentStep(t) PROVE HistoryInv'
  <2>1. PICK q \in DeployCall \cup UndeployCall \cup {NoRequest} : Goes(t, q)
    BY <1>1, <1>6, DeploymentMoves
  <2> QED
    BY <1>1, <1>3, <2>1 DEF Goes, DeployCall, UndeployCall, ChatCall
<1>7. ASSUME NEW t \in Threads, NEW u \in Users, NEW password \in Passwords,
             BeginLogin(t, u, password) \/ BeginSignup(t, u, password)
      PROVE  HistoryInv'
  BY <1>3, <1>7 DEF BeginLogin, BeginSignup, Accept, ChatCall
<1>8. ASSUME NEW t \in Threads, BeginDeploy(t) \/ BeginUndeploy(t) \/ BeginSave(t)
      PROVE  HistoryInv'
  BY <1>3, <1>8 DEF BeginDeploy, BeginUndeploy, BeginSave, Accept, ChatCall
<1>9. CASE SignIn
  BY <1>4, <1>5, <1>7, <1>9 DEF SignIn, LockOpens, SessionEnds
<1>10. CASE Administer
  BY <1>4, <1>6, <1>8, <1>10 DEF Administer, Delete
<1> QED
  BY <1>4, <1>9, <1>10 DEF vars

LEMMA HistoryByTurn ==
  ASSUME EvenLimit, TypeInv, HistoryInv, NEW t \in Threads, TurnStep(t)
  PROVE  HistoryInv'
<1> DEFINE turn == requests[t].turn
<1>1. /\ RequestsOk /\ ChatTypeOK /\ NoRequest \notin ChatCall /\ accepted' = accepted
      /\ recorded \subseteq 1..accepted
      /\ \A pc : At(t, "chat", pc) => requests[t].pc = pc
  BY ServiceAssumption
  DEF TypeInv, TypeOK, RequestsOk, Calls, ServiceAssumption, HistoryInv, TurnStep, Recall, Conclude, Fail,
      AppendTurn, Remember, Leave, Reach, Respond, At
<1>2. requests[t] \in ChatCall
  BY <1>1, ChatMoves
<1>3. TurnOk(requests[t], history, recorded, accepted)
  BY <1>2 DEF HistoryInv
<1>4. CASE Respond(t) /\ UNCHANGED <<history, recorded>>
  BY <1>1, <1>4, HistoryStays DEF Respond
<1>5. CASE Recall(t)
  <2>1. PICK rows : requests' = [requests EXCEPT ![t].pc = "run", ![t].recalled = rows]
    BY <1>5 DEF Recall
  <2> DEFINE q == [requests[t] EXCEPT !.pc = "run", !.recalled = rows]
  <2>2. q.turn = turn /\ q.read = requests[t].read /\ q.pc = "run"
    BY <1>2 DEF ChatCall
  <2>3. requests' = [requests EXCEPT ![t] = q] /\ UNCHANGED <<history, recorded>> /\ requests[t].pc = "recall"
    BY <1>1, <1>5, <2>1 DEF Recall, chatVars
  <2> HIDE DEF q
  <2>4. TurnOk(q, history, recorded', accepted')
    BY <1>1, <1>3, <2>2, <2>3 DEF TurnOk, ToCome
  <2> QED
    BY <1>1, <1>2, <2>2, <2>3, <2>4, HistoryStays
<1>6. CASE Conclude(t)
  <2> DEFINE q == [requests[t] EXCEPT !.pc = "final"]
  <2>1. q.turn = turn /\ q.read = requests[t].read /\ q.pc = "final"
    BY <1>2 DEF ChatCall
  <2>2. /\ requests' = [requests EXCEPT ![t] = q] /\ history' = history
        /\ recorded' = recorded \cup {turn} /\ requests[t].pc = "run"
    BY <1>1, <1>6 DEF Conclude, Reach
  <2> HIDE DEF q
  <2>3. Paired(requests[t].read, recorded')
    BY <1>3, <2>2, PairedOfMore DEF TurnOk
  <2>4. TurnOk(q, history, recorded', accepted') /\ recorded' \subseteq 1..accepted'
    BY <1>1, <1>3, <2>1, <2>2, <2>3 DEF TurnOk, ToCome
  <2> QED
    BY <1>1, <1>2, <2>1, <2>2, <2>4, HistoryStays
<1>7. CASE AppendTurn(t)
  <2>1. /\ requests[t].pc = "final" /\ UNCHANGED recorded
        /\ history' = Latest(history \o <<[role |-> "user", turn |-> turn],
                                           [role |-> "assistant", turn |-> turn]>>)
        /\ requests' = [requests EXCEPT ![t].pc = "remember"]
    BY <1>1, <1>7 DEF AppendTurn, Reach
  <2>2. /\ turn \in recorded /\ ~TurnIn(history, turn) /\ turn \in Turns
        /\ Paired(history, recorded) /\ history \in Seq(Message)
    BY <1>1, <1>2, <1>3, <2>1 DEF TurnOk, ToCome, HistoryInv, ChatTypeOK, ChatCall
  <2> DEFINE g == history'
  <2>3. Paired(g, recorded) /\ \A x : TurnIn(g, x) => x = turn \/ TurnIn(history, x)
    <3> HIDE DEF turn
    <3> QED
      BY <2>1, <2>2, AppendKeepsPairs
  <2>4. /\ requests'[t].turn = turn /\ requests'[t].read = requests[t].read /\ requests'[t].pc = "remember"
        /\ \A s \in Threads : s # t => requests'[s] = requests[s]
    BY <1>1, <1>2, <2>1 DEF RequestsOk, ChatCall
  <2>5. ASSUME NEW s \in Threads, requests'[s] \in ChatCall
        PROVE  TurnOk(requests'[s], history', recorded', accepted')
    <3>1. CASE s = t
      BY <1>1, <1>3, <2>1, <2>4, <3>1 DEF TurnOk, ToCome
    <3>2. CASE s # t
      <4>1. TurnOk(requests[s], history, recorded, accepted) /\ requests[s].turn # turn
        BY <1>2, <2>4, <2>5, <3>2 DEF HistoryInv
      <4> QED
        BY <1>1, <2>1, <2>3, <2>4, <3>2, <4>1 DEF TurnOk
    <3> QED
      BY <3>1, <3>2
  <2>6. ASSUME NEW r \in Threads, NEW s \in Threads, requests'[r] \in ChatCall, requests'[s] \in ChatCall,
               requests'[r].turn = requests'[s].turn
        PROVE  r = s
    BY <1>2, <2>4, <2>6 DEF HistoryInv
  <2> QED
    BY <1>1, <2>1, <2>3, <2>5, <2>6 DEF HistoryInv
<1> QED
  BY <1>4, <1>5, <1>6, <1>7 DEF TurnStep, Fail, Remember, Leave, chatVars

LEMMA HistoryStep ==
  ASSUME EvenLimit, TypeInv, HistoryInv, [Next]_vars
  PROVE  HistoryInv'
<1>1. /\ RequestsOk /\ ChatTypeOK /\ NoRequest \notin ChatCall /\ accepted \in Nat
      /\ recorded \subseteq 1..accepted
  BY ServiceAssumption, RequestsAssumption
  DEF TypeInv, TypeOK, RequestsOk, Calls, ServiceAssumption, RequestsAssumption, HistoryInv
<1>2. Paired(<<>>, recorded)
  <2>1. Len(<<>>) = 2 * 0 /\ 2 * 0 <= MaxTurns /\ 1..0 = {}
    BY ChatAssumption DEF ChatAssumption
  <2> QED
    BY <2>1 DEF Paired
<1>3. ASSUME NEW t \in Threads, BeginTurn(t) PROVE HistoryInv'
  <2> DEFINE q == [op |-> "chat", pc |-> "open", turn |-> accepted + 1, read |-> <<>>, recalled |-> {}]
  <2>1. /\ requests' = [requests EXCEPT ![t] = q] /\ accepted' = accepted + 1
        /\ history' = history /\ recorded' = recorded
    BY <1>3 DEF BeginTurn, Accept, chatVars
  <2>2. q.turn = accepted + 1 /\ q.read = <<>> /\ q.pc = "open"
    OBVIOUS
  <2> HIDE DEF q
  <2>3. ~TurnIn(history, accepted + 1)
    <3>1. Paired(history, recorded) /\ history \in Seq(Message) /\ accepted + 1 \notin recorded
      BY <1>1 DEF HistoryInv, ChatTypeOK
    <3> QED
      BY <3>1, TurnsAreKnown
  <2>4. TurnOk(q, history, recorded', accepted') /\ recorded' \subseteq 1..accepted'
    BY <1>1, <1>2, <2>1, <2>2, <2>3 DEF TurnOk
  <2> QED
    BY <2>1, <2>2, <2>4, HistoryStays
<1>4. ASSUME NEW t \in Threads, NEW on \in BOOLEAN, Open(t, on) PROVE HistoryInv'
  <2>1. requests[t] \in ChatCall /\ requests[t].pc = "open"
    BY <1>1, <1>4, ChatMoves DEF Open, At
  <2>2. CASE on
    <3> DEFINE q == [requests[t] EXCEPT !.pc = "recall", !.read = history]
    <3>1. q.turn = requests[t].turn /\ q.read = history /\ q.pc = "recall"
      BY <2>1 DEF ChatCall
    <3>2. /\ requests' = [requests EXCEPT ![t] = q] /\ accepted' = accepted
          /\ history' = history /\ recorded' = recorded
      BY <1>4, <2>2 DEF Open, chatVars
    <3> HIDE DEF q
    <3>3. TurnOk(q, history, recorded', accepted')
      BY <2>1, <3>1, <3>2 DEF TurnOk, HistoryInv, ToCome
    <3> QED
      BY <1>1, <2>1, <3>1, <3>2, <3>3, HistoryStays
  <2>3. CASE ~on
    <3>1. Respond(t) /\ history' = history /\ recorded' = recorded
      BY <1>4, <2>3 DEF Open, chatVars
    <3> QED
      BY <1>1, <3>1, HistoryStays DEF Respond
  <2> QED
    BY <2>2, <2>3
<1>5. CASE Converse
  <2>1. (spec = "on") \in BOOLEAN
    OBVIOUS
  <2> QED
    BY <1>3, <1>4, <1>5, <2>1, HistoryByTurn DEF Converse
<1>6. CASE Restart
  <2>1. /\ \A t \in Threads : requests'[t] = NoRequest
        /\ history' = <<>> /\ recorded' = recorded /\ accepted' = accepted
    BY <1>6 DEF Restart, ChatRestart
  <2> QED
    BY <1>1, <1>2, <2>1 DEF HistoryInv
<1> QED
  BY <1>5, <1>6, HistoryElsewhere DEF Next

\* Where _MAX_TURNS is even, as it is: whatever turns of a session overlap, fail or are left,
\* what a turn sees of it is whole questions with their answers, each once, all on record
\* (_append puts both down at once, under the lock).
THEOREM HistoryIsWhole ==
  ASSUME EvenLimit
  PROVE  Spec => []HistoryIsTurns
<1>1. Init => HistoryInv
  <2> SUFFICES ASSUME Init PROVE HistoryInv
    OBVIOUS
  <2>1. NoRequest \notin ChatCall
    BY ServiceAssumption DEF ServiceAssumption
  <2>2. Paired(<<>>, {})
    <3>1. Len(<<>>) = 2 * 0 /\ 2 * 0 <= MaxTurns /\ 1..0 = {}
      BY ChatAssumption DEF ChatAssumption
    <3> QED
      BY <3>1 DEF Paired
  <2> QED
    BY <2>1, <2>2 DEF Init, ChatInit, HistoryInv
<1>2. TypeInv /\ HistoryInv /\ [Next]_vars => HistoryInv'
  BY HistoryStep
<1>3. TypeInv /\ HistoryInv => HistoryIsTurns
  <2> SUFFICES ASSUME TypeInv, HistoryInv PROVE HistoryIsTurns
    OBVIOUS
  <2>1. WholeTurns(history)
    BY PairedIsWhole DEF HistoryInv, TypeInv, TypeOK, ChatTypeOK
  <2>2. ASSUME NEW t \in Threads, requests[t] # NoRequest, requests[t].op = "chat"
        PROVE  WholeTurns(requests[t].read)
    <3>1. requests[t] \in Calls
      BY <2>2 DEF TypeInv, TypeOK, Calls
    <3>2. requests[t] \in ChatCall
      BY <2>2, <3>1, CallsByOp
    <3>3. requests[t].read \in Seq(Message) /\ Paired(requests[t].read, recorded)
      BY <3>2 DEF HistoryInv, TurnOk, ChatCall
    <3> QED
      BY <3>3, PairedIsWhole
  <2> QED
    BY <2>1, <2>2 DEF HistoryIsTurns
<1> QED
  BY <1>1, <1>2, <1>3, AlwaysTypeInv, PTL DEF Spec

=============================================================================
