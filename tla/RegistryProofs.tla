---------------------------- MODULE RegistryProofs ----------------------------
(***************************************************************************)
(* Theorems about the registry, its vault and its MCP client, for any      *)
(* tenants, servers, processes, handlers, listings and answers.            *)
(***************************************************************************)
EXTENDS Registry, FiniteSetTheorems, WellFoundedInduction, TLAPS

-----------------------------------------------------------------------------
(* Secrets.  As long as no key was replaced there is but one.              *)

OneKey ==
  /\ found \in [Procs -> Keys \cup {NoKey}]
  /\ cipher \in [Procs -> Keys \cup {NoKey}]
  /\ credentials \in [Tenants -> Keys \cup {NoKey}]
  /\ ~overwritten =>
       /\ \A p \in Procs : found[p] \in {vaultKey, NoKey} /\ cipher[p] \in {vaultKey, NoKey}
       /\ \A w \in Tenants : credentials[w] \in {vaultKey, NoKey}
  /\ vaultKey \in Keys \cup {NoKey}

LEMMA OneKeyStep ==
  ASSUME OneKey, NEW p \in Procs, NEW w,
         \/ LookUpKey(p) \/ InitCipher(p) \/ ForgetCipher(p)
         \/ Put(p, w) \/ DeleteCredential(w) \/ UNCHANGED vaultVars
  PROVE  OneKey'
<1> USE DEF OneKey
<1>1. CASE LookUpKey(p)
  BY <1>1 DEF LookUpKey
<1>2. CASE InitCipher(p) /\ found[p] # NoKey
  BY <1>2 DEF InitCipher, NewKey
<1>3. CASE InitCipher(p) /\ found[p] = NoKey
  <2>1. PICK k \in Keys : /\ vaultKey' = k
                          /\ cipher' = [cipher EXCEPT ![p] = k]
                          /\ overwritten' = (overwritten \/ vaultKey # NoKey)
    BY <1>3 DEF InitCipher, NewKey
  <2>2. UNCHANGED <<credentials, found>>
    BY <1>3 DEF InitCipher
  <2> QED
    BY <2>1, <2>2
<1>4. CASE ForgetCipher(p)
  BY <1>4 DEF ForgetCipher
<1>5. CASE Put(p, w)
  BY <1>5 DEF Put
<1>6. CASE DeleteCredential(w)
  BY <1>6 DEF DeleteCredential
<1>7. CASE UNCHANGED vaultVars
  BY <1>7 DEF vaultVars
<1> QED
  BY <1>1, <1>2, <1>3, <1>4, <1>5, <1>6, <1>7

LEMMA VaultMoves ==
  ASSUME [Next]_vars
  PROVE  \/ UNCHANGED vaultVars
         \/ \E p \in Procs :
              \/ LookUpKey(p) \/ InitCipher(p) \/ ForgetCipher(p)
              \/ \E w \in Guarded : Put(p, w) \/ DeleteCredential(w)
<1>1. CASE \E p \in Procs :
             \/ Start(p) \/ AttachVault(p) \/ LoadPersisted(p) \/ Die(p)
             \/ \E w \in Guarded : SetCredential(p, w) \/ ClearCredential(p, w)
  BY <1>1 DEF Start, AttachVault, LoadPersisted, Die, SetCredential, ClearCredential
<1>2. ASSUME NEW p \in Procs, NEW h \in Handlers, NEW k \in Tenants \X Servers,
             Register(h, p, k) \/ Approve(h, p, k) \/ Refresh(h, p, k)
      PROVE  UNCHANGED vaultVars
  BY <1>2 DEF Register, Approve, Refresh, Begin
<1>3. ASSUME NEW h \in Handlers,
             \/ SaveRow(h) \/ SaveResult(h) \/ RegisterDiscovered(h)
             \/ \E answer \in Answers : Discover(h, answer)
      PROVE  UNCHANGED vaultVars
  BY <1>3 DEF SaveRow, SaveResult, RegisterDiscovered, Discover
<1>4. CASE \E k \in Tenants \X Servers : ServerChanges(k)
  BY <1>4 DEF ServerChanges
<1>5. CASE UNCHANGED vars
  BY <1>5 DEF vars
<1> QED
  BY <1>1, <1>2, <1>3, <1>4, <1>5 DEF Next

\* Every process reads every secret, unless a key was replaced (vault.py: "generated
\* once"): for any number of processes, restarts and secrets.
THEOREM SecretsAreReadable == Spec => []SecretsReadable
<1>1. Init => OneKey
  BY DEF Init, VaultInit, OneKey
<1>2. OneKey /\ [Next]_vars => OneKey'
  <2> SUFFICES ASSUME OneKey, [Next]_vars PROVE OneKey'
    OBVIOUS
  <2>1. CASE UNCHANGED vaultVars
    BY <2>1 DEF OneKey, vaultVars
  <2>2. CASE ~UNCHANGED vaultVars
    BY <2>2, VaultMoves, OneKeyStep
  <2> QED
    BY <2>1, <2>2
<1>3. OneKey => SecretsReadable
  BY VaultAssumption DEF OneKey, SecretsReadable, Resolves, VaultAssumption
<1> QED
  BY <1>1, <1>2, <1>3, PTL DEF Spec

-----------------------------------------------------------------------------
(* Of the rows with a tool of one name, one is the last to be loaded.      *)

LEMMA LatestExists ==
  ASSUME NEW S, S # {}, NEW f, NEW N \in Nat, \A w \in S : f[w] \in 1..N
  PROVE  \E w \in S : \A v \in S : f[v] <= f[w]
<1> DEFINE T == {N - f[w] : w \in S}
<1>1. T \subseteq Nat /\ T # {}
  OBVIOUS
<1>2. PICK x \in T : \A y \in T : <<y, x>> \notin OpToRel(<, Nat)
  BY <1>1, NatLessThanWellFounded, WFMin
<1>3. \A y \in T : ~(y < x)
  BY <1>1, <1>2 DEF OpToRel
<1>4. PICK w \in S : x = N - f[w]
  OBVIOUS
<1>5. ASSUME NEW v \in S PROVE f[v] <= f[w]
  <2>1. ~(N - f[v] < N - f[w])
    BY <1>3, <1>4
  <2>2. f[v] \in Int /\ f[w] \in Int
    OBVIOUS
  <2> QED
    BY <2>1, <2>2
<1> QED
  BY <1>5

-----------------------------------------------------------------------------
(* Sessions.  What a session holds are the pages it has come past.         *)

Seen(conn) == {t \in Offered : \E i \in DOMAIN conn.listing : i <= conn.page /\ t \in conn.listing[i]}

Session(conn) ==
  /\ conn \in Connection
  /\ conn.tools = Seen(conn)
  /\ conn.phase \in {"initialize", "list"} => conn.page < MaxPages /\ ~conn.misread
  /\ conn.phase = "done" /\ ~conn.misread =>
       conn.page >= MaxPages \/ conn.page >= Len(conn.listing)

LEMMA ConnectIsSession ==
  ASSUME NEW l \in Seq(SUBSET Offered)
  PROVE  Session(Connect(l)) /\ Connect(l).phase = "initialize"
<1>1. MaxPages \in Nat \ {0}
  BY McpAssumption DEF McpAssumption
<1>2. Connect(l) \in Connection
  BY <1>1 DEF Connect, Connection
<1>3. /\ Connect(l).phase = "initialize" /\ Connect(l).page = 0 /\ Connect(l).listing = l
      /\ Connect(l).tools = {} /\ Connect(l).misread = FALSE
  BY DEF Connect
<1>4. \A i \in DOMAIN l : i > 0
  OBVIOUS
<1>5. Seen(Connect(l)) = {}
  BY <1>3, <1>4 DEF Seen
<1> QED
  BY <1>1, <1>2, <1>3, <1>5 DEF Session

LEMMA FailedIsSession == Session(Failed) /\ Failed.phase = "failed"
<1> DEFINE c == Connect(<<>>)
<1>1. c \in Connection
  <2>1. <<>> \in Seq(SUBSET Offered)
    OBVIOUS
  <2> QED
    BY <2>1, ConnectIsSession DEF Session
<1>2. /\ Failed = [c EXCEPT !.phase = "failed"]
      /\ c.tools = {} /\ c.listing = <<>>
  BY DEF Failed, Connect
<1> HIDE DEF c
<1>3. Failed \in Connection /\ Failed.phase = "failed" /\ Failed.tools = {} /\ Failed.listing = <<>>
  BY <1>1, <1>2 DEF Connection
<1>4. Seen(Failed) = {}
  BY <1>3 DEF Seen
<1> QED
  BY <1>3, <1>4 DEF Session

LEMMA ListedIsSession ==
  ASSUME NEW conn, Session(conn), conn.phase = "list", NEW reply
  PROVE  Session(Listed(conn, reply))
<1> USE McpAssumption DEF McpAssumption
<1>1. CASE reply = "error"
  BY <1>1, FailedIsSession DEF Listed
<1>2. CASE reply = "empty"
  <2>1. Listed(conn, reply) = [conn EXCEPT !.phase = "done", !.misread = TRUE]
    BY <1>2 DEF Listed
  <2> QED
    BY <2>1 DEF Session, Connection, Seen
<1>3. CASE reply \notin {"error", "empty"}
  <2> DEFINE next == Listed(conn, reply)
             page == IF conn.page < Len(conn.listing) THEN conn.listing[conn.page + 1] ELSE {}
  <2>1. next = [conn EXCEPT !.phase = IF LastPage(conn) THEN "done" ELSE "list",
                            !.page = @ + 1, !.tools = @ \cup page]
    BY <1>3 DEF Listed
  <2>2. /\ conn.page \in 0..MaxPages /\ conn.page < MaxPages
        /\ conn.listing \in Seq(SUBSET Offered)
        /\ conn.tools \subseteq Offered /\ conn.misread = FALSE
    BY DEF Session, Connection
  <2>3. page \subseteq Offered
    BY <2>2
  <2>4. /\ next.phase = (IF LastPage(conn) THEN "done" ELSE "list")
        /\ next.page = conn.page + 1 /\ next.listing = conn.listing
        /\ next.tools = conn.tools \cup page /\ next.misread = FALSE
    BY <2>1, <2>2 DEF Session, Connection
  <2>5. next \in Connection
    <3>1. conn \in Connection /\ conn.page + 1 \in 0..MaxPages
      BY <2>2 DEF Session
    <3>2. conn.tools \cup page \in SUBSET Offered
      BY <2>2, <2>3
    <3> HIDE DEF page, next
    <3> QED
      BY <2>1, <3>1, <3>2 DEF Connection
  <2>6. next.tools = Seen(next)
    <3>1. Seen(next) = Seen(conn) \cup page
      <4>1. ASSUME NEW t PROVE t \in Seen(next) <=> t \in Seen(conn) \cup page
        BY <2>2, <2>3, <2>4 DEF Seen
      <4> QED
        BY <4>1
    <3> QED
      BY <2>4, <3>1 DEF Session
  <2>7. next.phase = "list" => next.page < MaxPages
    BY <2>2, <2>4 DEF LastPage
  <2>8. next.phase = "done" => next.page >= MaxPages \/ next.page >= Len(next.listing)
    BY <2>2, <2>4 DEF LastPage
  <2> QED
    BY <2>4, <2>5, <2>6, <2>7, <2>8 DEF Session
<1> QED
  BY <1>1, <1>2, <1>3

\* Whatever a server answers.
LEMMA ExchangeIsSession ==
  ASSUME NEW conn, Session(conn), conn.phase \in {"initialize", "list"}, NEW answer
  PROVE  Session(Exchange(conn, answer))
<1>1. CASE conn.phase = "list"
  BY <1>1, ListedIsSession DEF Exchange
<1>2. CASE conn.phase = "initialize" /\ Reply(answer) = "error"
  BY <1>2, FailedIsSession DEF Exchange
<1>3. CASE conn.phase = "initialize" /\ Reply(answer) # "error"
  <2>1. Exchange(conn, answer) = [conn EXCEPT !.phase = "list"]
    BY <1>3 DEF Exchange
  <2> QED
    BY <1>3, <2>1 DEF Session, Connection, Seen
<1> QED
  BY <1>1, <1>2, <1>3

LEMMA WholeListing ==
  ASSUME NEW conn, Session(conn), conn.phase = "done", ~conn.misread,
         Len(conn.listing) <= MaxPages
  PROVE  conn.tools = Whole(conn.listing)
<1>1. /\ conn.listing \in Seq(SUBSET Offered) /\ conn.page \in 0..MaxPages
      /\ conn.page >= MaxPages \/ conn.page >= Len(conn.listing)
  BY DEF Session, Connection
<1>2. conn.page \in Nat /\ Len(conn.listing) \in Nat /\ conn.page >= Len(conn.listing)
  BY <1>1, McpAssumption DEF McpAssumption
<1>3. \A i \in DOMAIN conn.listing : i <= conn.page /\ conn.listing[i] \subseteq Offered
  BY <1>1, <1>2
<1>4. conn.tools = Seen(conn)
  BY DEF Session
<1> QED
  BY <1>3, <1>4 DEF Seen, Whole

-----------------------------------------------------------------------------
(* What is always so: types, and of every call under way that its session is *)
(* one, and that what it carries as approved somebody approved.              *)

Sound(it, ok) ==
  /\ it \in Handler
  /\ Session(it.conn)
  /\ it.pc = "discover" => it.conn.phase \in {"initialize", "list"}
  /\ it.pc = "store" /\ it.conn.phase = "done" =>
       it.server.tools = {normalize_tool(t) : t \in it.conn.tools}
  /\ it.server.approved => <<it.tenant, it.name>> \in ok
  /\ it.pc # "save" => it.server.approved

RowsApproved == \A k \in Tenants \X Servers : rows[k] # NoRow /\ rows[k].approved => k \in approved

RegInv ==
  /\ TypeOK
  /\ \A h \in Calls : Sound(handlers[h], approved)
  /\ RowsApproved
  /\ OnlyApprovedGrantable

LEMMA NormalizeType ==
  ASSUME NEW ts \in SUBSET Offered
  PROVE  {normalize_tool(t) : t \in ts} \in SUBSET ToolSpec
<1>1. ASSUME NEW t \in Offered PROVE normalize_tool(t) \in ToolSpec
  BY DEF Offered, ToolSpec, normalize_tool, infer_side_effecting
<1> QED
  BY <1>1

\* One call moves on; approvals only grow.
LEMMA CallMoves ==
  ASSUME RegInv, NEW h \in Handlers, NEW it,
         handlers' = [handlers EXCEPT ![h] = it],
         it = NoCall \/ Sound(it, approved'), approved \subseteq approved'
  PROVE  /\ handlers' \in [Handlers -> Handler \cup {NoCall}]
         /\ \A g \in Calls' : Sound(handlers'[g], approved')
<1>1. handlers \in [Handlers -> Handler \cup {NoCall}]
  BY DEF RegInv, TypeOK
<1>2. it \in Handler \cup {NoCall}
  BY DEF Sound
<1>3. handlers' \in [Handlers -> Handler \cup {NoCall}]
  BY <1>1, <1>2
<1>4. ASSUME NEW g \in Calls' PROVE Sound(handlers'[g], approved')
  <2>1. g \in Handlers /\ handlers'[g] # NoCall
    BY DEF Calls
  <2>2. CASE g = h
    BY <1>1, <2>1, <2>2
  <2>3. CASE g # h
    <3>1. handlers'[g] = handlers[g] /\ g \in Calls
      BY <1>1, <2>1, <2>3 DEF Calls
    <3>2. Sound(handlers[g], approved)
      BY <3>1 DEF RegInv
    <3> QED
      BY <3>1, <3>2 DEF Sound
  <2> QED
    BY <2>2, <2>3
<1> QED
  BY <1>3, <1>4

\* Where only calls, rows and memory may change, RegInv is about these.
LEMMA RegInvFrom ==
  ASSUME RegInv, UNCHANGED <<live, phase, listing, budget, vaultVars>>,
         handlers' \in [Handlers -> Handler \cup {NoCall}],
         \A g \in Calls' : Sound(handlers'[g], approved'),
         approved' \subseteq Tenants \X Servers,
         rows' \in [Tenants \X Servers -> Row \cup {NoRow}], RowsApproved',
         memory' \in [Procs -> [Servers \X ToolNames -> Entry \cup {NoEntry}]],
         OnlyApprovedGrantable',
         owed' \in [Tenants \X Servers -> SUBSET ToolSpec]
  PROVE  RegInv'
BY DEF RegInv, TypeOK, VaultTypeOK, vaultVars

LEMMA StepIs ==
  ASSUME RegInv, NEW h \in Calls, NEW pc, NEW server, Step(h, pc, server),
         pc \in {"save", "discover", "store", "bind"}, server \in Row
  PROVE  \E it \in Handler :
           /\ handlers' = [handlers EXCEPT ![h] = it]
           /\ it.pc = pc /\ it.server = server /\ it.conn = Connect(<<>>)
           /\ it.tenant = handlers[h].tenant /\ it.name = handlers[h].name
<1> DEFINE it == [handlers[h] EXCEPT !.pc = pc, !.server = server, !.conn = Connect(<<>>)]
<1>1. handlers \in [Handlers -> Handler \cup {NoCall}] /\ handlers[h] \in Handler /\ h \in Handlers
  BY DEF RegInv, TypeOK, Calls
<1>2. handlers' = [handlers EXCEPT ![h] = it]
  BY <1>1 DEF Step
<1>3. Connect(<<>>) \in Connection
  <2>1. <<>> \in Seq(SUBSET Offered)
    OBVIOUS
  <2> QED
    BY <2>1, ConnectIsSession DEF Session
<1>4. it \in Handler
  BY <1>1, <1>3 DEF Handler
<1>5. /\ it.pc = pc /\ it.server = server /\ it.conn = Connect(<<>>)
      /\ it.tenant = handlers[h].tenant /\ it.name = handlers[h].name
  BY <1>1 DEF Handler
<1> QED
  BY <1>2, <1>4, <1>5

LEMMA EmptySession == Session(Connect(<<>>)) /\ Connect(<<>>).phase = "initialize"
<1>1. <<>> \in Seq(SUBSET Offered)
  OBVIOUS
<1> QED
  BY <1>1, ConnectIsSession

LEMMA SaveRowKeeps ==
  ASSUME RegInv, NEW h \in Handlers, SaveRow(h)
  PROVE  RegInv'
<1> DEFINE it == handlers[h]
<1>1. h \in Calls /\ it.pc = "save" /\ Sound(it, approved) /\ it \in Handler
  BY DEF SaveRow, At, RegInv, Sound
<1>2. Key(h) \in Tenants \X Servers /\ it.server \in Row
  BY <1>1 DEF Handler, Key
<1>3. UNCHANGED <<live, phase, memory, listing, approved, budget, vaultVars>>
  BY DEF SaveRow
<1>4. rows' \in [Tenants \X Servers -> Row \cup {NoRow}] /\ RowsApproved'
  <2>1. rows' = [rows EXCEPT ![Key(h)] = it.server]
    BY DEF SaveRow
  <2>2. it.server.approved => Key(h) \in approved
    BY <1>1 DEF Sound, Key
  <2> QED
    BY <1>2, <1>3, <2>1, <2>2 DEF RegInv, TypeOK, RowsApproved
<1>5. owed' \in [Tenants \X Servers -> SUBSET ToolSpec]
  BY <1>2 DEF SaveRow, RegInv, TypeOK
<1>6. /\ handlers' \in [Handlers -> Handler \cup {NoCall}]
      /\ \A g \in Calls' : Sound(handlers'[g], approved')
  <2>1. CASE Unapproved(h)
    <3>1. handlers' = [handlers EXCEPT ![h] = NoCall]
      BY <2>1 DEF SaveRow, Return
    <3> QED
      BY <1>3, <3>1, CallMoves
  <2>2. CASE ~Unapproved(h) /\ it.connect
    <3> DEFINE next == [it EXCEPT !.pc = "discover", !.conn = Connect(listing[Key(h)])]
    <3>1. handlers' = [handlers EXCEPT ![h] = next]
      BY <1>1, <2>2 DEF SaveRow, Calls, RegInv, TypeOK
    <3>2. listing[Key(h)] \in Seq(SUBSET Offered)
      BY <1>2, RegistryAssumption DEF RegInv, TypeOK, RegistryAssumption
    <3>3. Session(Connect(listing[Key(h)])) /\ Connect(listing[Key(h)]).phase = "initialize"
      BY <3>2, ConnectIsSession
    <3>4. /\ next \in Handler /\ next.pc = "discover" /\ next.conn = Connect(listing[Key(h)])
          /\ next.server = it.server /\ next.tenant = it.tenant /\ next.name = it.name
      BY <1>1, <3>3 DEF Handler, Session
    <3>5. Sound(next, approved')
      BY <1>1, <1>3, <2>2, <3>3, <3>4 DEF Sound, Unapproved
    <3> HIDE DEF next
    <3> QED
      BY <1>3, <3>1, <3>5, CallMoves
  <2>3. CASE ~Unapproved(h) /\ ~it.connect
    <3> DEFINE server == [it.server EXCEPT !.tools = DemoTools, !.status = "demo"]
    <3>1. server \in Row /\ server.approved = it.server.approved
      BY <1>2, RegistryAssumption DEF Row, RegistryAssumption
    <3>2. Step(h, "store", server)
      BY <2>3 DEF SaveRow
    <3> HIDE DEF server
    <3>3. PICK next \in Handler :
            /\ handlers' = [handlers EXCEPT ![h] = next]
            /\ next.pc = "store" /\ next.server = server /\ next.conn = Connect(<<>>)
            /\ next.tenant = it.tenant /\ next.name = it.name
      BY <1>1, <3>1, <3>2, StepIs
    <3>4. Sound(next, approved')
      BY <1>1, <1>3, <2>3, <3>1, <3>3, EmptySession DEF Sound, Unapproved
    <3> QED
      BY <1>3, <3>3, <3>4, CallMoves
  <2> QED
    BY <2>1, <2>2, <2>3
<1> QED
  BY <1>3, <1>4, <1>5, <1>6, RegInvFrom DEF RegInv, TypeOK, OnlyApprovedGrantable

LEMMA DiscoverKeeps ==
  ASSUME RegInv, NEW h \in Handlers, NEW answer, Discover(h, answer)
  PROVE  RegInv'
<1> DEFINE it == handlers[h]
           conn == Exchange(it.conn, answer)
           server == CASE conn.phase = "failed" -> [it.server EXCEPT !.tools = {}, !.status = "error"]
                       [] conn.phase = "done" ->
                            [it.server EXCEPT !.tools = {normalize_tool(t) : t \in conn.tools},
                                              !.status = "connected"]
                       [] OTHER -> it.server
           next == [it EXCEPT !.conn = conn,
                              !.pc = IF conn.phase \in {"done", "failed"} THEN "store" ELSE "discover",
                              !.server = server]
<1>1. h \in Calls /\ it.pc = "discover" /\ Sound(it, approved) /\ it \in Handler
  BY DEF Discover, At, RegInv, Sound
<1>2. Session(conn) /\ conn \in Connection
  <2>1. Session(conn)
    BY <1>1, ExchangeIsSession DEF Sound
  <2> QED
    BY <2>1 DEF Session
<1>3. UNCHANGED <<live, rows, phase, memory, listing, approved, owed, budget, vaultVars>>
  BY DEF Discover
<1>4. handlers' = [handlers EXCEPT ![h] = next]
  BY <1>1 DEF Discover, Calls, RegInv, TypeOK
<1>5. /\ server \in Row /\ server.approved = it.server.approved
      /\ conn.phase = "done" => server.tools = {normalize_tool(t) : t \in conn.tools}
  <2>0. it.server \in Row
    BY <1>1 DEF Handler
  <2> HIDE DEF conn
  <2>1. CASE conn.phase = "failed"
    BY <2>0, <2>1 DEF Row
  <2>2. CASE conn.phase = "done"
    <3>1. {normalize_tool(t) : t \in conn.tools} \in SUBSET ToolSpec
      BY <1>2, NormalizeType DEF Connection
    <3> QED
      BY <2>0, <2>2, <3>1 DEF Row
  <2>3. CASE conn.phase \notin {"failed", "done"}
    BY <2>0, <2>3
  <2> QED
    BY <2>1, <2>2, <2>3
<1> HIDE DEF conn, server
<1>6. /\ next \in Handler /\ next.conn = conn /\ next.server = server
      /\ next.pc = IF conn.phase \in {"done", "failed"} THEN "store" ELSE "discover"
      /\ next.tenant = it.tenant /\ next.name = it.name
  BY <1>1, <1>2, <1>5 DEF Handler
<1>7. Sound(next, approved')
  <2>1. conn.phase \in {"initialize", "list", "done", "failed"}
    BY <1>2 DEF Connection
  <2> HIDE DEF next
  <2> QED
    BY <1>1, <1>2, <1>3, <1>5, <1>6, <2>1 DEF Sound
<1> HIDE DEF next
<1>8. /\ handlers' \in [Handlers -> Handler \cup {NoCall}]
      /\ \A g \in Calls' : Sound(handlers'[g], approved')
  BY <1>3, <1>4, <1>7, CallMoves
<1> QED
  BY <1>3, <1>8, RegInvFrom DEF RegInv, TypeOK, RowsApproved, OnlyApprovedGrantable

LEMMA SaveResultKeeps ==
  ASSUME RegInv, NEW h \in Handlers, SaveResult(h)
  PROVE  RegInv'
<1> DEFINE it == handlers[h]
<1>1. h \in Calls /\ it.pc = "store" /\ Sound(it, approved) /\ it \in Handler
  BY DEF SaveResult, At, RegInv, Sound
<1>2. Key(h) \in Tenants \X Servers /\ it.server \in Row
  BY <1>1 DEF Handler, Key
<1>3. UNCHANGED <<live, phase, memory, listing, approved, owed, budget, vaultVars>>
  BY DEF SaveResult
<1>4. rows' \in [Tenants \X Servers -> Row \cup {NoRow}] /\ RowsApproved'
  <2>1. rows' = [rows EXCEPT ![Key(h)] = it.server]
    BY DEF SaveResult, ResultRow
  <2>2. it.server.approved => Key(h) \in approved
    BY <1>1 DEF Sound, Key
  <2> QED
    BY <1>2, <1>3, <2>1, <2>2 DEF RegInv, TypeOK, RowsApproved
<1>5. /\ handlers' \in [Handlers -> Handler \cup {NoCall}]
      /\ \A g \in Calls' : Sound(handlers'[g], approved')
  <2>1. CASE it.server.status = "error"
    <3>1. handlers' = [handlers EXCEPT ![h] = NoCall]
      BY <2>1 DEF SaveResult, Return
    <3> QED
      BY <1>3, <3>1, CallMoves
  <2>2. CASE it.server.status # "error"
    <3>1. Step(h, "bind", it.server)
      BY <2>2 DEF SaveResult
    <3>2. PICK next \in Handler :
            /\ handlers' = [handlers EXCEPT ![h] = next]
            /\ next.pc = "bind" /\ next.server = it.server /\ next.conn = Connect(<<>>)
            /\ next.tenant = it.tenant /\ next.name = it.name
      BY <1>1, <1>2, <3>1, StepIs
    <3>3. Sound(next, approved')
      BY <1>1, <1>3, <3>2, EmptySession DEF Sound
    <3> QED
      BY <1>3, <3>2, <3>3, CallMoves
  <2> QED
    BY <2>1, <2>2
<1> QED
  BY <1>3, <1>4, <1>5, RegInvFrom DEF RegInv, TypeOK, OnlyApprovedGrantable

LEMMA RegisterDiscoveredKeeps ==
  ASSUME RegInv, NEW h \in Handlers, RegisterDiscovered(h)
  PROVE  RegInv'
<1> DEFINE it == handlers[h]
           taken(n) == n[1] = it.name /\ \E t \in it.server.tools : t.name = n[2]
           entry(n) == [tenant |-> it.tenant,
                        writes |-> (CHOOSE t \in it.server.tools : t.name = n[2]).writes,
                        live |-> it.server.status = "connected"]
<1>1. h \in Calls /\ it.pc = "bind" /\ Sound(it, approved) /\ it \in Handler
  BY DEF RegisterDiscovered, At, RegInv, Sound
<1>2. /\ it.server \in Row /\ it.server.tools \subseteq ToolSpec /\ it.proc \in Procs
      /\ it.tenant \in Tenants /\ it.name \in Servers /\ Key(h) \in Tenants \X Servers
  BY <1>1 DEF Handler, Row, Key
<1>3. UNCHANGED <<live, rows, phase, listing, approved, budget, vaultVars>>
  BY DEF RegisterDiscovered
<1>4. memory' = [memory EXCEPT ![it.proc] =
                   [n \in Servers \X ToolNames |->
                      IF taken(n) THEN entry(n) ELSE memory[it.proc][n]]]
  BY DEF RegisterDiscovered
<1>5. ASSUME NEW n \in Servers \X ToolNames, taken(n)
      PROVE  entry(n) \in Entry /\ entry(n).tenant = it.tenant
  <2>1. (CHOOSE t \in it.server.tools : t.name = n[2]) \in ToolSpec
    BY <1>2, <1>5
  <2>2. (CHOOSE t \in it.server.tools : t.name = n[2]).writes \in BOOLEAN
    BY <2>1 DEF ToolSpec
  <2>3. (it.server.status = "connected") \in BOOLEAN
    OBVIOUS
  <2> QED
    BY <1>2, <2>2, <2>3 DEF Entry
<1>6. <<it.tenant, it.name>> \in approved
  BY <1>1 DEF Sound
<1> HIDE DEF entry
<1>7. memory' \in [Procs -> [Servers \X ToolNames -> Entry \cup {NoEntry}]]
  <2>1. [n \in Servers \X ToolNames |-> IF taken(n) THEN entry(n) ELSE memory[it.proc][n]]
          \in [Servers \X ToolNames -> Entry \cup {NoEntry}]
    BY <1>2, <1>5 DEF RegInv, TypeOK
  <2> QED
    BY <1>4, <2>1 DEF RegInv, TypeOK
<1>8. OnlyApprovedGrantable'
  <2> SUFFICES ASSUME NEW p \in Procs, NEW n \in Servers \X ToolNames, memory'[p][n] # NoEntry
               PROVE  <<memory'[p][n].tenant, n[1]>> \in approved
    BY <1>3 DEF OnlyApprovedGrantable
  <2>1. CASE p = it.proc /\ taken(n)
    <3>1. memory'[p][n] = entry(n)
      BY <1>4, <2>1 DEF RegInv, TypeOK
    <3> QED
      BY <1>5, <1>6, <2>1, <3>1
  <2>2. CASE ~(p = it.proc /\ taken(n))
    <3>1. memory'[p][n] = memory[p][n]
      BY <1>4, <2>2 DEF RegInv, TypeOK
    <3> QED
      BY <3>1 DEF RegInv, OnlyApprovedGrantable
  <2> QED
    BY <2>1, <2>2
<1>9. /\ handlers' \in [Handlers -> Handler \cup {NoCall}]
      /\ \A g \in Calls' : Sound(handlers'[g], approved')
  <2>1. handlers' = [handlers EXCEPT ![h] = NoCall]
    BY DEF RegisterDiscovered, Return
  <2> QED
    BY <1>3, <2>1, CallMoves
<1>10. owed' \in [Tenants \X Servers -> SUBSET ToolSpec]
  BY <1>2 DEF RegisterDiscovered, RegInv, TypeOK
<1> QED
  BY <1>3, <1>7, <1>8, <1>9, <1>10, RegInvFrom DEF RegInv, TypeOK, RowsApproved

Budget == [requests : 0..MaxRequests, deaths : 0..MaxDeaths, changes : 0..MaxChanges]

LEMMA BudgetGrows ==
  ASSUME budget \in Budget
  PROVE  /\ budget.requests < MaxRequests => [budget EXCEPT !.requests = @ + 1] \in Budget
         /\ budget.deaths < MaxDeaths => [budget EXCEPT !.deaths = @ + 1] \in Budget
         /\ budget.changes < MaxChanges => [budget EXCEPT !.changes = @ + 1] \in Budget
<1>1. MaxRequests \in Nat /\ MaxDeaths \in Nat /\ MaxChanges \in Nat
  BY RegistryAssumption DEF RegistryAssumption
<1>2. budget.requests \in 0..MaxRequests /\ budget.deaths \in 0..MaxDeaths
      /\ budget.changes \in 0..MaxChanges
  BY DEF Budget
<1>3. /\ budget.requests < MaxRequests => budget.requests + 1 \in 0..MaxRequests
      /\ budget.deaths < MaxDeaths => budget.deaths + 1 \in 0..MaxDeaths
      /\ budget.changes < MaxChanges => budget.changes + 1 \in 0..MaxChanges
  BY <1>1, <1>2
<1> QED
  BY <1>3 DEF Budget

LEMMA BeginKeeps ==
  ASSUME RegInv, NEW h \in Handlers, NEW p \in Procs, NEW k \in Tenants \X Servers,
         NEW server \in Row, NEW connect \in BOOLEAN, Begin(h, p, k, server, connect),
         approved \subseteq approved', approved' \subseteq approved \cup {k},
         server.approved => k \in approved', UNCHANGED rows
  PROVE  RegInv'
<1> DEFINE new == [pc |-> "save", proc |-> p, tenant |-> k[1], name |-> k[2], server |-> server,
                   connect |-> connect, conn |-> Connect(<<>>), alone |-> Busy(k) = {}]
<1>1. new \in Handler /\ Sound(new, approved')
  <2>1. Connect(<<>>) \in Connection
    BY EmptySession DEF Session
  <2>2. (Busy(k) = {}) \in BOOLEAN
    OBVIOUS
  <2>3. new \in Handler
    BY <2>1, <2>2 DEF Handler
  <2>4. <<k[1], k[2]>> = k
    OBVIOUS
  <2> QED
    BY <2>3, <2>4, EmptySession DEF Sound
<1>2. handlers' = [g \in Handlers |->
        IF g = h THEN new
        ELSE IF g \in Busy(k) THEN [handlers[g] EXCEPT !.alone = FALSE] ELSE handlers[g]]
  BY DEF Begin
<1> HIDE DEF new
<1>3. ASSUME NEW g \in Handlers
      PROVE  /\ handlers'[g] \in Handler \cup {NoCall}
             /\ handlers'[g] # NoCall => Sound(handlers'[g], approved')
  <2>1. CASE g = h
    BY <1>1, <1>2, <2>1
  <2>2. CASE g # h /\ g \in Busy(k)
    <3>1. g \in Calls /\ handlers[g] \in Handler /\ Sound(handlers[g], approved)
      BY <2>2 DEF Busy, RegInv, Sound
    <3> DEFINE it == handlers[g]
               next == [it EXCEPT !.alone = FALSE]
    <3>2. handlers'[g] = next
      BY <1>2, <2>2
    <3>3. /\ next \in Handler /\ next.pc = it.pc /\ next.conn = it.conn
          /\ next.server = it.server /\ next.tenant = it.tenant /\ next.name = it.name
      BY <3>1 DEF Handler
    <3> HIDE DEF next
    <3> QED
      BY <3>1, <3>2, <3>3 DEF Sound
  <2>3. CASE g # h /\ g \notin Busy(k)
    <3>1. handlers'[g] = handlers[g]
      BY <1>2, <2>3
    <3> QED
      BY <3>1 DEF RegInv, TypeOK, Sound, Calls
  <2> QED
    BY <2>1, <2>2, <2>3
<1>4. /\ handlers' \in [Handlers -> Handler \cup {NoCall}]
      /\ \A g \in Calls' : Sound(handlers'[g], approved')
  BY <1>2, <1>3 DEF Calls
<1>5. /\ UNCHANGED <<live, rows, phase, memory, listing, owed, vaultVars>>
      /\ budget' \in Budget
  BY BudgetGrows DEF Begin, RegInv, TypeOK, Budget
<1>6. approved' \subseteq Tenants \X Servers
  BY DEF RegInv, TypeOK
<1>7. RowsApproved' /\ OnlyApprovedGrantable'
  BY <1>5 DEF RegInv, RowsApproved, OnlyApprovedGrantable
<1> QED
  BY <1>4, <1>5, <1>6, <1>7 DEF RegInv, TypeOK, Budget, VaultTypeOK, vaultVars

LEMMA RequestKeeps ==
  ASSUME RegInv, NEW h \in Handlers, NEW p \in Procs, NEW k \in Tenants \X Servers,
         Register(h, p, k) \/ Approve(h, p, k) \/ Refresh(h, p, k)
  PROVE  RegInv'
<1>1. live \in BOOLEAN /\ rows[k] \in Row \cup {NoRow}
  BY DEF RegInv, TypeOK
<1>2. CASE Register(h, p, k)
  <2>1. PICK ok \in BOOLEAN :
          /\ Begin(h, p, k, [NewServer EXCEPT !.approved = ok], live)
          /\ approved' = IF ok THEN approved \cup {k} ELSE approved
    BY <1>2 DEF Register
  <2> DEFINE server == [NewServer EXCEPT !.approved = ok]
  <2>2. server \in Row /\ server.approved = ok
    BY DEF NewServer, Row
  <2> HIDE DEF server
  <2>3. Begin(h, p, k, server, live) /\ UNCHANGED rows
    BY <2>1 DEF server, Begin
  <2>4. /\ approved \subseteq approved' /\ approved' \subseteq approved \cup {k}
        /\ server.approved => k \in approved'
    BY <2>1, <2>2
  <2> QED
    BY <1>1, <2>2, <2>3, <2>4, BeginKeeps
<1>3. CASE Approve(h, p, k)
  <2> DEFINE server == [rows[k] EXCEPT !.approved = TRUE]
  <2>1. server \in Row
    BY <1>1, <1>3 DEF Approve, Row
  <2>2. /\ Begin(h, p, k, server, live) /\ UNCHANGED rows
        /\ approved' = approved \cup {k}
    BY <1>3 DEF Approve, Begin
  <2> HIDE DEF server
  <2> QED
    BY <1>1, <2>1, <2>2, BeginKeeps
<1>4. CASE Refresh(h, p, k)
  <2>1. rows[k] \in Row /\ Begin(h, p, k, rows[k], TRUE) /\ UNCHANGED <<rows, approved>>
    BY <1>1, <1>4 DEF Refresh, Begin
  <2>2. rows[k].approved => k \in approved'
    BY <1>4, <2>1 DEF RegInv, RowsApproved, Refresh
  <2> QED
    BY <2>1, <2>2, BeginKeeps
<1> QED
  BY <1>2, <1>3, <1>4

-----------------------------------------------------------------------------
(* The life of a process.                                                  *)

LEMMA VaultTypes ==
  ASSUME VaultTypeOK, NEW p \in Procs, NEW w,
         \/ LookUpKey(p) \/ InitCipher(p) \/ ForgetCipher(p)
         \/ Put(p, w) \/ DeleteCredential(w)
  PROVE  VaultTypeOK'
<1> USE DEF VaultTypeOK
<1>1. CASE LookUpKey(p)
  BY <1>1 DEF LookUpKey
<1>2. CASE InitCipher(p)
  BY <1>2 DEF InitCipher, NewKey
<1>3. CASE ForgetCipher(p)
  BY <1>3 DEF ForgetCipher
<1>4. CASE Put(p, w)
  BY <1>4 DEF Put
<1>5. CASE DeleteCredential(w)
  BY <1>5 DEF DeleteCredential
<1> QED
  BY <1>1, <1>2, <1>3, <1>4, <1>5

LEMMA SameCalls ==
  ASSUME RegInv, UNCHANGED <<handlers, approved>>
  PROVE  /\ handlers' \in [Handlers -> Handler \cup {NoCall}]
         /\ \A g \in Calls' : Sound(handlers'[g], approved')
BY DEF RegInv, TypeOK, Calls

LEMMA QuietKeeps ==
  ASSUME RegInv, NEW p \in Procs,
         \/ Start(p) \/ AttachVault(p)
         \/ \E w \in Guarded : SetCredential(p, w) \/ ClearCredential(p, w)
  PROVE  RegInv'
<1>1. UNCHANGED <<live, rows, memory, handlers, approved, owed>>
  BY DEF Start, AttachVault, SetCredential, ClearCredential, regVars
<1>2. /\ phase' \in [Procs -> {"off", "key", "load", "up"}]
      /\ listing' \in [Tenants \X Servers -> Listings]
      /\ budget' \in Budget
  BY DEF RegInv, TypeOK, Budget, Start, AttachVault, SetCredential, ClearCredential, regVars
<1>3. VaultTypeOK'
  <2>1. CASE UNCHANGED vaultVars
    BY <2>1 DEF RegInv, TypeOK, VaultTypeOK, vaultVars
  <2>2. CASE ~UNCHANGED vaultVars
    BY <2>2, VaultTypes DEF RegInv, TypeOK, Start, AttachVault, SetCredential, ClearCredential
  <2> QED
    BY <2>1, <2>2
<1>4. RowsApproved' /\ OnlyApprovedGrantable'
  BY <1>1 DEF RegInv, RowsApproved, OnlyApprovedGrantable
<1> QED
  BY <1>1, <1>2, <1>3, <1>4, SameCalls DEF RegInv, TypeOK, Budget

LEMMA EnvironmentKeeps ==
  ASSUME RegInv, UNCHANGED vars \/ \E k \in Tenants \X Servers : ServerChanges(k)
  PROVE  RegInv'
<1>1. UNCHANGED <<live, rows, phase, memory, handlers, approved, owed, vaultVars>>
  BY DEF ServerChanges, vars, regVars
<1>2. /\ listing' \in [Tenants \X Servers -> Listings]
      /\ budget' \in Budget
  <2>1. listing \in [Tenants \X Servers -> Listings] /\ budget \in Budget
    BY DEF RegInv, TypeOK, Budget
  <2>2. CASE UNCHANGED vars
    BY <2>1, <2>2 DEF vars, regVars
  <2>3. ASSUME NEW k \in Tenants \X Servers, ServerChanges(k)
        PROVE  /\ listing' \in [Tenants \X Servers -> Listings]
               /\ budget' \in Budget
    BY <2>1, <2>3, BudgetGrows DEF ServerChanges
  <2> QED
    BY <2>2, <2>3
<1>3. VaultTypeOK' /\ RowsApproved' /\ OnlyApprovedGrantable'
  BY <1>1 DEF RegInv, TypeOK, VaultTypeOK, vaultVars, RowsApproved, OnlyApprovedGrantable
<1> QED
  BY <1>1, <1>2, <1>3, SameCalls DEF RegInv, TypeOK, Budget

LEMMA DieKeeps ==
  ASSUME RegInv, NEW p \in Procs, Die(p)
  PROVE  RegInv'
<1>1. UNCHANGED <<live, rows, listing, approved, owed>>
  BY DEF Die
<1>2. /\ phase' \in [Procs -> {"off", "key", "load", "up"}]
      /\ budget' \in Budget
  BY BudgetGrows DEF Die, RegInv, TypeOK, Budget
<1>3. VaultTypeOK'
  BY VaultTypes DEF Die, RegInv, TypeOK
<1>4. handlers' = [h \in Handlers |->
                     IF h \in Calls /\ handlers[h].proc = p THEN NoCall ELSE handlers[h]]
  BY DEF Die
<1>5. /\ handlers' \in [Handlers -> Handler \cup {NoCall}]
      /\ \A g \in Calls' : Sound(handlers'[g], approved')
  BY <1>1, <1>4 DEF RegInv, TypeOK, Calls
<1>6. memory' = [memory EXCEPT ![p] = Empty]
  BY DEF Die
<1>7. /\ memory' \in [Procs -> [Servers \X ToolNames -> Entry \cup {NoEntry}]]
      /\ OnlyApprovedGrantable'
  BY <1>1, <1>6 DEF RegInv, TypeOK, OnlyApprovedGrantable, Empty
<1>8. RowsApproved'
  BY <1>1 DEF RegInv, RowsApproved
<1> QED
  BY <1>1, <1>2, <1>3, <1>5, <1>7, <1>8 DEF RegInv, TypeOK, Budget

LEMMA CachedType ==
  ASSUME NEW row \in Row \cup {NoRow}
  PROVE  /\ Cached(row) \subseteq ToolSpec
         /\ Cached(row) # {} => row # NoRow /\ row.approved /\ row \in Row
BY RegistryAssumption DEF Cached, Row, RegistryAssumption

Named(w, n) == {t \in Cached(rows[<<w, n[1]>>]) : t.name = n[2]}

EntryOf(w, n) ==
  [tenant |-> w, writes |-> (CHOOSE t \in Named(w, n) : TRUE).writes,
   live |-> rows[<<w, n[1]>>].status = "connected"]

\* What a process has of a tool once it has loaded the rows: nothing if no row has it, or
\* what one of the rows that have it says.
LEMMA LoadedEntries ==
  ASSUME RegInv, NEW p \in Procs, LoadPersisted(p)
  PROVE  \E loaded :
           /\ memory' = [memory EXCEPT ![p] = loaded]
           /\ DOMAIN loaded = Servers \X ToolNames
           /\ loaded = [n \in Servers \X ToolNames |-> loaded[n]]
           /\ \A n \in Servers \X ToolNames :
                \/ loaded[n] = NoEntry /\ \A w \in Tenants : Named(w, n) = {}
                \/ \E w \in Tenants : Named(w, n) # {} /\ loaded[n] = EntryOf(w, n)
<1>1. PICK later \in [Servers -> Orders] :
        LET last(n) == CHOOSE w \in Tenants : /\ Named(w, n) # {}
                                              /\ \A v \in Tenants : Named(v, n) # {} =>
                                                   later[n[1]][v] <= later[n[1]][w]
        IN memory' = [memory EXCEPT ![p] =
             [n \in Servers \X ToolNames |->
                IF \A w \in Tenants : Named(w, n) = {} THEN NoEntry ELSE EntryOf(last(n), n)]]
  BY DEF LoadPersisted, Named, EntryOf
<1> DEFINE latest(w, n) == /\ Named(w, n) # {}
                           /\ \A v \in Tenants : Named(v, n) # {} =>
                                later[n[1]][v] <= later[n[1]][w]
           last(n) == CHOOSE w \in Tenants : latest(w, n)
           loaded == [n \in Servers \X ToolNames |->
                        IF \A w \in Tenants : Named(w, n) = {} THEN NoEntry ELSE EntryOf(last(n), n)]
<1>2. memory' = [memory EXCEPT ![p] = loaded]
  BY <1>1
<1>3. ASSUME NEW n \in Servers \X ToolNames, NEW w \in Tenants, Named(w, n) # {}
      PROVE  last(n) \in Tenants /\ Named(last(n), n) # {}
  <2> DEFINE S == {v \in Tenants : Named(v, n) # {}}
             f == later[n[1]]
  <2>1. Cardinality(Tenants) \in Nat
    BY VaultAssumption, FS_CardinalityType DEF VaultAssumption
  <2>2. f \in [Tenants -> 1..Cardinality(Tenants)]
    BY DEF Orders
  <2> HIDE DEF f
  <2>3. S # {} /\ \A v \in S : f[v] \in 1..Cardinality(Tenants)
    BY <1>3, <2>2
  <2>4. \E u \in S : \A v \in S : f[v] <= f[u]
    <3> HIDE DEF S
    <3> QED
      BY <2>1, <2>3, LatestExists
  <2>5. \E u \in Tenants : latest(u, n)
    BY <2>4 DEF f
  <2> QED
    BY <2>5
<1> HIDE DEF last
<1>4. ASSUME NEW n \in Servers \X ToolNames
      PROVE  \/ loaded[n] = NoEntry /\ \A w \in Tenants : Named(w, n) = {}
             \/ \E w \in Tenants : Named(w, n) # {} /\ loaded[n] = EntryOf(w, n)
  BY <1>3
<1> QED
  BY <1>2, <1>4

LEMMA EntryOfType ==
  ASSUME RegInv, NEW n \in Servers \X ToolNames, NEW w \in Tenants, Named(w, n) # {}
  PROVE  EntryOf(w, n) \in Entry /\ EntryOf(w, n).tenant = w /\ <<w, n[1]>> \in approved
<1> DEFINE key == <<w, n[1]>>
<1>1. key \in Tenants \X Servers /\ rows[key] \in Row \cup {NoRow}
  BY DEF RegInv, TypeOK
<1>2. Cached(rows[key]) \subseteq ToolSpec /\ Cached(rows[key]) # {}
  BY <1>1, CachedType DEF Named
<1>3. rows[key] # NoRow /\ rows[key].approved
  BY <1>1, <1>2, CachedType
<1>4. (CHOOSE t \in Named(w, n) : TRUE) \in ToolSpec
  BY <1>2 DEF Named
<1>5. (CHOOSE t \in Named(w, n) : TRUE).writes \in BOOLEAN
  BY <1>4 DEF ToolSpec
<1>6. (rows[key].status = "connected") \in BOOLEAN
  OBVIOUS
<1>7. EntryOf(w, n) \in Entry /\ EntryOf(w, n).tenant = w
  BY <1>5, <1>6 DEF Entry, EntryOf
<1> QED
  BY <1>1, <1>3, <1>7 DEF RegInv, RowsApproved

\* Every row that was loaded had been approved, whichever was the last.
LEMMA LoadPersistedKeeps ==
  ASSUME RegInv, NEW p \in Procs, LoadPersisted(p)
  PROVE  RegInv'
<1>1. PICK loaded :
        /\ memory' = [memory EXCEPT ![p] = loaded]
        /\ DOMAIN loaded = Servers \X ToolNames
        /\ loaded = [n \in Servers \X ToolNames |-> loaded[n]]
        /\ \A n \in Servers \X ToolNames :
             \/ loaded[n] = NoEntry /\ \A w \in Tenants : Named(w, n) = {}
             \/ \E w \in Tenants : Named(w, n) # {} /\ loaded[n] = EntryOf(w, n)
  BY LoadedEntries
<1>2. ASSUME NEW n \in Servers \X ToolNames
      PROVE  \/ loaded[n] = NoEntry
             \/ loaded[n] \in Entry /\ <<loaded[n].tenant, n[1]>> \in approved
  <2>1. CASE \E w \in Tenants : Named(w, n) # {} /\ loaded[n] = EntryOf(w, n)
    <3>1. PICK w \in Tenants : Named(w, n) # {} /\ loaded[n] = EntryOf(w, n)
      BY <2>1
    <3>2. EntryOf(w, n) \in Entry /\ EntryOf(w, n).tenant = w /\ <<w, n[1]>> \in approved
      BY <3>1, EntryOfType
    <3> QED
      BY <3>1, <3>2
  <2> QED
    BY <1>1, <2>1
<1>3. memory' \in [Procs -> [Servers \X ToolNames -> Entry \cup {NoEntry}]]
  <2>1. loaded \in [Servers \X ToolNames -> Entry \cup {NoEntry}]
    BY <1>1, <1>2
  <2> QED
    BY <1>1, <2>1 DEF RegInv, TypeOK
<1>4. UNCHANGED <<live, rows, handlers, listing, approved, owed, budget, vaultVars>>
  BY DEF LoadPersisted
<1>5. OnlyApprovedGrantable'
  <2> SUFFICES ASSUME NEW q \in Procs, NEW n \in Servers \X ToolNames, memory'[q][n] # NoEntry
               PROVE  <<memory'[q][n].tenant, n[1]>> \in approved
    BY <1>4 DEF OnlyApprovedGrantable
  <2>1. CASE q = p
    <3>1. memory'[q][n] = loaded[n]
      BY <1>1, <2>1 DEF RegInv, TypeOK
    <3> QED
      BY <1>2, <3>1
  <2>2. CASE q # p
    <3>1. memory'[q][n] = memory[q][n]
      BY <1>1, <2>2 DEF RegInv, TypeOK
    <3> QED
      BY <3>1 DEF RegInv, OnlyApprovedGrantable
  <2> QED
    BY <2>1, <2>2
<1>6. phase' \in [Procs -> {"off", "key", "load", "up"}] /\ VaultTypeOK'
  BY <1>4 DEF LoadPersisted, RegInv, TypeOK, VaultTypeOK, vaultVars
<1>7. RowsApproved'
  BY <1>4 DEF RegInv, RowsApproved
<1> QED
  BY <1>3, <1>4, <1>5, <1>6, <1>7, SameCalls DEF RegInv, TypeOK, Budget

-----------------------------------------------------------------------------

LEMMA RegInvInit ==
  ASSUME Init
  PROVE  RegInv
<1>1. TypeOK
  <2>1. VaultTypeOK
    BY DEF Init, VaultInit, VaultTypeOK
  <2>2. budget \in Budget
    BY RegistryAssumption DEF Init, Budget, RegistryAssumption
  <2>3. listing \in [Tenants \X Servers -> Listings]
    BY RegistryAssumption DEF Init, RegistryAssumption
  <2> QED
    BY <2>1, <2>2, <2>3 DEF Init, TypeOK, Empty, Budget
<1>2. Calls = {}
  BY DEF Init, Calls
<1>3. RowsApproved /\ OnlyApprovedGrantable
  BY DEF Init, RowsApproved, OnlyApprovedGrantable, Empty
<1> QED
  BY <1>1, <1>2, <1>3 DEF RegInv

LEMMA RegInvStep ==
  ASSUME RegInv, [Next]_vars
  PROVE  RegInv'
<1>1. ASSUME NEW p \in Procs
      PROVE  /\ Start(p) \/ AttachVault(p) => RegInv'
             /\ LoadPersisted(p) => RegInv'
             /\ Die(p) => RegInv'
             /\ (\E w \in Guarded : SetCredential(p, w) \/ ClearCredential(p, w)) => RegInv'
  BY QuietKeeps, LoadPersistedKeeps, DieKeeps
<1>2. ASSUME NEW p \in Procs, NEW h \in Handlers, NEW k \in Tenants \X Servers,
             Register(h, p, k) \/ Approve(h, p, k) \/ Refresh(h, p, k)
      PROVE  RegInv'
  BY <1>2, RequestKeeps
<1>3. ASSUME NEW h \in Handlers,
             \/ SaveRow(h) \/ SaveResult(h) \/ RegisterDiscovered(h)
             \/ \E answer \in Answers : Discover(h, answer)
      PROVE  RegInv'
  BY <1>3, SaveRowKeeps, SaveResultKeeps, RegisterDiscoveredKeeps, DiscoverKeeps
<1>4. ASSUME NEW k \in Tenants \X Servers, ServerChanges(k) PROVE RegInv'
  BY <1>4, EnvironmentKeeps
<1>5. CASE UNCHANGED vars
  BY <1>5, EnvironmentKeeps
<1> QED
  BY <1>1, <1>2, <1>3, <1>4, <1>5 DEF Next

LEMMA AlwaysRegInv == Spec => []RegInv
<1>1. Init => RegInv
  BY RegInvInit
<1>2. RegInv /\ [Next]_vars => RegInv'
  BY RegInvStep
<1> QED
  BY <1>1, <1>2, PTL DEF Spec

\* The variables have their types, whatever servers list and answer.
THEOREM TypeCorrect == Spec => []TypeOK
<1>1. RegInv => TypeOK
  BY DEF RegInv
<1> QED
  BY <1>1, AlwaysRegInv, PTL

\* Only tools of servers somebody approved are grantable, however registrations overlap
\* and whenever processes die and start (registry.py: "only become grantable once their
\* MCP server is approved").
THEOREM OnlyApprovedAreGrantable == Spec => []OnlyApprovedGrantable
<1>1. RegInv => OnlyApprovedGrantable
  BY DEF RegInv
<1> QED
  BY <1>1, AlwaysRegInv, PTL

\* Discovery is complete, for every listing within the cap and every way to answer but
\* one (list_tools).
THEOREM DiscoveriesAreWhole == Spec => []DiscoveryIsWhole
<1>1. RegInv => DiscoveryIsWhole
  <2> SUFFICES ASSUME RegInv, NEW h \in Calls, handlers[h].pc = "store",
                      handlers[h].conn.phase = "done", ~handlers[h].conn.misread,
                      ~(Len(handlers[h].conn.listing) > MaxPages)
               PROVE  handlers[h].server.tools =
                        {normalize_tool(t) : t \in Whole(handlers[h].conn.listing)}
    BY DEF DiscoveryIsWhole
  <2>1. Sound(handlers[h], approved)
    BY DEF RegInv
  <2>2. Session(handlers[h].conn) /\ handlers[h].conn.listing \in Seq(SUBSET Offered)
    BY <2>1 DEF Sound, Session, Connection
  <2>3. Len(handlers[h].conn.listing) <= MaxPages
    <3>1. Len(handlers[h].conn.listing) \in Nat
      BY <2>2
    <3> QED
      BY <3>1, McpAssumption DEF McpAssumption
  <2>4. handlers[h].conn.tools = Whole(handlers[h].conn.listing)
    BY <2>2, <2>3, WholeListing
  <2> QED
    BY <2>1, <2>4 DEF Sound
<1> QED
  BY <1>1, AlwaysRegInv, PTL

-----------------------------------------------------------------------------
(* What is owed.  The row of a server that was last registered by a call    *)
(* that met no other holds, approved, every tool that was reported: calls  *)
(* for one row that overlap know of each other, and each takes back what   *)
(* was owed when it first saves the row.                                   *)

NamesOnce(ts) == \A a, b \in ts : a.name = b.name => a = b

\* No server lists two tools of one name.
UniqueNames == NamesOnce(DemoTools) /\ \A l \in Listings : NamesOnce(Whole(l))

Tracked(h) ==
  /\ NamesOnce(handlers[h].server.tools)
  /\ handlers[h].pc = "discover" => handlers[h].conn.listing \in Listings
  /\ handlers[h].pc # "save" => owed[Key(h)] = {}
  /\ handlers[h].pc = "bind" /\ handlers[h].alone => rows[Key(h)] = handlers[h].server
  /\ handlers[h].alone => Busy(Key(h)) = {h}

Kept(k) ==
  /\ owed[k] # {} => rows[k] # NoRow /\ rows[k].approved /\ owed[k] \subseteq rows[k].tools
  /\ rows[k] # NoRow => NamesOnce(rows[k].tools)

OwedInv ==
  /\ \A k \in Tenants \X Servers : Kept(k)
  /\ \A h \in Calls : Tracked(h)

LEMMA NamesOnceNormalized ==
  ASSUME NEW ts \in SUBSET Offered, NamesOnce(ts)
  PROVE  NamesOnce({normalize_tool(t) : t \in ts})
BY DEF NamesOnce, normalize_tool

LEMMA NamesOnceSeen ==
  ASSUME NEW conn, Session(conn), NamesOnce(Whole(conn.listing))
  PROVE  NamesOnce(conn.tools)
<1>1. conn.tools \subseteq Whole(conn.listing)
  BY DEF Session, Seen, Whole
<1> QED
  BY <1>1 DEF NamesOnce

LEMMA ExchangeKeepsListing ==
  ASSUME NEW conn, Session(conn), conn.phase \in {"initialize", "list"}, NEW answer,
         Exchange(conn, answer).phase # "failed"
  PROVE  Exchange(conn, answer).listing = conn.listing
<1>1. conn \in Connection
  BY DEF Session
<1>2. Exchange(conn, answer) # Failed
  BY FailedIsSession
<1>3. CASE conn.phase = "initialize"
  <2>1. Exchange(conn, answer) = [conn EXCEPT !.phase = "list"]
    BY <1>2, <1>3 DEF Exchange
  <2> QED
    BY <1>1, <2>1 DEF Connection
<1>4. CASE conn.phase = "list"
  <2>1. Exchange(conn, answer) = Listed(conn, Reply(answer)) /\ Reply(answer) # "error"
    BY <1>2, <1>4 DEF Exchange, Listed
  <2>2. CASE Reply(answer) = "empty"
    <3>1. Exchange(conn, answer) = [conn EXCEPT !.phase = "done", !.misread = TRUE]
      BY <2>1, <2>2 DEF Listed
    <3> QED
      BY <1>1, <3>1 DEF Connection
  <2>3. CASE Reply(answer) # "empty"
    <3> DEFINE page == IF conn.page < Len(conn.listing) THEN conn.listing[conn.page + 1] ELSE {}
    <3>1. Exchange(conn, answer) = [conn EXCEPT !.phase = IF LastPage(conn) THEN "done" ELSE "list",
                                                !.page = @ + 1, !.tools = @ \cup page]
      BY <2>1, <2>3 DEF Listed
    <3> HIDE DEF page
    <3> QED
      BY <1>1, <3>1 DEF Connection
  <2> QED
    BY <2>2, <2>3
<1> QED
  BY <1>3, <1>4

\* A call that moves on or returns: nobody else's place changes, and nobody is newly busy.
LEMMA OneMoves ==
  ASSUME RegInv, NEW h \in Calls, NEW it, handlers' = [handlers EXCEPT ![h] = it],
         it = NoCall \/ (/\ it.tenant = handlers[h].tenant /\ it.name = handlers[h].name
                         /\ it.alone = handlers[h].alone)
  PROVE  /\ Calls' \subseteq Calls
         /\ handlers'[h] = it
         /\ \A g \in Calls' :
              /\ Key(g)' = Key(g) /\ handlers'[g].alone = handlers[g].alone
              /\ g # h => handlers'[g] = handlers[g]
              /\ Busy(Key(g)) = {g} => Busy(Key(g))' = {g}
<1>1. handlers \in [Handlers -> Handler \cup {NoCall}] /\ h \in Handlers /\ handlers[h] # NoCall
  BY DEF RegInv, TypeOK, Calls
<1>2. /\ handlers'[h] = it
      /\ \A g \in Handlers : g # h => handlers'[g] = handlers[g]
  BY <1>1
<1>3. Calls' \subseteq Calls
  BY <1>1, <1>2 DEF Calls
<1>4. \A g \in Calls' : Key(g)' = Key(g) /\ handlers'[g].alone = handlers[g].alone
  BY <1>1, <1>2 DEF Key, Calls
<1>5. \A g \in Calls' : Busy(Key(g)) = {g} => Busy(Key(g))' = {g}
  BY <1>3, <1>4 DEF Busy
<1> QED
  BY <1>2, <1>3, <1>4, <1>5 DEF Calls

\* Two calls for one row: neither is alone.
LEMMA AloneIsOne ==
  ASSUME OwedInv, NEW g \in Calls, NEW h \in Calls, g # h, Key(g) = Key(h)
  PROVE  ~handlers[g].alone
<1>1. h \in Busy(Key(g))
  BY DEF Busy
<1>2. Tracked(g)
  BY DEF OwedInv
<1> QED
  BY <1>1, <1>2 DEF Tracked

\* The other calls, when h moves on and saves or settles what concerns its own row.
LEMMA OthersTracked ==
  ASSUME RegInv, OwedInv, NEW h \in Calls, NEW it, handlers' = [handlers EXCEPT ![h] = it],
         it = NoCall \/ (/\ it.tenant = handlers[h].tenant /\ it.name = handlers[h].name
                         /\ it.alone = handlers[h].alone),
         \A k \in Tenants \X Servers : k # Key(h) => rows'[k] = rows[k] /\ owed'[k] = owed[k],
         owed'[Key(h)] = {} \/ owed'[Key(h)] = owed[Key(h)] \/ handlers[h].alone,
         NEW g \in Calls', g # h
  PROVE  Tracked(g)'
<1>1. /\ g \in Calls /\ handlers'[g] = handlers[g] /\ Key(g)' = Key(g)
      /\ Busy(Key(g)) = {g} => Busy(Key(g))' = {g}
  BY OneMoves
<1>2. Tracked(g) /\ Key(g) \in Tenants \X Servers
  BY <1>1 DEF OwedInv, RegInv, Sound, Handler, Key
<1>3. CASE Key(g) = Key(h)
  <2>1. ~handlers[g].alone /\ ~handlers[h].alone
    BY <1>1, <1>3, AloneIsOne
  <2> QED
    BY <1>1, <1>2, <1>3, <2>1 DEF Tracked
<1>4. CASE Key(g) # Key(h)
  BY <1>1, <1>2, <1>4 DEF Tracked
<1> QED
  BY <1>3, <1>4

LEMMA SaveRowTracks ==
  ASSUME UniqueNames, RegInv, OwedInv, NEW h \in Handlers, SaveRow(h)
  PROVE  OwedInv'
<1> DEFINE it == handlers[h]
<1>1. h \in Calls /\ it \in Handler /\ Tracked(h) /\ Key(h) \in Tenants \X Servers
  BY DEF SaveRow, At, RegInv, Sound, OwedInv, Key, Handler
<1>2. rows' = [rows EXCEPT ![Key(h)] = it.server] /\ owed' = [owed EXCEPT ![Key(h)] = {}]
  BY DEF SaveRow
<1>3. /\ rows'[Key(h)] = it.server /\ owed'[Key(h)] = {}
      /\ \A k \in Tenants \X Servers : k # Key(h) => rows'[k] = rows[k] /\ owed'[k] = owed[k]
  BY <1>1, <1>2 DEF RegInv, TypeOK
<1>4. \A k \in Tenants \X Servers : Kept(k)'
  BY <1>1, <1>3 DEF OwedInv, Kept, Tracked
<1>5. ASSUME NEW next, handlers' = [handlers EXCEPT ![h] = next],
             next = NoCall \/ (/\ next.tenant = it.tenant /\ next.name = it.name
                               /\ next.alone = it.alone /\ next.pc \in {"discover", "store"}
                               /\ NamesOnce(next.server.tools)
                               /\ next.pc = "discover" => next.conn.listing \in Listings)
      PROVE  \A g \in Calls' : Tracked(g)'
  <2>1. \A g \in Calls' : g # h => Tracked(g)'
    BY <1>1, <1>3, <1>5, OthersTracked
  <2>2. h \in Calls' => Tracked(h)'
    <3> SUFFICES ASSUME h \in Calls' PROVE Tracked(h)'
      OBVIOUS
    <3>1. /\ handlers'[h] = next /\ next # NoCall /\ Key(h)' = Key(h)
          /\ Busy(Key(h)) = {h} => Busy(Key(h))' = {h}
      BY <1>1, <1>5, OneMoves DEF Calls
    <3> QED
      BY <1>1, <1>3, <1>5, <3>1 DEF Tracked
  <2> QED
    BY <2>1, <2>2
<1>6. \A g \in Calls' : Tracked(g)'
  <2>1. CASE Unapproved(h)
    BY <1>5, <2>1 DEF SaveRow, Return
  <2>2. CASE ~Unapproved(h) /\ it.connect
    <3> DEFINE next == [it EXCEPT !.pc = "discover", !.conn = Connect(listing[Key(h)])]
    <3>1. handlers' = [handlers EXCEPT ![h] = next]
      BY <1>1, <2>2 DEF SaveRow, Calls, RegInv, TypeOK
    <3>2. listing[Key(h)] \in Listings /\ Connect(listing[Key(h)]).listing = listing[Key(h)]
      BY <1>1 DEF RegInv, TypeOK, Connect
    <3>3. /\ next.tenant = it.tenant /\ next.name = it.name /\ next.alone = it.alone
          /\ next.pc = "discover" /\ next.server = it.server
          /\ next.conn = Connect(listing[Key(h)])
      BY <1>1 DEF Handler
    <3> HIDE DEF next
    <3> QED
      BY <1>1, <1>5, <3>1, <3>2, <3>3 DEF Tracked
  <2>3. CASE ~Unapproved(h) /\ ~it.connect
    <3> DEFINE server == [it.server EXCEPT !.tools = DemoTools, !.status = "demo"]
               next == [it EXCEPT !.pc = "store", !.server = server, !.conn = Connect(<<>>)]
    <3>1. handlers' = [handlers EXCEPT ![h] = next]
      BY <1>1, <2>3 DEF SaveRow, Step, Calls, RegInv, TypeOK
    <3>2. server.tools = DemoTools
      BY <1>1 DEF Handler, Row
    <3> HIDE DEF server
    <3>3. /\ next.tenant = it.tenant /\ next.name = it.name /\ next.alone = it.alone
          /\ next.pc = "store" /\ next.server = server
      BY <1>1 DEF Handler
    <3> HIDE DEF next
    <3> QED
      BY <1>5, <3>1, <3>2, <3>3 DEF UniqueNames
  <2> QED
    BY <2>1, <2>2, <2>3
<1> QED
  BY <1>4, <1>6 DEF OwedInv

LEMMA DiscoverTracks ==
  ASSUME UniqueNames, RegInv, OwedInv, NEW h \in Handlers, NEW answer, Discover(h, answer)
  PROVE  OwedInv'
<1> DEFINE it == handlers[h]
           conn == Exchange(it.conn, answer)
           server == CASE conn.phase = "failed" -> [it.server EXCEPT !.tools = {}, !.status = "error"]
                       [] conn.phase = "done" ->
                            [it.server EXCEPT !.tools = {normalize_tool(t) : t \in conn.tools},
                                              !.status = "connected"]
                       [] OTHER -> it.server
           next == [it EXCEPT !.conn = conn,
                              !.pc = IF conn.phase \in {"done", "failed"} THEN "store" ELSE "discover",
                              !.server = server]
<1>1. h \in Calls /\ it.pc = "discover" /\ Sound(it, approved) /\ it \in Handler /\ Tracked(h)
      /\ Key(h) \in Tenants \X Servers
  BY DEF Discover, At, RegInv, Sound, OwedInv, Key, Handler
<1>2. /\ Session(conn) /\ conn \in Connection
      /\ conn.phase # "failed" => conn.listing \in Listings
  <2>1. Session(it.conn) /\ it.conn.phase \in {"initialize", "list"} /\ it.conn.listing \in Listings
    BY <1>1 DEF Sound, Tracked
  <2> QED
    BY <2>1, ExchangeIsSession, ExchangeKeepsListing DEF Session
<1>3. UNCHANGED <<rows, owed>> /\ handlers' = [handlers EXCEPT ![h] = next]
  BY <1>1 DEF Discover, Calls, RegInv, TypeOK
<1>4. NamesOnce(server.tools)
  <2>0. it.server \in Row /\ NamesOnce(it.server.tools)
    BY <1>1 DEF Handler, Tracked
  <2> HIDE DEF conn
  <2>1. CASE conn.phase = "failed"
    <3>1. server.tools = {}
      BY <2>0, <2>1 DEF Row
    <3> QED
      BY <3>1 DEF NamesOnce
  <2>2. CASE conn.phase = "done"
    <3>1. NamesOnce(conn.tools) /\ conn.tools \in SUBSET Offered
      BY <1>2, <2>2, NamesOnceSeen DEF UniqueNames, Connection
    <3>2. server.tools = {normalize_tool(t) : t \in conn.tools}
      BY <2>0, <2>2 DEF Row
    <3> HIDE DEF server
    <3> QED
      BY <3>1, <3>2, NamesOnceNormalized
  <2>3. CASE conn.phase \notin {"failed", "done"}
    BY <2>0, <2>3
  <2> QED
    BY <2>1, <2>2, <2>3
<1> HIDE DEF conn, server
<1>5. /\ next.conn = conn /\ next.server = server /\ next.alone = it.alone
      /\ next.pc = IF conn.phase \in {"done", "failed"} THEN "store" ELSE "discover"
      /\ next.tenant = it.tenant /\ next.name = it.name
  BY <1>1 DEF Handler
<1> HIDE DEF next
<1>6. \A g \in Calls' : g # h => Tracked(g)'
  BY <1>1, <1>3, <1>5, OthersTracked
<1>7. h \in Calls' => Tracked(h)'
  <2> SUFFICES ASSUME h \in Calls' PROVE Tracked(h)'
    OBVIOUS
  <2>1. /\ handlers'[h] = next /\ Key(h)' = Key(h)
        /\ Busy(Key(h)) = {h} => Busy(Key(h))' = {h}
    BY <1>1, <1>3, <1>5, OneMoves
  <2>2. conn.phase \in {"initialize", "list", "done", "failed"}
    BY <1>2 DEF Connection
  <2> QED
    BY <1>1, <1>2, <1>3, <1>4, <1>5, <2>1, <2>2 DEF Tracked
<1>8. \A k \in Tenants \X Servers : Kept(k)'
  BY <1>3 DEF OwedInv, Kept
<1> QED
  BY <1>6, <1>7, <1>8 DEF OwedInv

LEMMA SaveResultTracks ==
  ASSUME RegInv, OwedInv, NEW h \in Handlers, SaveResult(h)
  PROVE  OwedInv'
<1> DEFINE it == handlers[h]
<1>1. h \in Calls /\ it.pc = "store" /\ it \in Handler /\ Tracked(h) /\ Key(h) \in Tenants \X Servers
  BY DEF SaveResult, At, RegInv, Sound, OwedInv, Key, Handler
<1>2. /\ rows' = [rows EXCEPT ![Key(h)] = it.server] /\ UNCHANGED owed
  BY DEF SaveResult, ResultRow
<1>3. /\ rows'[Key(h)] = it.server /\ owed'[Key(h)] = {}
      /\ \A k \in Tenants \X Servers : k # Key(h) => rows'[k] = rows[k] /\ owed'[k] = owed[k]
  BY <1>1, <1>2 DEF RegInv, TypeOK, Tracked
<1>4. \A k \in Tenants \X Servers : Kept(k)'
  BY <1>1, <1>3 DEF OwedInv, Kept, Tracked
<1>5. CASE it.server.status = "error"
  <2>1. handlers' = [handlers EXCEPT ![h] = NoCall]
    BY <1>5 DEF SaveResult, Return
  <2>2. \A g \in Calls' : g # h => Tracked(g)'
    BY <1>1, <1>3, <2>1, OthersTracked
  <2>3. h \notin Calls'
    BY <1>1, <2>1, OneMoves DEF Calls
  <2> QED
    BY <1>4, <2>2, <2>3 DEF OwedInv
<1>6. CASE it.server.status # "error"
  <2> DEFINE next == [it EXCEPT !.pc = "bind", !.server = it.server, !.conn = Connect(<<>>)]
  <2>1. handlers' = [handlers EXCEPT ![h] = next]
    BY <1>1, <1>6 DEF SaveResult, Step, Calls, RegInv, TypeOK
  <2>2. /\ next.tenant = it.tenant /\ next.name = it.name /\ next.alone = it.alone
        /\ next.pc = "bind" /\ next.server = it.server
    BY <1>1 DEF Handler
  <2> HIDE DEF next
  <2>3. \A g \in Calls' : g # h => Tracked(g)'
    BY <1>1, <1>3, <2>1, <2>2, OthersTracked
  <2>4. h \in Calls' => Tracked(h)'
    <3> SUFFICES ASSUME h \in Calls' PROVE Tracked(h)'
      OBVIOUS
    <3>1. /\ handlers'[h] = next /\ Key(h)' = Key(h)
          /\ Busy(Key(h)) = {h} => Busy(Key(h))' = {h}
      BY <1>1, <2>1, <2>2, OneMoves
    <3> QED
      BY <1>1, <1>3, <2>2, <3>1 DEF Tracked
  <2> QED
    BY <1>4, <2>3, <2>4 DEF OwedInv
<1> QED
  BY <1>5, <1>6

LEMMA RegisterDiscoveredTracks ==
  ASSUME RegInv, OwedInv, NEW h \in Handlers, RegisterDiscovered(h)
  PROVE  OwedInv'
<1> DEFINE it == handlers[h]
<1>1. /\ h \in Calls /\ it.pc = "bind" /\ it \in Handler /\ it.server \in Row
      /\ Tracked(h) /\ Sound(it, approved) /\ Key(h) \in Tenants \X Servers
  BY DEF RegisterDiscovered, At, RegInv, Sound, OwedInv, Key, Handler
<1>2. /\ UNCHANGED rows
      /\ owed' = IF it.alone THEN [owed EXCEPT ![Key(h)] = it.server.tools] ELSE owed
      /\ handlers' = [handlers EXCEPT ![h] = NoCall]
  BY DEF RegisterDiscovered, Return
<1>3. /\ it.alone \/ owed'[Key(h)] = owed[Key(h)]
      /\ it.alone => owed'[Key(h)] = it.server.tools
      /\ \A k \in Tenants \X Servers : k # Key(h) => rows'[k] = rows[k] /\ owed'[k] = owed[k]
  BY <1>1, <1>2 DEF RegInv, TypeOK
<1>4. \A g \in Calls' : g # h => Tracked(g)'
  BY <1>1, <1>2, <1>3, OthersTracked
<1>5. h \notin Calls'
  BY <1>1, <1>2, OneMoves DEF Calls
<1>6. ASSUME NEW k \in Tenants \X Servers PROVE Kept(k)'
  <2>1. CASE k = Key(h) /\ it.alone
    <3>1. rows'[k] = it.server /\ it.server.approved /\ it.server # NoRow
      BY <1>1, <1>2, <2>1, AbsentAssumption DEF Tracked, Sound, AbsentAssumption
    <3> QED
      BY <1>1, <1>3, <2>1, <3>1 DEF Kept, Tracked
  <2>2. CASE k # Key(h) \/ ~it.alone
    <3>1. rows'[k] = rows[k] /\ owed'[k] = owed[k]
      BY <1>2, <1>3, <2>2
    <3> QED
      BY <3>1 DEF OwedInv, Kept
  <2> QED
    BY <2>1, <2>2
<1> QED
  BY <1>4, <1>5, <1>6 DEF OwedInv

LEMMA BeginTracks ==
  ASSUME RegInv, OwedInv, NEW h \in Handlers, NEW p \in Procs, NEW k \in Tenants \X Servers,
         NEW server, NEW connect, Begin(h, p, k, server, connect), NamesOnce(server.tools)
  PROVE  OwedInv'
<1> DEFINE new == [pc |-> "save", proc |-> p, tenant |-> k[1], name |-> k[2], server |-> server,
                   connect |-> connect, conn |-> Connect(<<>>), alone |-> Busy(k) = {}]
<1>1. /\ h \notin Calls /\ UNCHANGED <<rows, owed>>
      /\ handlers' = [g \in Handlers |->
           IF g = h THEN new
           ELSE IF g \in Busy(k) THEN [handlers[g] EXCEPT !.alone = FALSE] ELSE handlers[g]]
  BY DEF Begin
<1>2. /\ new.pc = "save" /\ new.server = server /\ new.tenant = k[1] /\ new.name = k[2]
      /\ new.alone = (Busy(k) = {})
  OBVIOUS
<1> HIDE DEF new
<1>3. Key(h)' = k /\ handlers'[h] = new
  <2>1. handlers'[h] = new /\ <<k[1], k[2]>> = k
    BY <1>1
  <2> QED
    BY <1>2, <2>1 DEF Key
<1>4. ASSUME NEW g \in Calls', g # h
      PROVE  /\ g \in Calls /\ Key(g)' = Key(g)
             /\ handlers'[g].pc = handlers[g].pc /\ handlers'[g].server = handlers[g].server
             /\ handlers'[g].conn = handlers[g].conn
             /\ handlers'[g].alone => handlers[g].alone /\ Key(g) # k
  <2>1. CASE g \in Busy(k)
    <3>1. g \in Calls /\ handlers[g] \in Handler /\ handlers'[g] = [handlers[g] EXCEPT !.alone = FALSE]
      BY <1>1, <1>4, <2>1 DEF Busy, Calls, RegInv, Sound
    <3> QED
      BY <3>1 DEF Handler, Key
  <2>2. CASE g \notin Busy(k)
    <3>1. g \in Handlers /\ handlers'[g] = handlers[g] /\ g \in Calls
      BY <1>1, <1>4, <2>2 DEF Calls
    <3>2. Key(g) # k
      BY <2>2, <3>1 DEF Busy
    <3> QED
      BY <3>1, <3>2 DEF Key
  <2> QED
    BY <2>1, <2>2
<1>5. ASSUME NEW g \in Calls', g # h PROVE Tracked(g)'
  <2>1. Tracked(g)
    BY <1>4, <1>5 DEF OwedInv
  <2>2. handlers'[g].alone => Busy(Key(g))' = {g}
    <3> SUFFICES ASSUME handlers'[g].alone PROVE Busy(Key(g))' = {g}
      OBVIOUS
    <3>1. Busy(Key(g)) = {g} /\ Key(g)' = Key(g) /\ Key(g) # k
      BY <1>4, <1>5, <2>1 DEF Tracked
    <3>2. \A f \in Calls' : Key(f)' = Key(g) => f = g
      BY <1>3, <1>4, <3>1 DEF Busy
    <3> QED
      BY <1>5, <3>1, <3>2 DEF Busy
  <2> QED
    BY <1>1, <1>4, <1>5, <2>1, <2>2 DEF Tracked
<1>6. h \in Calls' => Tracked(h)'
  <2> SUFFICES ASSUME h \in Calls' PROVE Tracked(h)'
    OBVIOUS
  <2>1. new.alone => Busy(k)' = {h}
    <3> SUFFICES ASSUME Busy(k) = {} PROVE Busy(k)' = {h}
      BY <1>2
    <3>1. \A f \in Calls' : f # h => Key(f)' # k
      BY <1>4 DEF Busy
    <3> QED
      BY <1>3, <3>1 DEF Busy
  <2> QED
    BY <1>2, <1>3, <2>1 DEF Tracked
<1>7. \A j \in Tenants \X Servers : Kept(j)'
  BY <1>1 DEF OwedInv, Kept
<1> QED
  BY <1>5, <1>6, <1>7 DEF OwedInv

LEMMA RequestTracks ==
  ASSUME RegInv, OwedInv, NEW h \in Handlers, NEW p \in Procs, NEW k \in Tenants \X Servers,
         Register(h, p, k) \/ Approve(h, p, k) \/ Refresh(h, p, k)
  PROVE  OwedInv'
<1>1. CASE Register(h, p, k)
  <2>1. PICK ok \in BOOLEAN : Begin(h, p, k, [NewServer EXCEPT !.approved = ok], live)
    BY <1>1 DEF Register
  <2>2. [NewServer EXCEPT !.approved = ok].tools = {}
    BY DEF NewServer
  <2>3. NamesOnce([NewServer EXCEPT !.approved = ok].tools)
    BY <2>2 DEF NamesOnce
  <2> QED
    BY <2>1, <2>3, BeginTracks
<1>2. CASE Approve(h, p, k)
  <2> DEFINE server == [rows[k] EXCEPT !.approved = TRUE]
  <2>1. rows[k] \in Row /\ rows[k] # NoRow
    BY <1>2 DEF Approve, RegInv, TypeOK
  <2>2. NamesOnce(server.tools)
    BY <2>1 DEF Row, OwedInv, Kept
  <2>3. Begin(h, p, k, server, live)
    BY <1>2 DEF Approve
  <2> HIDE DEF server
  <2> QED
    BY <2>2, <2>3, BeginTracks
<1>3. CASE Refresh(h, p, k)
  <2>1. NamesOnce(rows[k].tools)
    BY <1>3 DEF Refresh, OwedInv, Kept
  <2> QED
    BY <1>3, <2>1, BeginTracks DEF Refresh
<1> QED
  BY <1>1, <1>2, <1>3

LEMMA DieTracks ==
  ASSUME RegInv, OwedInv, NEW p \in Procs, Die(p)
  PROVE  OwedInv'
<1>1. /\ UNCHANGED <<rows, owed>>
      /\ \A g \in Handlers : handlers'[g] = NoCall \/ handlers'[g] = handlers[g]
  BY DEF Die
<1>2. \A g \in Calls' : g \in Calls /\ handlers'[g] = handlers[g] /\ Key(g)' = Key(g)
  BY <1>1 DEF Calls, Key
<1>3. \A g \in Calls' : Busy(Key(g)) = {g} => Busy(Key(g))' = {g}
  BY <1>2 DEF Busy
<1>4. \A g \in Calls' : Tracked(g)'
  BY <1>1, <1>2, <1>3 DEF OwedInv, Tracked
<1>5. \A k \in Tenants \X Servers : Kept(k)'
  BY <1>1 DEF OwedInv, Kept
<1> QED
  BY <1>4, <1>5 DEF OwedInv

LEMMA QuietTracks ==
  ASSUME OwedInv, UNCHANGED <<rows, owed, handlers>>
  PROVE  OwedInv'
BY DEF OwedInv, Kept, Tracked, Calls, Busy, Key

LEMMA OwedStep ==
  ASSUME UniqueNames, RegInv, OwedInv, [Next]_vars
  PROVE  OwedInv'
<1>1. ASSUME NEW p \in Procs,
             \/ Start(p) \/ AttachVault(p) \/ LoadPersisted(p)
             \/ \E w \in Guarded : SetCredential(p, w) \/ ClearCredential(p, w)
      PROVE  OwedInv'
  BY <1>1, QuietTracks
  DEF Start, AttachVault, LoadPersisted, SetCredential, ClearCredential, regVars
<1>2. ASSUME NEW p \in Procs, Die(p) PROVE OwedInv'
  BY <1>2, DieTracks
<1>3. ASSUME NEW p \in Procs, NEW h \in Handlers, NEW k \in Tenants \X Servers,
             Register(h, p, k) \/ Approve(h, p, k) \/ Refresh(h, p, k)
      PROVE  OwedInv'
  BY <1>3, RequestTracks
<1>4. ASSUME NEW h \in Handlers,
             \/ SaveRow(h) \/ SaveResult(h) \/ RegisterDiscovered(h)
             \/ \E answer \in Answers : Discover(h, answer)
      PROVE  OwedInv'
  BY <1>4, SaveRowTracks, SaveResultTracks, RegisterDiscoveredTracks, DiscoverTracks
<1>5. ASSUME UNCHANGED vars \/ \E k \in Tenants \X Servers : ServerChanges(k) PROVE OwedInv'
  BY <1>5, QuietTracks DEF ServerChanges, vars, regVars
<1> QED
  BY <1>1, <1>2, <1>3, <1>4, <1>5 DEF Next

\* A process that loads the rows has what they owe.
LEMMA LoadGivesOwed ==
  ASSUME RegInv, OwedInv, NEW p \in Procs, LoadPersisted(p),
         NEW k \in Tenants \X Servers, NEW t \in owed[k]
  PROVE  LET entry == memory'[p][<<k[2], t.name>>]
         IN /\ entry # NoEntry
            /\ entry.tenant = k[1] => entry.writes = t.writes
<1> DEFINE n == <<k[2], t.name>>
<1>1. t \in ToolSpec /\ n \in Servers \X ToolNames
  BY DEF RegInv, TypeOK, ToolSpec
<1>2. /\ rows[k] # NoRow /\ rows[k].approved /\ t \in rows[k].tools
      /\ NamesOnce(rows[k].tools)
  BY DEF OwedInv, Kept
<1>3. Cached(rows[k]) = rows[k].tools /\ <<k[1], n[1]>> = k
  BY <1>2 DEF Cached
<1>4. Named(k[1], n) = {u \in rows[k].tools : u.name = t.name}
  BY <1>3 DEF Named
<1>5. Named(k[1], n) = {t}
  BY <1>2, <1>4 DEF NamesOnce
<1>6. EntryOf(k[1], n).writes = t.writes
  BY <1>5 DEF EntryOf
<1>7. PICK loaded :
        /\ memory' = [memory EXCEPT ![p] = loaded]
        /\ DOMAIN loaded = Servers \X ToolNames
        /\ loaded = [m \in Servers \X ToolNames |-> loaded[m]]
        /\ \A m \in Servers \X ToolNames :
             \/ loaded[m] = NoEntry /\ \A w \in Tenants : Named(w, m) = {}
             \/ \E w \in Tenants : Named(w, m) # {} /\ loaded[m] = EntryOf(w, m)
  BY LoadedEntries
<1> HIDE DEF n
<1>8. PICK w \in Tenants : Named(w, n) # {} /\ loaded[n] = EntryOf(w, n)
  BY <1>1, <1>5, <1>7
<1>9. loaded[n] \in Entry /\ loaded[n].tenant = w
  <2>1. EntryOf(w, n) \in Entry /\ EntryOf(w, n).tenant = w
    BY <1>1, <1>8, EntryOfType
  <2> QED
    BY <1>8, <2>1
<1>10. memory'[p][n] = loaded[n]
  BY <1>7 DEF RegInv, TypeOK
<1>11. memory'[p][n] # NoEntry
  BY <1>9, <1>10, AbsentAssumption DEF AbsentAssumption
<1>12. memory'[p][n].tenant = k[1] => memory'[p][n].writes = t.writes
  BY <1>6, <1>8, <1>9, <1>10
<1> QED
  BY <1>11, <1>12 DEF n

LEMMA UpIsLoaded ==
  ASSUME RegInv, [Next]_vars, NEW p \in Procs, phase[p] = "load", phase'[p] = "up"
  PROVE  LoadPersisted(p)
<1>1. ASSUME NEW q \in Procs, q # p, Start(q) \/ AttachVault(q) \/ LoadPersisted(q) \/ Die(q)
      PROVE  FALSE
  BY <1>1 DEF Start, AttachVault, LoadPersisted, Die, RegInv, TypeOK
<1>2. ~Start(p) /\ ~AttachVault(p) /\ ~Die(p)
  BY DEF Start, AttachVault, Die, RegInv, TypeOK
<1>3. CASE UNCHANGED phase
  BY <1>3
<1>4. \/ UNCHANGED phase
      \/ \E q \in Procs : Start(q) \/ AttachVault(q) \/ LoadPersisted(q) \/ Die(q)
  <2>1. ASSUME NEW q \in Procs, NEW w, SetCredential(q, w) \/ ClearCredential(q, w)
        PROVE  UNCHANGED phase
    BY <2>1 DEF SetCredential, ClearCredential, regVars
  <2>2. ASSUME NEW q, NEW h, NEW k, Register(h, q, k) \/ Approve(h, q, k) \/ Refresh(h, q, k)
        PROVE  UNCHANGED phase
    BY <2>2 DEF Register, Approve, Refresh, Begin
  <2>3. ASSUME NEW h, SaveRow(h) \/ SaveResult(h) \/ RegisterDiscovered(h)
        PROVE  UNCHANGED phase
    BY <2>3 DEF SaveRow, SaveResult, RegisterDiscovered
  <2>4. ASSUME NEW h, NEW answer, Discover(h, answer) PROVE UNCHANGED phase
    BY <2>4 DEF Discover
  <2>5. ASSUME NEW k, ServerChanges(k) PROVE UNCHANGED phase
    BY <2>5 DEF ServerChanges
  <2>6. UNCHANGED vars => UNCHANGED phase
    BY DEF vars, regVars
  <2> QED
    BY <2>1, <2>2, <2>3, <2>4, <2>5, <2>6 DEF Next
<1> QED
  BY <1>1, <1>2, <1>3, <1>4

\* Given servers that list no name twice, a process that starts offers again every tool that
\* was last reported for a server by a registration that met no other: whatever overlapped
\* with it elsewhere, whichever process died, and in whatever order the rows are read.
THEOREM RestartsKeepTools == ASSUME UniqueNames PROVE Spec => RestartKeepsTools
<1>1. Init => OwedInv
  BY DEF Init, OwedInv, Kept, Calls
<1>2. RegInv /\ OwedInv /\ [Next]_vars => OwedInv'
  BY OwedStep, UniqueNames
<1>3. RegInv /\ OwedInv /\ [Next]_vars
        => [\A p \in Procs : phase[p] = "load" /\ phase'[p] = "up" =>
              \A k \in Tenants \X Servers : \A t \in owed[k] :
                LET entry == memory'[p][<<k[2], t.name>>]
                IN /\ entry # NoEntry
                   /\ entry.tenant = k[1] => entry.writes = t.writes]_vars
  BY UpIsLoaded, LoadGivesOwed
<1> QED
  BY <1>1, <1>2, <1>3, AlwaysRegInv, PTL DEF Spec, RestartKeepsTools

=============================================================================
