------------------------------ MODULE Registry ------------------------------
(***************************************************************************)
(* The tool registry and its MCP servers (backend/fingent/registry.py), in *)
(* several processes on one store: registration, approval and refresh with *)
(* live discovery, the start of a process with its vault and the rebuild   *)
(* from the store, and its death at any point.                             *)
(*                                                                         *)
(* Composes Vault and McpClient.  Native tools are always there and never  *)
(* clash with a name "server.tool"; only MCP descriptors are kept.  The    *)
(* callable goes with its descriptor.                                      *)
(***************************************************************************)
EXTENDS Vault, McpClient

CONSTANTS
  Servers,      \* names of MCP servers, chosen by each tenant
  Handlers,     \* request threads
  Guarded,      \* tenants whose servers refuse a request without the secret
  DemoTools,    \* _DEMO_TOOLS
  Listings, FirstListing,  \* what a server may list, and lists at first
  Answers,      \* how it may answer a POST
  MaxRequests,  \* bound: requests to the registry
  MaxDeaths,    \* bound: processes that die
  MaxChanges,   \* bound: changes of what a server lists
  NoRow, NoEntry, NoCall

ASSUME RegistryAssumption ==
  /\ Guarded \subseteq Tenants
  /\ DemoTools \subseteq ToolSpec
  /\ FirstListing \in Listings /\ Listings \subseteq Seq(SUBSET Offered)
  /\ Answers \subseteq Answer
  /\ MaxRequests \in Nat /\ MaxDeaths \in Nat /\ MaxChanges \in Nat

VARIABLES
  live,      \* _mcp_live()
  rows,      \* the mcp_servers table
  phase,     \* of each process
  memory,    \* _descriptors of each process
  handlers,  \* the register_mcp_server calls under way
  listing,   \* what each server lists now
  approved,  \* history: servers somebody with write permission approved
  owed,      \* history: the tools reported for a server by a registration that met no other
  budget     \* requests, deaths and changes so far

regVars == <<rows, phase, memory, handlers, listing, approved, owed>>
vars == <<live, regVars, budget, vaultVars>>

\* McpServer as far as it matters.
Row ==
  [approved : BOOLEAN, tools : SUBSET ToolSpec,
   status : {"unknown", "connected", "demo", "error"}]

Entry == [tenant : Tenants, writes : BOOLEAN, live : BOOLEAN]

ASSUME AbsentAssumption == NoRow \notin Row /\ NoEntry \notin Entry

\* server is the object in hand; alone: no other call for that row meanwhile.
Handler ==
  [pc : {"save", "discover", "store", "bind"}, proc : Procs, tenant : Tenants,
   name : Servers, server : Row, connect : BOOLEAN, conn : Connection, alone : BOOLEAN]

NewServer == [approved |-> FALSE, tools |-> {}, status |-> "unknown"]

TypeOK ==
  /\ VaultTypeOK
  /\ live \in BOOLEAN
  /\ rows \in [Tenants \X Servers -> Row \cup {NoRow}]
  /\ phase \in [Procs -> {"off", "key", "load", "up"}]
  /\ memory \in [Procs -> [Servers \X ToolNames -> Entry \cup {NoEntry}]]
  /\ handlers \in [Handlers -> Handler \cup {NoCall}]
  /\ listing \in [Tenants \X Servers -> Listings]
  /\ approved \subseteq Tenants \X Servers
  /\ owed \in [Tenants \X Servers -> SUBSET ToolSpec]
  /\ budget \in [requests : 0..MaxRequests, deaths : 0..MaxDeaths, changes : 0..MaxChanges]

Calls == {h \in Handlers : handlers[h] # NoCall}

Empty == [n \in Servers \X ToolNames |-> NoEntry]

Init ==
  /\ VaultInit
  /\ live \in BOOLEAN
  /\ rows = [k \in Tenants \X Servers |-> NoRow]
  /\ phase = [p \in Procs |-> "off"]
  /\ memory = [p \in Procs |-> Empty]
  /\ handlers = [h \in Handlers |-> NoCall]
  /\ listing = [k \in Tenants \X Servers |-> FirstListing]
  /\ approved = {}
  /\ owed = [k \in Tenants \X Servers |-> {}]
  /\ budget = [requests |-> 0, deaths |-> 0, changes |-> 0]

-----------------------------------------------------------------------------
(* A process starts, and dies.                                             *)

Start(p) ==
  /\ phase[p] = "off"
  /\ phase' = [phase EXCEPT ![p] = "key"]
  /\ LookUpKey(p)
  /\ UNCHANGED <<live, rows, memory, handlers, listing, approved, owed, budget>>

AttachVault(p) ==
  /\ phase[p] = "key"
  /\ phase' = [phase EXCEPT ![p] = "load"]
  /\ InitCipher(p)
  /\ UNCHANGED <<live, rows, memory, handlers, listing, approved, owed, budget>>

\* The tools load_persisted registers for a row, and whether bound to a proxy.
Cached(row) ==
  IF row = NoRow THEN {}
  ELSE IF ~row.approved THEN {}
  ELSE IF row.tools # {} THEN row.tools
  ELSE IF live THEN {} ELSE DemoTools

\* The rows come in no particular order, and of two tools of one name the later stays.
Orders ==
  {f \in [Tenants -> 1..Cardinality(Tenants)] :
     \A v, w \in Tenants : v # w => f[v] # f[w]}

LoadPersisted(p) ==
  /\ phase[p] = "load"
  /\ phase' = [phase EXCEPT ![p] = "up"]
  /\ \E later \in [Servers -> Orders] :
       LET named(w, n) == {t \in Cached(rows[<<w, n[1]>>]) : t.name = n[2]}
           last(n) ==
             CHOOSE w \in Tenants : /\ named(w, n) # {}
                                    /\ \A v \in Tenants : named(v, n) # {} =>
                                         later[n[1]][v] <= later[n[1]][w]
       IN memory' = [memory EXCEPT ![p] =
            [n \in Servers \X ToolNames |->
               IF \A w \in Tenants : named(w, n) = {} THEN NoEntry
               ELSE [tenant |-> last(n), writes |-> (CHOOSE t \in named(last(n), n) : TRUE).writes,
                     live |-> rows[<<last(n), n[1]>>].status = "connected"]]]
  /\ UNCHANGED <<live, rows, handlers, listing, approved, owed, budget, vaultVars>>

Die(p) ==
  /\ phase[p] # "off" /\ budget.deaths < MaxDeaths
  /\ budget' = [budget EXCEPT !.deaths = @ + 1]
  /\ phase' = [phase EXCEPT ![p] = "off"]
  /\ memory' = [memory EXCEPT ![p] = Empty]
  /\ handlers' = [h \in Handlers |-> IF h \in Calls /\ handlers[h].proc = p THEN NoCall ELSE handlers[h]]
  /\ ForgetCipher(p)
  /\ UNCHANGED <<live, rows, listing, approved, owed>>

-----------------------------------------------------------------------------
(* register_mcp_server.                                                    *)

Key(h) == <<handlers[h].tenant, handlers[h].name>>
Busy(k) == {h \in Calls : Key(h) = k}
At(h, pc) == h \in Calls /\ handlers[h].pc = pc
Step(h, pc, server) ==
  handlers' = [handlers EXCEPT ![h].pc = pc, ![h].server = server, ![h].conn = Connect(<<>>)]
Return(h) == handlers' = [handlers EXCEPT ![h] = NoCall]

\* A call begins with a server object of its own.
Begin(h, p, k, server, connect) ==
  /\ phase[p] = "up" /\ h \notin Calls /\ budget.requests < MaxRequests
  /\ budget' = [budget EXCEPT !.requests = @ + 1]
  /\ handlers' = [g \in Handlers |->
       IF g = h
       THEN [pc |-> "save", proc |-> p, tenant |-> k[1], name |-> k[2], server |-> server,
             connect |-> connect, conn |-> Connect(<<>>), alone |-> Busy(k) = {}]
       ELSE IF g \in Busy(k) THEN [handlers[g] EXCEPT !.alone = FALSE] ELSE handlers[g]]
  /\ UNCHANGED <<live, rows, phase, memory, listing, owed, vaultVars>>

\* POST /api/mcp: a new object, approved or not as whoever may write says.
Register(h, p, k) ==
  \E ok \in BOOLEAN :
    /\ Begin(h, p, k, [NewServer EXCEPT !.approved = ok], live)
    /\ approved' = IF ok THEN approved \cup {k} ELSE approved

\* approve_mcp_server and refresh_mcp_server: the row, read now and written back later.
Approve(h, p, k) ==
  /\ rows[k] # NoRow
  /\ Begin(h, p, k, [rows[k] EXCEPT !.approved = TRUE], live)
  /\ approved' = approved \cup {k}

Refresh(h, p, k) ==
  /\ rows[k] # NoRow
  /\ Begin(h, p, k, rows[k], TRUE)
  /\ UNCHANGED approved

\* Whether the server lets the headers of _resolve_headers in.
Admitted(h) ==
  handlers[h].tenant \in Guarded => Resolves(handlers[h].proc, handlers[h].tenant)

\* A bug: a server that is not approved is connected to as well.
UnapprovedToo(h) == FALSE

\* "if not server.approved: return []".
Unapproved(h) == ~handlers[h].server.approved

\* The first save_mcp, before anything is known of the server.
SaveRow(h) ==
  LET it == handlers[h]
  IN /\ At(h, "save")
     /\ rows' = [rows EXCEPT ![Key(h)] = it.server]
     /\ owed' = [owed EXCEPT ![Key(h)] = {}]
     /\ IF Unapproved(h) THEN Return(h)
        ELSE IF it.connect
        THEN handlers' = [handlers EXCEPT ![h].pc = "discover", ![h].conn = Connect(listing[Key(h)])]
        ELSE Step(h, "store", [it.server EXCEPT !.tools = DemoTools, !.status = "demo"])
     /\ UNCHANGED <<live, phase, memory, listing, approved, budget, vaultVars>>

\* One POST of _discover_live.
Discover(h, answer) ==
  LET it == handlers[h]
      conn == Exchange(it.conn, answer)
  IN /\ At(h, "discover")
     /\ ~Admitted(h) => answer.via = "none"
     /\ handlers' = [handlers EXCEPT
          ![h].conn = conn,
          ![h].pc = IF conn.phase \in {"done", "failed"} THEN "store" ELSE "discover",
          ![h].server = CASE conn.phase = "failed" ->
                               [@ EXCEPT !.tools = {}, !.status = "error"]
                          [] conn.phase = "done" ->
                               [@ EXCEPT !.tools = {normalize_tool(t) : t \in conn.tools},
                                         !.status = "connected"]
                          [] OTHER -> @]
     /\ UNCHANGED <<live, rows, phase, memory, listing, approved, owed, budget, vaultVars>>

\* A bug: the row is not saved again with what was discovered.
KeptRow(h) == rows[Key(h)]

\* The row of the second save_mcp.
ResultRow(h) == handlers[h].server

\* The second save_mcp, with the outcome.
SaveResult(h) ==
  /\ At(h, "store")
  /\ rows' = [rows EXCEPT ![Key(h)] = ResultRow(h)]
  /\ IF handlers[h].server.status = "error" THEN Return(h) ELSE Step(h, "bind", handlers[h].server)
  /\ UNCHANGED <<live, phase, memory, listing, approved, owed, budget, vaultVars>>

\* _register_discovered: descriptors by "server.tool", whoever had that name before;
\* tools the server no longer lists stay.
RegisterDiscovered(h) ==
  LET it == handlers[h]
  IN /\ At(h, "bind")
     /\ memory' = [memory EXCEPT ![it.proc] =
          [n \in Servers \X ToolNames |->
             IF n[1] = it.name /\ \E t \in it.server.tools : t.name = n[2]
             THEN [tenant |-> it.tenant,
                   writes |-> (CHOOSE t \in it.server.tools : t.name = n[2]).writes,
                   live |-> it.server.status = "connected"]
             ELSE memory[it.proc][n]]]
     /\ owed' = IF it.alone THEN [owed EXCEPT ![Key(h)] = it.server.tools] ELSE owed
     /\ Return(h)
     /\ UNCHANGED <<live, rows, phase, listing, approved, budget, vaultVars>>

-----------------------------------------------------------------------------
(* The environment, and credentials.                                       *)

\* A server adds, removes or redescribes tools.
ServerChanges(k) ==
  /\ budget.changes < MaxChanges
  /\ budget' = [budget EXCEPT !.changes = @ + 1]
  /\ \E l \in Listings \ {listing[k]} : listing' = [listing EXCEPT ![k] = l]
  /\ UNCHANGED <<live, rows, phase, memory, handlers, approved, owed, vaultVars>>

\* The credentials endpoints.
SetCredential(p, tenant) ==
  /\ phase[p] = "up" /\ Put(p, tenant)
  /\ UNCHANGED <<live, regVars, budget>>

ClearCredential(p, tenant) ==
  /\ phase[p] = "up" /\ DeleteCredential(tenant)
  /\ UNCHANGED <<live, regVars, budget>>

Next ==
  \/ \E p \in Procs :
       \/ Start(p) \/ AttachVault(p) \/ LoadPersisted(p) \/ Die(p)
       \/ \E w \in Guarded : SetCredential(p, w) \/ ClearCredential(p, w)
       \/ \E h \in Handlers, k \in Tenants \X Servers :
            Register(h, p, k) \/ Approve(h, p, k) \/ Refresh(h, p, k)
  \/ \E h \in Handlers :
       \/ SaveRow(h) \/ SaveResult(h) \/ RegisterDiscovered(h)
       \/ \E answer \in Answers : Discover(h, answer)
  \/ \E k \in Tenants \X Servers : ServerChanges(k)

Spec == Init /\ [][Next]_vars

-----------------------------------------------------------------------------
(* What the registry owes.                                                 *)

\* Only tools of servers that somebody approved, with the registration (any caller that
\* may write) or after it, are grantable, in every process, before and after a restart
\* (registry.py: "MCP/external tools are tenant-scoped and only become
\* grantable once their MCP server is approved").
OnlyApprovedGrantable ==
  \A p \in Procs, n \in Servers \X ToolNames :
    memory[p][n] # NoEntry => <<memory[p][n].tenant, n[1]>> \in approved

\* A discovery that succeeds has every tool the server lists, described as it is there,
\* unless the list is longer than the page cap or the server's own request was taken
\* for its answer.
DiscoveryIsWhole ==
  \A h \in Calls :
    LET conn == handlers[h].conn
    IN handlers[h].pc = "store" /\ conn.phase = "done" =>
         \/ conn.misread \/ Len(conn.listing) > MaxPages
         \/ handlers[h].server.tools = {normalize_tool(t) : t \in Whole(conn.listing)}

\* A process that starts offers again every tool reported for a server when it was last
\* registered (load_persisted: "Fixes the restart bug"), unless another tenant's server
\* of the same name has taken the tool's name.
RestartKeepsTools ==
  [][\A p \in Procs : phase[p] = "load" /\ phase'[p] = "up" =>
       \A k \in Tenants \X Servers : \A t \in owed[k] :
         LET entry == memory'[p][<<k[2], t.name>>]
         IN /\ entry # NoEntry
            /\ entry.tenant = k[1] => entry.writes = t.writes]_vars

=============================================================================
