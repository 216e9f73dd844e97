------------------------------ MODULE Assembly ------------------------------
(***************************************************************************)
(* The assembly line of agents: Fingent.create_agent with the compiler,    *)
(* the validator, the dependency resolver and auto-provisioning, and the   *)
(* later life of a stored spec (update, duplicate, delete, withdraw)       *)
(* (backend/fingent/platform.py, compiler.py, and the specs and templates  *)
(* of store.py).                                                           *)
(*                                                                         *)
(* One create_agent is under way at a time, as the stack of its recursive  *)
(* calls; the other requests happen between any two of its steps.  The     *)
(* model is external: it fails or proposes one of Proposals.  Free text is *)
(* the tools it names and whether it reads risky or asks for review; role, *)
(* purpose, instructions and the like are left out, and so is the log.     *)
(***************************************************************************)
EXTENDS Resolver

CONSTANTS
  Catalog,      \* CATALOG: the templates of the code
  Requests,     \* what operators ask for
  Proposals,    \* what the model may propose
  Patches,      \* edits
  Engines,      \* "llm" with a model configured, else "rules"
  Scratch,      \* names agents without a template may get
  CustomName,   \* f"custom_{name}"
  DefaultName,  \* "custom_agent"
  NameParam,    \* the parameter "name" of every form
  WebSearch,    \* the tool web_search
  MaxAttempts,  \* MAX_ATTEMPTS
  MaxDepth,     \* bound: Python's recursion limit, in calls of create_agent
  MaxRequests,  \* bound: requests of operators, with each engine
  NoName, NoSpec, Keep

Text == [tools : SUBSET Tools, risky : BOOLEAN, review : BOOLEAN]
Risk == {"low", "medium", "high"}
ProposedGuard ==
  [inject : BOOLEAN, review : BOOLEAN, pii : BOOLEAN, allow : SUBSET PiiKinds,
   steps : 0..MaxSteps \cup {Unset}]

\* CreateAgentRequest.  typed: the name is a string; approved is all of Tools with
\* approve_side_effecting; tick is the answer requires_human_review.
Request ==
  [tenant : Tenants, template : Names \cup {NoTemplate}, name : Names \cup {NoName},
   typed : BOOLEAN, given : SUBSET Params, bad : SUBSET Params, text : Text,
   picks : SUBSET Tools, tick : BOOLEAN, approved : SUBSET Tools, auto : BOOLEAN]

Proposal ==
  [name : Scratch, tools : SUBSET Tools, deps : Seq(Dependency), guard : ProposedGuard,
   risk : Risk \cup {Keep}, human : BOOLEAN]

ASSUME AssemblyAssumption ==
  /\ NoTemplate \notin Names /\ NoName \notin Names /\ NameParam \in Params
  /\ NoSpec \notin AgentSpec
  /\ Catalog \in [Names -> Template \cup {NoTemplate}]
  /\ \A n \in Names : Catalog[n] # NoTemplate => Catalog[n].name = n
  /\ Scratch \subseteq Names /\ DefaultName \in Scratch
  /\ CustomName \in [Scratch -> Names]
  /\ Requests \subseteq Request
  /\ \A r \in Requests :
       r.template = NoTemplate \/ Catalog[r.template] = NoTemplate => r.name \in Scratch \cup {NoName}
  /\ Proposals \subseteq Proposal
  /\ \A p \in Patches :
       /\ p.tools = Keep \/ p.tools \subseteq Tools
       /\ p.approved \subseteq Tools
       /\ p.human \in BOOLEAN \cup {Keep}
       /\ \E g \in Guardrails : /\ DOMAIN p.guard \subseteq DOMAIN g
                               /\ \A f \in DOMAIN p.guard : p.guard[f] = g[f]
  /\ Engines \subseteq {"llm", "rules"}
  /\ MaxAttempts \in Nat \ {0} /\ MaxDepth \in Nat \ {0} /\ MaxRequests \in [Engines -> Nat]

VARIABLES
  engine,
  specs, enabled,  \* the specs table: rows, and those with enabled = 1
  templates,       \* the templates table
  frames,          \* the calls of create_agent under way, innermost first
  excused,         \* history: prerequisites given up during this creation
  lost,            \* history: what others took away, or changed, during it
  marks,           \* history: how each stored spec came about
  requests         \* how many requests were made

store == <<specs, enabled, templates, marks>>
vars == <<engine, store, frames, excused, lost, requests>>

\* approved: tools an operator approved for it, when it was created or its tools
\* edited; inherited: tools approved for the agents it is a copy of, when it was
\* copied; loose: guardrails edited without the validator since; edited: changed
\* since it was created; copied: a duplicate of an agent without a template.
Mark == [approved : SUBSET Tools, inherited : SUBSET Tools,
         loose : BOOLEAN, edited : BOOLEAN, copied : BOOLEAN]
Unmarked == [approved |-> {}, inherited |-> {},
             loose |-> FALSE, edited |-> FALSE, copied |-> FALSE]

Frame ==
  [req : Request, attempts : 0..MaxAttempts, pc : {"compile", "resolve", "provision"},
   spec : AgentSpec \cup {NoSpec}, todo : Seq(Names)]

TypeOK ==
  /\ engine \in Engines
  /\ specs \in [Tenants -> [Names -> AgentSpec \cup {NoSpec}]]
  /\ enabled \in [Tenants -> SUBSET Names]
  /\ \A w \in Tenants, n \in Names : n \in enabled[w] => specs[w][n] \in AgentSpec
  /\ templates \in [Names -> Template \cup {NoTemplate}]
  /\ frames \in Seq(Frame) /\ Len(frames) <= MaxDepth
  /\ excused \subseteq Names /\ lost \subseteq Names
  /\ marks \in [Tenants -> [Names -> Mark]]
  /\ requests \in 0..MaxRequests[engine]

Init ==
  /\ engine \in Engines
  /\ specs = [w \in Tenants |-> [n \in Names |-> NoSpec]]
  /\ enabled = [w \in Tenants |-> {}]
  /\ templates = Catalog
  /\ frames = <<>>
  /\ excused = {} /\ lost = {}
  /\ marks = [w \in Tenants |-> [n \in Names |-> Unmarked]]
  /\ requests = 0

-----------------------------------------------------------------------------
(* What both engines propose, and what is made of it.                      *)

\* get_template; a template nobody stored counts as none.
TemplateOf(t) == IF t \in Names THEN templates[t] ELSE NoTemplate

InferRisk(text, tools) ==
  IF tools \cap SideEffecting # {} \/ text.risky THEN "high" ELSE "medium"

InferReview(text, risk, tools) ==
  tools \cap SideEffecting # {} \/ risk = "high" \/ text.review

\* _default_grant: without a preset the toolkit, web search only if there is no other.
DefaultGrant(tpl) ==
  IF tpl.preset THEN tpl.required_tools
  ELSE IF tpl.grantable \subseteq {WebSearch} THEN tpl.grantable
  ELSE tpl.grantable \ {WebSearch}

\* _propose_fallback: the default grant and what the text names or hints at.
FromRules(req, tpl) ==
  LET tools == req.text.tools
        \cup IF tpl = NoTemplate THEN {} ELSE DefaultGrant(tpl) \cap Grantable(tpl, req.tenant)
  IN [name |-> DefaultName, tools |-> tools,
      deps |-> IF tpl = NoTemplate THEN <<>> ELSE tpl.deps,
      guard |-> IF tpl # NoTemplate THEN tpl.guard
                ELSE [inject |-> TRUE, review |-> FALSE, pii |-> TRUE, allow |-> {}, steps |-> Unset],
      risk |-> InferRisk(req.text, tools), human |-> req.tick]

\* _normalize: the template is authoritative, picks are added, review only raised.
Normalize(p, req, tpl) ==
  LET tools == p.tools \cup req.picks
      risk == IF p.risk = Keep THEN InferRisk(req.text, tools) ELSE p.risk
  IN [name |-> IF req.name = NoName THEN p.name ELSE req.name,
      template |-> IF tpl = NoTemplate THEN NoTemplate ELSE tpl.name,
      tools |-> tools, deps |-> p.deps, guard |-> p.guard,
      human |-> p.human \/ req.tick \/ InferReview(req.text, risk, tools)]

-----------------------------------------------------------------------------
(* The store.                                                              *)

\* _satisfied: an enabled agent of that name, or minted from that template.
Satisfied(tenant, a) ==
  \E n \in enabled[tenant] : n = a \/ specs[tenant][n].template = a

\* save_spec: an upsert, enabled.
SaveSpec(tenant, spec, mark) ==
  /\ specs' = [specs EXCEPT ![tenant][spec.name] = spec]
  /\ enabled' = [enabled EXCEPT ![tenant] = @ \cup {spec.name}]
  /\ marks' = [marks EXCEPT ![tenant][spec.name] = mark]

\* _crystallize, unless there is such a template already.
Crystallize(spec) ==
  IF spec.template = NoTemplate /\ templates[CustomName[spec.name]] = NoTemplate
  THEN templates' = [templates EXCEPT ![CustomName[spec.name]] =
         [name |-> CustomName[spec.name], params |-> {NameParam}, required |-> {NameParam},
          defaults |-> {}, deps |-> spec.deps, guard |-> spec.guard,
          grantable |-> spec.tools, preset |-> TRUE, required_tools |-> spec.tools]]
  ELSE UNCHANGED templates

-----------------------------------------------------------------------------
(* create_agent.                                                           *)

Top == Head(frames)
Continue(frame) == frames' = <<frame>> \o Tail(frames)

Opened(req) == [req |-> req, attempts |-> 0, pc |-> "compile", spec |-> NoSpec, todo |-> <<>>]

Answers(req) == req.given \cup IF req.name = NoName THEN {} ELSE {NameParam}

\* The call returns something else than ok: whoever needed it does without.
GiveUp ==
  /\ frames' = Tail(frames)
  /\ excused' = excused \cup ({Top.req.template} \ {NoTemplate})
  /\ UNCHANGED <<engine, store, lost, requests>>

Submit(req) ==
  /\ frames = <<>> /\ requests < MaxRequests[engine]
  /\ frames' = IF InputsValid(TemplateOf(req.template), Answers(req), req.bad)
               THEN <<Opened(req)>> ELSE <<>>
  /\ excused' = {} /\ lost' = {}
  /\ requests' = requests + 1
  /\ UNCHANGED <<engine, store>>

Compiling == frames # <<>> /\ Top.pc = "compile"

\* A candidate the validator accepts.
Accept(p) ==
  LET tpl == TemplateOf(Top.req.template)
  IN /\ Top.req.typed
     /\ Continue([Top EXCEPT !.pc = "resolve",
          !.spec = Validate(Normalize(p, Top.req, tpl), tpl, Top.req.tenant, Top.req.approved)])
     /\ UNCHANGED <<engine, store, excused, lost, requests>>

\* The model proposes.
AcceptModel == Compiling /\ engine = "llm" /\ \E p \in Proposals : Accept(p)

\* It fails, or what it proposes does not parse: again, with a hint.
ModelFails ==
  /\ Compiling /\ engine = "llm"
  /\ Top.attempts + 1 < MaxAttempts
  /\ Continue([Top EXCEPT !.attempts = @ + 1])
  /\ UNCHANGED <<engine, store, excused, lost, requests>>

\* The validator raises on what is not shaped like a spec, outside of the compiler's
\* try: the whole request fails, with every creation under way.
ValidatorRaises ==
  /\ Compiling /\ engine = "llm"
  /\ frames' = <<>>
  /\ UNCHANGED <<engine, store, excused, lost, requests>>

\* The last attempt fails: no agent, and no proposal of the rules engine instead.
OutOfAttempts ==
  /\ Compiling /\ engine = "llm"
  /\ Top.attempts + 1 >= MaxAttempts
  /\ GiveUp

\* Without a model the proposal is deterministic, and not asked for again.
AcceptRules ==
  Compiling /\ engine = "rules" /\ Accept(FromRules(Top.req, TemplateOf(Top.req.template)))

RulesFail == Compiling /\ engine = "rules" /\ ~Top.req.typed /\ GiveUp

\* A bug: only the agent's own dependencies are looked at.
DepsOfNone == [a \in Names |-> <<>>]

\* _template_deps, of every template.
DepsOf == [a \in Names |-> IF templates[a] = NoTemplate THEN <<>> ELSE templates[a].deps]

Unsatisfied(tenant) == {a \in Names : ~Satisfied(tenant, a)}

MissingHard(spec, tenant) == HardDeps(spec.deps) \cap Unsatisfied(tenant)

\* A bug: the wrong end of creation_order is cut off.
PrerequisitesShort(spec, tenant) ==
  LET chain == Chain(spec.deps, DepsOf, Unsatisfied(tenant))
  IN [chain EXCEPT !.order = IF @ = <<>> THEN @ ELSE Tail(@)]

\* creation_order without the requested agent, which comes last.
Prerequisites(spec, tenant) == Chain(spec.deps, DepsOf, Unsatisfied(tenant))

\* A cycle, or prerequisites missing and nobody asked to provide them: not built.
Refuse ==
  /\ frames # <<>> /\ Top.pc = "resolve"
  /\ LET chain == Prerequisites(Top.spec, Top.req.tenant)
     IN chain.cycle \/ (MissingHard(Top.spec, Top.req.tenant) # {} /\ ~Top.req.auto)
  /\ GiveUp

Resolve ==
  /\ frames # <<>> /\ Top.pc = "resolve"
  /\ LET chain == Prerequisites(Top.spec, Top.req.tenant)
     IN /\ ~chain.cycle
        /\ MissingHard(Top.spec, Top.req.tenant) # {} => Top.req.auto
        /\ Continue([Top EXCEPT !.pc = "provision", !.todo = chain.order])
  /\ UNCHANGED <<engine, store, excused, lost, requests>>

\* A bug: the operator's approvals are handed on.
SubRequestApproved(t) ==
  [tenant |-> Top.req.tenant, template |-> t, name |-> t, typed |-> TRUE,
   given |-> templates[t].defaults, bad |-> {},
   text |-> [tools |-> {}, risky |-> FALSE, review |-> FALSE], picks |-> {},
   tick |-> FALSE, approved |-> Top.req.approved, auto |-> TRUE]

\* The request _auto_provision makes for a template: defaults, and no approval.
SubRequest(t) ==
  [tenant |-> Top.req.tenant, template |-> t, name |-> t, typed |-> TRUE,
   given |-> templates[t].defaults, bad |-> {},
   text |-> [tools |-> {}, risky |-> FALSE, review |-> FALSE], picks |-> {},
   tick |-> FALSE, approved |-> {}, auto |-> TRUE]

Provisioning == frames # <<>> /\ Top.pc = "provision" /\ Top.todo # <<>>
Rest == [Top EXCEPT !.todo = Tail(@)]
Creatable(t) ==
  /\ ~Satisfied(Top.req.tenant, t) /\ TemplateOf(t) # NoTemplate
  /\ InputsValid(templates[t], Answers(SubRequest(t)), {})

\* Satisfied meanwhile, no template, or a form its defaults do not fill.
Skip ==
  /\ Provisioning
  /\ LET t == Head(Top.todo)
     IN /\ ~Creatable(t)
        /\ excused' = excused \cup ({t} \cap Unsatisfied(Top.req.tenant))
  /\ Continue(Rest)
  /\ UNCHANGED <<engine, store, lost, requests>>

Descend ==
  /\ Provisioning
  /\ LET t == Head(Top.todo)
     IN /\ Creatable(t) /\ Len(frames) < MaxDepth
        /\ frames' = <<Opened(SubRequest(t)), Rest>> \o Tail(frames)
  /\ UNCHANGED <<engine, store, excused, lost, requests>>

\* RecursionError: the request fails, or, raised within the compiler's try, the
\* innermost creation only.
TooDeep ==
  /\ Provisioning
  /\ LET t == Head(Top.todo)
     IN /\ Creatable(t) /\ Len(frames) = MaxDepth
        /\ \/ frames' = <<>> /\ UNCHANGED excused
           \/ Continue(Rest) /\ excused' = excused \cup {t}
  /\ UNCHANGED <<engine, store, lost, requests>>

\* Nothing left to provide: save, and crystallize what has no template.
Saving == frames # <<>> /\ Top.pc = "provision" /\ Top.todo = <<>>

Save ==
  /\ Saving
  /\ SaveSpec(Top.req.tenant, Top.spec,
       [Unmarked EXCEPT !.approved = IF Len(frames) = 1 THEN Top.req.approved ELSE {}])
  /\ Crystallize(Top.spec)
  /\ frames' = Tail(frames)
  /\ UNCHANGED <<engine, excused, lost, requests>>

Create ==
  \/ AcceptModel \/ ModelFails \/ ValidatorRaises \/ OutOfAttempts \/ AcceptRules \/ RulesFail
  \/ Refuse \/ Resolve \/ Skip \/ Descend \/ TooDeep \/ Save

-----------------------------------------------------------------------------
(* Other requests, at any time.                                            *)

\* A request that may take away agent n and what it was minted from.
Other(tenant, n) ==
  /\ requests < MaxRequests[engine]
  /\ requests' = requests + 1
  /\ lost' = lost \cup IF frames = <<>> \/ specs[tenant][n] = NoSpec THEN {}
                       ELSE {n, specs[tenant][n].template} \ {NoTemplate}
  /\ UNCHANGED <<engine, frames, excused>>

\* What the fields of an edit make of a spec, unvalidated.
Patched(spec, patch) ==
  [spec EXCEPT !.human = IF patch.human = Keep THEN @ ELSE patch.human,
               !.guard = [f \in DOMAIN @ |-> IF f \in DOMAIN patch.guard THEN patch.guard[f] ELSE @[f]]]

\* update_agent: new tools pass the validator, and only they.
Retooled(spec, patch, tenant) ==
  IF patch.tools = Keep THEN spec
  ELSE LET v == Validate([spec EXCEPT !.tools = patch.tools], TemplateOf(spec.template),
                         tenant, patch.approved)
       IN [spec EXCEPT !.tools = v.tools, !.guard = v.guard, !.acl = v.acl]

Update(tenant, n, patch) ==
  /\ n \in enabled[tenant]
  /\ Other(tenant, n)
  /\ SaveSpec(tenant, Retooled(Patched(specs[tenant][n], patch), patch, tenant),
       [marks[tenant][n] EXCEPT
          !.edited = TRUE,
          !.approved = IF patch.tools = Keep THEN @ ELSE patch.approved,
          !.inherited = IF patch.tools = Keep THEN @ ELSE {},
          !.loose = patch.tools = Keep /\ (@ \/ DOMAIN patch.guard # {})])
  /\ UNCHANGED templates

\* duplicate_agent: saved under the new name, everything else as it was; nobody
\* validates or approves the copy.
Duplicate(tenant, n, new) ==
  /\ n \in enabled[tenant]
  /\ Other(tenant, new)
  /\ SaveSpec(tenant, [specs[tenant][n] EXCEPT !.name = new],
       [marks[tenant][n] EXCEPT
          !.approved = {},
          !.inherited = @ \cup marks[tenant][n].approved,
          !.copied = @ \/ specs[tenant][n].template = NoTemplate])
  /\ UNCHANGED templates

Delete(tenant, n) ==
  /\ specs[tenant][n] # NoSpec
  /\ Other(tenant, n)
  /\ specs' = [specs EXCEPT ![tenant][n] = NoSpec]
  /\ enabled' = [enabled EXCEPT ![tenant] = @ \ {n}]
  /\ marks' = [marks EXCEPT ![tenant][n] = Unmarked]
  /\ UNCHANGED templates

\* undeploy_agent and deploy_agent, as far as the specs table goes.
SetEnabled(tenant, n) ==
  /\ specs[tenant][n] # NoSpec
  /\ Other(tenant, n)
  /\ enabled' = [enabled EXCEPT ![tenant] = IF n \in @ THEN @ \ {n} ELSE @ \cup {n}]
  /\ UNCHANGED <<specs, templates, marks>>

Next ==
  \/ \E req \in Requests : Submit(req)
  \/ Create
  \/ \E tenant \in Tenants, n \in Names :
       \/ \E patch \in Patches : Update(tenant, n, patch)
       \/ \E new \in Scratch : Duplicate(tenant, n, new)
       \/ Delete(tenant, n)
       \/ SetEnabled(tenant, n)

Spec == Init /\ [][Next]_vars

-----------------------------------------------------------------------------
(* What the assembly line owes.                                            *)

\* Least privilege, whatever the model proposes and in whichever order agents are
\* created, provisioned, crystallized, edited and copied: a stored agent holds tools
\* its tenant sees and its template allows, and a side-effecting one only where an
\* operator approved that very tool for it, or, if it is a copy, for an agent it was
\* copied from: a copy takes the approvals of its original along, and nothing else does.
LeastPrivilege ==
  \A w \in Tenants, n \in Names : specs[w][n] # NoSpec =>
    LET s == specs[w][n]
    IN /\ s.tools \subseteq Visible(w) \cap Grantable(TemplateOf(s.template), w)
       /\ s.tools \cap SideEffecting \subseteq marks[w][n].approved \cup marks[w][n].inherited

\* The floors of the validator and of the compiler hold for every stored agent whose
\* guardrails were not edited past the validator since its tools were last checked;
\* one that may act is reviewed unless an operator has edited it.
FloorsHold ==
  \A w \in Tenants, n \in Names : specs[w][n] # NoSpec =>
    LET s == specs[w][n]
        tpl == TemplateOf(s.template)
    IN /\ ~marks[w][n].loose =>
            /\ s.tools \cap Untrusted # {} => s.guard.inject
            /\ s.guard.allow \subseteq Contact
            /\ tpl # NoTemplate => /\ tpl.guard.review => s.guard.review
                                   /\ tpl.guard.pii => s.guard.pii
                                   /\ s.guard.steps <= tpl.guard.steps
       /\ ~marks[w][n].edited /\ s.tools \cap SideEffecting # {} => s.human

\* The lanes an agent uses on the blackboard are those it is allowed to use, unless it
\* is a copy of an agent without a template.
ScopeMatchesAcl ==
  \A w \in Tenants, n \in Names :
    specs[w][n] # NoSpec /\ ~marks[w][n].copied => specs[w][n].home = specs[w][n].acl

\* Whenever the resolver is asked, its chain is what the reference definition says:
\* every missing prerequisite once, bottom-up, or a cycle where there is one.
ChainIsBottomUp ==
  frames # <<>> /\ Top.pc = "resolve" =>
    IsBottomUp(Top.spec.deps, DepsOf, Unsatisfied(Top.req.tenant))

\* Without a model, and if nothing is taken away meanwhile, no creation descends into
\* a template it is already creating: cycles are met by the resolver, not by the stack.
NoRunaway ==
  engine = "rules" /\ lost = {} =>
    \A i, j \in DOMAIN frames : i # j => frames[i].req.template # frames[j].req.template

\* An agent is saved once every hard prerequisite is there, except those that were
\* given up, or taken away by somebody else, while it was being created.
PrerequisitesBuilt ==
  [][Saving /\ Len(frames') < Len(frames) =>
       \A a \in HardDeps(Top.spec.deps) : Satisfied(Top.req.tenant, a) \/ a \in excused \cup lost]_vars

=============================================================================
