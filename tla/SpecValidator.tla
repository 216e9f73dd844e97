---------------------------- MODULE SpecValidator ----------------------------
(***************************************************************************)
(* The compiler proposes, the validator disposes: what a proposed agent    *)
(* may keep.  Pure operators for validate_spec and validate_inputs         *)
(* (backend/fingent/validators.py), with the lookups of the tool registry  *)
(* they rest on (backend/fingent/registry.py).                             *)
(*                                                                         *)
(* A tool list is a set: its order never decides what is kept.  Of the     *)
(* three caps of a guardrail policy, treated alike, max_steps is kept.     *)
(* Messages, warnings and the log of what was stripped are left out.       *)
(***************************************************************************)
EXTENDS Integers, Sequences

CONSTANTS
  Tenants, Global,  \* tenant_id of a descriptor; Global stands for None
  Tools,            \* names a proposal may contain, registered or not
  Registry,         \* the descriptors, by tool name
  Names,            \* names of agents and of templates
  Params,           \* parameters of a template's form
  PiiKinds, Contact, \* kinds of identifiers; those of _ALLOWABLE_PII
  MaxSteps,         \* bound: the largest max_steps
  DefaultSteps,     \* max_steps of GuardrailPolicy()
  NoTemplate        \* "template is None"

Descriptor == [owner : Tenants \cup {Global}, sideEffecting : BOOLEAN, untrusted : BOOLEAN]

ASSUME ValidatorAssumption ==
  /\ Global \notin Tenants
  /\ DOMAIN Registry \subseteq Tools
  /\ \A t \in DOMAIN Registry : Registry[t] \in Descriptor
  /\ Contact \subseteq PiiKinds
  /\ MaxSteps \in Nat /\ DefaultSteps \in 0..MaxSteps

\* A cap the proposal does not mention.
Unset == -1

Guardrails ==
  [inject : BOOLEAN, review : BOOLEAN, pii : BOOLEAN, allow : SUBSET PiiKinds,
   steps : 0..MaxSteps]

Dependency == [agent : Names, hard : BOOLEAN]

\* preset: fixed has required_tools.
Template ==
  [name : Names, params : SUBSET Params, required : SUBSET Params,
   defaults : SUBSET Params, deps : Seq(Dependency), guard : Guardrails,
   grantable : SUBSET Tools, preset : BOOLEAN, required_tools : SUBSET Tools]

\* home: the namespace of reads and writes; acl: that of security.memory_read and
\* memory_write.  Both also hold the outputs of the dependencies.
\* security.allowed_tools is tools.
AgentSpec ==
  [name : Names, template : Names \cup {NoTemplate}, tools : SUBSET Tools,
   deps : Seq(Dependency), guard : Guardrails, human : BOOLEAN,
   home : Names, acl : Names]

Registered == DOMAIN Registry
SideEffecting == {t \in Registered : Registry[t].sideEffecting}
Untrusted == {t \in Registered : Registry[t].untrusted}

\* visible_to, grantable_for_tenant, is_grantable.
Visible(tenant) == {t \in Registered : Registry[t].owner \in {Global, tenant}}

\* tenant_external: only MCP tools have an owner.
External(tenant) == {t \in Registered : Registry[t].owner = tenant}

\* effective_grantable with a template, else all the tenant sees.
Grantable(tpl, tenant) ==
  IF tpl = NoTemplate THEN Visible(tenant) ELSE tpl.grantable \cup External(tenant)

\* The loop over the requested tools.
Kept(tools, tpl, tenant, approved) ==
  {t \in tools \cap Visible(tenant) \cap Grantable(tpl, tenant) :
     t \in SideEffecting => t \in approved}

\* A bug: the template's cap only stands in for one not given.
CappedIfUnset(steps, tpl) ==
  IF steps # Unset THEN steps
  ELSE IF tpl = NoTemplate THEN DefaultSteps ELSE tpl.guard.steps

\* A bug: a cap not given is forgotten.
CappedIfGiven(steps, tpl) ==
  IF tpl # NoTemplate /\ steps > tpl.guard.steps THEN tpl.guard.steps ELSE steps

\* A cap not given or above the template's is the template's.
Capped(steps, tpl) ==
  IF tpl = NoTemplate THEN IF steps = Unset THEN DefaultSteps ELSE steps
  ELSE IF steps = Unset \/ steps > tpl.guard.steps THEN tpl.guard.steps ELSE steps

\* Guardrails get stricter: the injection scan with untrusted tools, the floors of
\* the template, and contact identifiers at most.
Floored(g, tpl, kept) ==
  [inject |-> g.inject \/ kept \cap Untrusted # {},
   review |-> g.review \/ (tpl # NoTemplate /\ tpl.guard.review),
   pii    |-> g.pii \/ (tpl # NoTemplate /\ tpl.guard.pii),
   allow  |-> Contact \cap (g.allow \cup IF tpl = NoTemplate THEN {} ELSE tpl.guard.allow),
   steps  |-> Capped(g.steps, tpl)]

\* A bug: the namespace of the agent instead of its template's.
BaseOfName(c, tpl) == c.name

\* Whatever reads and writes were proposed, the memory scope becomes the canonical one.
Base(c, tpl) == IF tpl = NoTemplate THEN c.name ELSE tpl.name

\* What validate_spec returns for a candidate AgentSpec accepts.
Validate(c, tpl, tenant, approved) ==
  LET kept == Kept(c.tools, tpl, tenant, approved)
  IN [name |-> c.name, template |-> c.template, tools |-> kept, deps |-> c.deps,
      guard |-> Floored(c.guard, tpl, kept), human |-> c.human,
      home |-> Base(c, tpl), acl |-> Base(c, tpl)]

\* validate_inputs finds no error: required fields are given, given ones are good.
InputsValid(tpl, given, bad) ==
  tpl = NoTemplate
  \/ (tpl.required \subseteq given /\ tpl.params \cap given \cap bad = {})

=============================================================================
