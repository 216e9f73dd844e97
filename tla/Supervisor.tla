----------------------------- MODULE Supervisor -----------------------------
(***************************************************************************)
(* A supervised run of a team of agents: Planner.run_supervised, with      *)
(* plan_graph and _maybe_replan (backend/fingent/planner.py) and the       *)
(* blackboard (backend/fingent/blackboard.py).                             *)
(*                                                                         *)
(* The model is external: it proposes any steps, fails, or answers with    *)
(* something else than a list.  Steps the validator drops (unknown or      *)
(* repeated agents) leave no trace here.  An agent's run is its status and *)
(* its output.  Subtasks, reasons, the edges shown with a plan, digests    *)
(* and what an agent reads of the inputs are left out.                     *)
(***************************************************************************)
EXTENDS Naturals, Sequences, FiniteSets, Functions

CONSTANTS
  Names,       \* agent and template names
  Keys,        \* blackboard keys
  Outputs,     \* what agents produce
  Teams,       \* the selections of agents to choose from
  Modes,       \* "llm" with a model configured, else "dependency"
  Stricts,     \* values of the flag strict
  MaxReplans,  \* _MAX_REPLANS
  NoAgent

\* What of an AgentSpec matters to the planner.  template is the name where the
\* spec has none; key is writes[0]; granted: memory_write covers it, as the validator
\* sees to, though not for a copy of an agent without a template that was edited since.
Member == [name : Names, template : Names, deps : Seq(Names), synth : BOOLEAN,
           key : Keys, granted : BOOLEAN]

\* Specs are stored by name, and platform.run_supervised refuses an empty team.
ASSUME TeamAssumption ==
  /\ IsFiniteSet(Names)
  /\ \A t \in Teams :
       /\ t \in Seq(Member) /\ t # <<>>
       /\ \A i, j \in DOMAIN t : t[i].name = t[j].name => i = j
  /\ Modes \subseteq {"llm", "dependency"}
  /\ Stricts \subseteq BOOLEAN
  /\ MaxReplans \in Nat
  /\ NoAgent \notin Names

Status == {"success", "failed", "blocked", "needs_review"}

VARIABLES
  team, strict,  \* the arguments specs and strict
  mode,       \* graph.mode
  pc,
  stack,      \* plan(): the calls of visit under way, [name, todo]
  draft,      \* the steps read of a proposal: new_non_synth, new_synth
  queue,      \* graph.steps not yet executed
  ran,        \* agents: what was executed, in order
  pause, error,  \* the agent hitl_pause, the agent error is about
  replans,
  board,      \* the versions of each blackboard key
  final       \* final_agent

params == <<team, strict>>
plan == <<mode, stack, draft, queue, replans>>
results == <<ran, pause, error, board, final>>
vars == <<params, pc, plan, results>>

Members == Range(team)
Crew == {m.name : m \in Members}
Get(a) == CHOOSE m \in Members : m.name = a
Executed == {ran[i].agent : i \in DOMAIN ran}

Empty == [main |-> <<>>, synth |-> <<>>]
Drafted == Range(draft.main) \cup Range(draft.synth)
Steps == draft.main \o draft.synth

Run == [agent : Names, status : Status, out : Outputs, by : {"plan", "finalizer"}]
Frame == [name : Names \cup {NoAgent}, todo : Seq(Names)]

\* The last conjunct bounds the recursion of visit.
TypeOK ==
  /\ team \in Teams /\ strict \in Stricts
  /\ mode \in {"llm", "dependency"}
  /\ pc \in {"plan", "fill", "order", "dispatch", "revise", "finalize", "done", "raised"}
  /\ stack \in Seq(Frame)
  /\ draft \in [main : Seq(Names), synth : Seq(Names)]
  /\ queue \in Seq(Names)
  /\ ran \in Seq(Run)
  /\ pause \in Names \cup {NoAgent} /\ error \in Names \cup {NoAgent}
  /\ replans \in 0..MaxReplans
  /\ board \in [Keys -> Seq(Outputs)]
  /\ final \in Names \cup {NoAgent}
  /\ Len(stack) <= Cardinality(Names) + 1

\* "for s in specs: visit(s.name)", as the frame of a call of its own.
RootFrame(t) == [name |-> NoAgent, todo |-> [i \in DOMAIN t |-> t[i].name]]

\* plan_graph: a model is asked if there is one, for more than one agent.
AsksModel == "llm" \in Modes /\ Len(team) > 1

Init ==
  /\ team \in Teams /\ strict \in Stricts
  /\ \/ mode = "llm" /\ AsksModel /\ pc = "plan" /\ stack = <<>>
     \/ mode = "dependency" /\ ("dependency" \in Modes \/ Len(team) = 1)
        /\ pc = "order" /\ stack = <<RootFrame(team)>>
  /\ draft = Empty
  /\ queue = <<>> /\ ran = <<>>
  /\ pause = NoAgent /\ error = NoAgent
  /\ replans = 0
  /\ board = [k \in Keys |-> <<>>]
  /\ final = NoAgent

-----------------------------------------------------------------------------
(* plan(): a depth-first toposort of the declared dependencies.            *)

Called(n) == {i \in DOMAIN team : team[i].name = n \/ team[i].template = n}

\* by_name: of several specs with that name or template, the last.
ByName(n) == team[CHOOSE i \in Called(n) : \A j \in Called(n) : j <= i]

Top == stack[Len(stack)]
Below == SubSeq(stack, 1, Len(stack) - 1)
OnStack == {stack[i].name : i \in DOMAIN stack}

Fresh(n) == Called(n) # {} /\ n \notin Range(queue) /\ n \notin OnStack

\* A bug: the dependencies of a dependency are not visited.
FrameOfShallow(n) == [name |-> n, todo |-> IF Len(stack) = 1 THEN ByName(n).deps ELSE <<>>]

FrameOf(n) == [name |-> n, todo |-> ByName(n).deps]

Visit ==
  /\ pc = "order"
  /\ Top.todo # <<>>
  /\ LET n == Head(Top.todo)
         rest == Append(Below, [Top EXCEPT !.todo = Tail(@)])
     IN  stack' = IF Fresh(n) THEN Append(rest, FrameOf(n)) ELSE rest
  /\ UNCHANGED <<params, pc, mode, draft, queue, replans, results>>

Leave ==
  /\ pc = "order"
  /\ Top.todo = <<>> /\ Top.name # NoAgent
  /\ stack' = Below
  /\ LET a == ByName(Top.name).name
     IN  queue' = IF a \in Range(queue) THEN queue ELSE Append(queue, a)
  /\ UNCHANGED <<params, pc, mode, draft, replans, results>>

Ordered ==
  /\ pc = "order"
  /\ Top.todo = <<>> /\ Top.name = NoAgent
  /\ pc' = "dispatch"
  /\ stack' = <<>>
  /\ UNCHANGED <<params, mode, draft, queue, replans, results>>

-----------------------------------------------------------------------------
(* _llm_plan, _validate_plan and _maybe_replan: a proposal, step by step.  *)

\* A bug: an agent that was executed may be proposed again.
ProposableAgain == Crew \ Drafted

\* Agents whose step is kept.
Proposable == Crew \ (Drafted \cup Executed)

\* A bug: steps stay where the model put them.
PlacedAsGiven(a) == [draft EXCEPT !.main = Append(@, a)]

\* Synthesis agents come after all others.
Placed(a) ==
  IF Get(a).synth THEN [draft EXCEPT !.synth = Append(@, a)]
                  ELSE [draft EXCEPT !.main = Append(@, a)]

Propose ==
  /\ pc \in {"plan", "revise"}
  /\ \E a \in Proposable : draft' = Placed(a)
  /\ UNCHANGED <<params, pc, mode, stack, queue, replans, results>>

\* The planning call failed, or nothing of the plan is left.
FallBack ==
  /\ \/ pc = "plan"
     \/ pc = "fill" /\ Steps = <<>> /\ ~strict
  /\ mode' = "dependency"
  /\ draft' = Empty
  /\ stack' = <<RootFrame(team)>>
  /\ pc' = "order"
  /\ UNCHANGED <<params, queue, replans, results>>

EndOfPlan ==
  /\ pc = "plan"
  /\ pc' = "fill"
  /\ UNCHANGED <<params, plan, results>>

Omitted == {i \in DOMAIN team : team[i].name \notin Drafted}

\* strict: the agents the model left out, in the order of the team.
AddOmitted ==
  /\ pc = "fill" /\ strict
  /\ \E i \in Omitted :
       /\ \A j \in Omitted : i <= j
       /\ draft' = Placed(team[i].name)
  /\ UNCHANGED <<params, pc, mode, stack, queue, replans, results>>

Adopt ==
  /\ pc = "fill"
  /\ Steps # <<>>
  /\ strict => Omitted = {}
  /\ queue' = Steps
  /\ draft' = Empty
  /\ pc' = "dispatch"
  /\ UNCHANGED <<params, mode, stack, replans, results>>

\* {"keep": true}, a failed call, nothing left of the revision, or no change.
Keep ==
  /\ pc = "revise"
  /\ Steps \in {<<>>, queue}
  /\ draft' = Empty
  /\ pc' = "dispatch"
  /\ UNCHANGED <<params, mode, stack, queue, replans, results>>

Revise ==
  /\ pc = "revise"
  /\ Steps \notin {<<>>, queue}
  /\ queue' = Steps
  /\ replans' = replans + 1
  /\ draft' = Empty
  /\ pc' = "dispatch"
  /\ UNCHANGED <<params, mode, stack, results>>

\* The answer is no object, revised_remaining nothing to iterate over, or an
\* agent no name but a list: all are used outside the try of _maybe_replan, and
\* the run is lost.
ReviseRaises ==
  /\ pc = "revise"
  /\ draft' = Empty
  /\ pc' = "raised"
  /\ UNCHANGED <<params, mode, stack, queue, replans, results>>

-----------------------------------------------------------------------------
(* run_supervised: dispatch and finalizer.                                 *)

\* A bug: a payload is dropped that some other key holds.
UnseenAnywhere(k, v) == \A l \in Keys : v \notin Range(board[l])

\* The digests seen at a key are those of its versions.
Unseen(k, v) == v \notin Range(board[k])

\* A write that is not granted raises MemoryAccessDenied, and the run goes on.
Write(m, v) ==
  board' = IF m.granted /\ Unseen(m.key, v) THEN [board EXCEPT ![m.key] = Append(@, v)] ELSE board

Halts(s) ==
  /\ ~strict
  /\ \/ s = "needs_review" /\ pause = NoAgent
     \/ s = "blocked" /\ error = NoAgent

MayRevise == ~strict /\ mode = "llm" /\ replans < MaxReplans /\ Len(queue) > 1

\* An agent whose run raises counts as failed.
Dispatch ==
  /\ pc = "dispatch"
  /\ queue # <<>>
  /\ \E s \in Status, v \in Outputs :
       LET a == Head(queue)
       IN  /\ ran' = Append(ran, [agent |-> a, status |-> s, out |-> v, by |-> "plan"])
           /\ Write(Get(a), v)
           /\ final' = IF Get(a).synth THEN a ELSE final
           /\ pause' = IF s = "needs_review" /\ pause = NoAgent THEN a ELSE pause
           /\ error' = IF s = "blocked" /\ error = NoAgent THEN a ELSE error
           /\ pc' = IF Halts(s) THEN "finalize" ELSE IF MayRevise THEN "revise" ELSE "dispatch"
  /\ queue' = Tail(queue)
  /\ UNCHANGED <<params, mode, stack, draft, replans>>

PlanIsOver == pc = "finalize" \/ (pc = "dispatch" /\ queue = <<>>)

\* Synthesis agents that might still give the run an answer.
Idle == {i \in DOMAIN team : team[i].synth /\ team[i].name \notin Executed}

\* The finalizer neither writes to the board nor reports a review or a block.
Synthesize ==
  /\ PlanIsOver
  /\ final = NoAgent
  /\ \E i \in Idle, s \in Status, v \in Outputs :
       LET a == team[i].name
       IN  /\ \A j \in Idle : i <= j
           /\ ran' = Append(ran, [agent |-> a, status |-> s, out |-> v, by |-> "finalizer"])
           /\ final' = a
  /\ pc' = "done"
  /\ UNCHANGED <<params, plan, pause, error, board>>

\* A synthesis ran, there is none to run, or it raises: then the last agent.
Conclude ==
  /\ PlanIsOver
  /\ final' = IF final = NoAgent /\ ran # <<>> THEN ran[Len(ran)].agent ELSE final
  /\ pc' = "done"
  /\ UNCHANGED <<params, plan, ran, pause, error, board>>

Next ==
  \/ Visit \/ Leave \/ Ordered
  \/ Propose \/ FallBack \/ EndOfPlan \/ AddOmitted \/ Adopt
  \/ Keep \/ Revise \/ ReviseRaises
  \/ Dispatch \/ Synthesize \/ Conclude

Spec == Init /\ [][Next]_vars

-----------------------------------------------------------------------------
(* Properties.                                                             *)

\* No agent runs twice: not by the plan, by a revision of its tail, or by the
\* finalizer (planner.py:222, 299, 422).  A second run would repeat side effects.
RunsOnce == \A i, j \in DOMAIN ran : ran[i].agent = ran[j].agent => i = j

\* A stratification of the dependencies: there is one iff they have no cycle.
Acyclic ==
  \E rank \in [Crew -> 1..Len(team)] :
    \A m \in Members : \A d \in Range(m.deps) :
      Called(d) # {} => rank[ByName(d).name] < rank[m.name]

\* No name stands for two members of the team.
Unambiguous == \A m, o \in Members : m.name = o.template => o.name = m.name

\* In the dependency order an agent runs after everything it depends on that is
\* in the team, if there is no cycle (plan(), planner.py:118-141).
DependenciesFirst ==
  mode = "dependency" /\ Acyclic /\ Unambiguous =>
    \A i \in DOMAIN ran : ran[i].by = "plan" =>
      \A d \in Range(Get(ran[i].agent).deps) : Called(d) # {} =>
        \E j \in 1..(i - 1) : ran[j].agent = ByName(d).name

OneSynthesis == \A m, o \in Members : m.synth /\ o.synth => m = o

\* With a plan of the model the team's only synthesis agent runs last, whatever
\* the model proposes and revises (planner.py:253-257, 307).  With two, a revision
\* between them can put other agents after the first.
SynthesisLast ==
  mode = "llm" /\ OneSynthesis =>
    \A i \in DOMAIN ran : Get(ran[i].agent).synth => i = Len(ran)

\* Unless strict, after an agent that is blocked or awaits a review only the
\* finalizer's synthesis runs (planner.py:385-400).
HaltStops ==
  ~strict =>
    \A i, j \in DOMAIN ran :
      i < j /\ ran[i].status \in {"blocked", "needs_review"} => ran[j].by = "finalizer"

\* planner.py:149-150: "strict=True forces every supplied agent to appear in the
\* plan (the planner may reorder / decompose but not drop a required agent)".  Not
\* so in the dependency order if an agent has the name of another one's template,
\* as the original of a copy made by duplicate_agent has: plan() drops it.
StrictRunsAll == pc = "done" /\ strict => Executed = Crew

\* strict runs every agent with any plan of the model, and in the dependency order
\* if no name stands for two of them (planner.py:241-248).
StrictRunsUnshadowed == mode = "llm" \/ Unambiguous => StrictRunsAll

\* What a reader finds at a key is the output of the agent that was last to write it
\* and might, although equal payloads are dropped (blackboard.py:52-62).  Three agents
\* sharing a key may write x, y, x and leave y on the board.
BoardIsCurrent ==
  \A i \in DOMAIN ran :
    LET k == Get(ran[i].agent).key
        Writer(j) == ran[j].by = "plan" /\ Get(ran[j].agent).key = k /\ Get(ran[j].agent).granted
    IN  Writer(i) /\ (\A j \in DOMAIN ran : j > i => ~Writer(j))
          /\ Cardinality({m \in Members : m.key = k /\ m.granted}) <= 2
        => board[k] # <<>> /\ board[k][Len(board[k])] = ran[i].out

=============================================================================
