------------------------------ MODULE Resolver ------------------------------
(***************************************************************************)
(* The chain of prerequisites of an agent: DependencyResolver.check and    *)
(* _collect_chain (backend/fingent/dependencies.py) as a recursive         *)
(* function, and a reference definition of the chain they owe.             *)
(*                                                                         *)
(* depsOf[a] lists the dependencies of template a (nothing where there is  *)
(* no such template); unsat holds the names no enabled agent satisfies.    *)
(* That a cycle was met is kept, not its path, and of the stack its        *)
(* members.                                                                *)
(***************************************************************************)
EXTENDS SpecValidator, SequencesExt

\* Templates and agents are rows of a store.
ASSUME NamesAssumption == IsFiniteSet(Names)

HardDeps(deps) == {a \in Names : \E i \in DOMAIN deps : deps[i].agent = a /\ deps[i].hard}

\* order and visited are shared along a traversal; cycle: _CycleError is on its way.
Progress == [order : Seq(Names), visited : SUBSET Names, cycle : BOOLEAN]
Begin == [order |-> <<>>, visited |-> {}, cycle |-> FALSE]

\* A bug: an agent is put before what it depends on.
PrependOnce(order, a) == IF a \in Range(order) THEN order ELSE <<a>> \o order

AppendOnce(order, a) == IF a \in Range(order) THEN order ELSE Append(order, a)

\* A point of the recursion: the dependencies todo of a loop, within the calls for the
\* agents of stack.
Call == [todo : Seq(Dependency), stack : SUBSET Names, acc : Progress]

\* The end of _collect_chain for a.
Return(acc, a) ==
  IF acc.cycle THEN acc
  ELSE [order |-> AppendOnce(acc.order, a), visited |-> acc.visited \cup {a}, cycle |-> FALSE]

\* One round of a loop, the call of _collect_chain in it included; each dependency of
\* check, whose stack is empty, begins with a new visited.
Visit(walk, c, depsOf, unsat) ==
  LET d == Head(c.todo)
      acc == [c.acc EXCEPT !.visited = IF c.stack = {} THEN {} ELSE @]
  IN IF ~d.hard THEN acc
     ELSE IF d.agent \in c.stack THEN [acc EXCEPT !.cycle = TRUE]
     ELSE IF d.agent \in acc.visited \/ d.agent \notin unsat THEN acc
     ELSE Return(walk[[todo |-> depsOf[d.agent], stack |-> c.stack \cup {d.agent}, acc |-> acc]],
                 d.agent)

\* The rest of a loop.
Loop(walk, c, depsOf, unsat) ==
  IF c.todo = <<>> \/ c.acc.cycle THEN c.acc
  ELSE walk[[todo |-> Tail(c.todo), stack |-> c.stack, acc |-> Visit(walk, c, depsOf, unsat)]]

Walk(depsOf, unsat) ==
  LET walk[c \in Call] == Loop(walk, c, depsOf, unsat) IN walk

\* check, for an agent with the dependencies deps.
Chain(deps, depsOf, unsat) ==
  Walk(depsOf, unsat)[[todo |-> deps, stack |-> {}, acc |-> Begin]]

-----------------------------------------------------------------------------
(* The reference: what is still needed is what hard dependencies reach     *)
(* through names that nobody satisfies.                                    *)

\* The least set with the missing dependencies of deps and of its own members.
Needed(deps, depsOf, unsat) ==
  LET closed == {S \in SUBSET unsat :
                   /\ HardDeps(deps) \cap unsat \subseteq S
                   /\ \A a \in S : HardDeps(depsOf[a]) \cap unsat \subseteq S}
  IN {a \in unsat : \A S \in closed : a \in S}

HasCycle(names, depsOf) ==
  \E loop \in (SUBSET names) \ {{}} : \A a \in loop : HardDeps(depsOf[a]) \cap loop # {}

\* Every needed name once, after the names it depends on; or a cycle, exactly if
\* there is one among them.
IsBottomUp(deps, depsOf, unsat) ==
  LET needed == Needed(deps, depsOf, unsat)
      result == Chain(deps, depsOf, unsat)
      order == result.order
  IN IF HasCycle(needed, depsOf)
     THEN result.cycle
     ELSE /\ ~result.cycle
          /\ Range(order) = needed /\ Len(order) = Cardinality(needed)
          /\ \A i, j \in DOMAIN order : order[j] \in HardDeps(depsOf[order[i]]) => j < i

=============================================================================
