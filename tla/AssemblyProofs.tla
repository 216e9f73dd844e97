---------------------------- MODULE AssemblyProofs ----------------------------
(***************************************************************************)
(* Theorems about the assembly line, for any catalog, requests, proposals  *)
(* of the model, edits, tenants and tools.                                 *)
(***************************************************************************)
EXTENDS Assembly, FiniteSetTheorems, WellFoundedInduction, TLAPS

-----------------------------------------------------------------------------
(* The resolver: its recursion ends, so that it defines a function, and    *)
(* what that function returns follows by induction on the recursion.       *)

LEMMA LeastNatural ==
  ASSUME NEW S \in SUBSET Nat, S # {}
  PROVE  \E m \in S : \A k \in S : m <= k
<1> DEFINE R == {p \in Nat \X Nat : p[1] < p[2]}
<1>1. IsWellFoundedOn(R, Nat)
  BY NatLessThanWellFounded DEF OpToRel, IsWellFoundedOn
<1>2. PICK m \in S : \A k \in S : ~ (<<k, m>> \in R)
  BY <1>1, WFMin
<1>3. \A k \in S : <<k, m>> \in R <=> k < m
  OBVIOUS
<1>4. \A k \in S : ~ (k < m)
  <2> HIDE DEF R
  <2> QED
    BY <1>2, <1>3, Zenon
<1>5. \A k \in S : k \in Nat
  OBVIOUS
<1> QED
  BY <1>4, <1>5

\* Deeper in the recursion: within more calls, or further on in the same loop.
Deeper(b, c) ==
  \/ c.stack \subseteq b.stack /\ b.stack # c.stack
  \/ b.stack = c.stack /\ Len(b.todo) < Len(c.todo)

LEMMA DeeperIsStrict ==
  ASSUME NEW a \in Call, NEW b \in Call, NEW c \in Call
  PROVE  /\ ~Deeper(a, a)
         /\ Deeper(a, b) /\ Deeper(b, c) => Deeper(a, c)
<1>1. Len(a.todo) \in Nat /\ Len(b.todo) \in Nat /\ Len(c.todo) \in Nat
  BY DEF Call
<1>2. ASSUME Deeper(a, b), Deeper(b, c) PROVE Deeper(a, c)
  <2>1. CASE a.stack = b.stack /\ Len(a.todo) < Len(b.todo)
    <3>1. CASE b.stack = c.stack /\ Len(b.todo) < Len(c.todo)
      <4> DEFINE l == Len(a.todo)
                 m == Len(b.todo)
                 n == Len(c.todo)
      <4>1. l \in Nat /\ m \in Nat /\ n \in Nat /\ l < m /\ m < n
        BY <1>1, <2>1, <3>1
      <4> HIDE DEF l, m, n
      <4>2. l < n
        BY <4>1
      <4> QED
        BY <2>1, <3>1, <4>2 DEF Deeper, l, n
    <3> QED
      BY <1>2, <2>1, <3>1 DEF Deeper
  <2>2. CASE b.stack \subseteq a.stack /\ a.stack # b.stack
    <3>1. c.stack \subseteq b.stack
      BY <1>2 DEF Deeper
    <3>2. c.stack \subseteq a.stack /\ a.stack # c.stack
      BY <2>2, <3>1
    <3> QED
      BY <3>2 DEF Deeper
  <2> QED
    BY <1>2, <2>1, <2>2 DEF Deeper
<1>3. ~Deeper(a, a)
  BY <1>1 DEF Deeper
<1> QED
  BY <1>2, <1>3

\* The recursion ends: the stack only has so many names, and a list so many entries.
LEMMA DeepestCall ==
  ASSUME NEW T \in SUBSET Call, T # {}
  PROVE  \E c \in T : \A b \in T : ~Deeper(b, c)
<1> DEFINE Off(c) == Names \ c.stack
           U == {Off(c) : c \in T}
<1>1. IsWellFoundedOn(StrictSubsetOrdering(Names), SUBSET Names)
  <2>1. FiniteSubsetsOf(Names) = SUBSET Names
    BY NamesAssumption, FS_FiniteSubsetsOfFinite
  <2> QED
    BY <2>1, FS_StrictSubsetOrderingWellFounded
<1>2. U \subseteq SUBSET Names /\ U # {}
  OBVIOUS
<1>3. PICK u \in U : \A v \in U : ~ (<<v, u>> \in StrictSubsetOrdering(Names))
  <2> HIDE DEF U
  <2> QED
    BY <1>1, <1>2, WFMin
<1>4. \A v \in U : ~ (v \subseteq u /\ v # u)
  <2> HIDE DEF U
  <2> QED
    BY <1>2, <1>3 DEF StrictSubsetOrdering
<1> DEFINE L == {n \in Nat : \E c \in T : Off(c) = u /\ Len(c.todo) = n}
<1>5. \A c \in T : Len(c.todo) \in Nat /\ c.stack \in SUBSET Names
  BY DEF Call
<1>6. L \in SUBSET Nat /\ L # {}
  BY <1>5
<1>7. PICK n \in L : \A k \in L : n <= k
  <2> HIDE DEF L
  <2> QED
    BY <1>6, LeastNatural
<1>8. PICK c \in T : Off(c) = u /\ Len(c.todo) = n
  BY <1>7
<1>9. ASSUME NEW b \in T, Deeper(b, c) PROVE FALSE
  <2>1. CASE c.stack \subseteq b.stack /\ b.stack # c.stack
    <3>1. Off(b) \subseteq Off(c) /\ Off(b) # Off(c)
      BY <1>5, <2>1
    <3> QED
      BY <1>4, <1>8, <3>1
  <2>2. CASE b.stack = c.stack /\ Len(b.todo) < Len(c.todo)
    <3>1. Off(b) = u /\ Len(b.todo) \in L
      BY <1>5, <1>8, <2>2
    <3>2. n <= Len(b.todo) /\ Len(b.todo) \in Nat /\ n \in Nat
      BY <1>5, <1>6, <1>7, <3>1
    <3> QED
      BY <1>8, <2>2, <3>2
  <2> QED
    BY <1>9, <2>1, <2>2 DEF Deeper
<1> QED
  BY <1>9

\* What the resolver is given.
Given(depsOf, unsat) == depsOf \in [Names -> Seq(Dependency)] /\ unsat \in SUBSET Names

\* The call of _collect_chain for the next dependency.
Inner(c, depsOf) ==
  [todo |-> depsOf[Head(c.todo).agent], stack |-> c.stack \cup {Head(c.todo).agent},
   acc |-> [c.acc EXCEPT !.visited = IF c.stack = {} THEN {} ELSE @]]

LEMMA NextDependency ==
  ASSUME NEW c \in Call, c.todo # <<>>
  PROVE  /\ Head(c.todo).agent \in Names /\ Head(c.todo).hard \in BOOLEAN
         /\ Tail(c.todo) \in Seq(Dependency) /\ Len(Tail(c.todo)) < Len(c.todo)
         /\ c.todo[1] = Head(c.todo) /\ 1 \in DOMAIN c.todo
         /\ \A i \in DOMAIN c.todo : i = 1 \/ (i - 1 \in DOMAIN Tail(c.todo) /\ Tail(c.todo)[i - 1] = c.todo[i])
         /\ \A i \in DOMAIN Tail(c.todo) : i + 1 \in DOMAIN c.todo /\ Tail(c.todo)[i] = c.todo[i + 1]
<1>1. c.todo \in Seq(Dependency)
  BY DEF Call
<1>2. Head(c.todo) \in Dependency
  BY <1>1
<1>3. Head(c.todo).agent \in Names /\ Head(c.todo).hard \in BOOLEAN
  BY <1>2 DEF Dependency
<1>4. Tail(c.todo) \in Seq(Dependency) /\ Len(Tail(c.todo)) = Len(c.todo) - 1 /\ Len(c.todo) \in Nat
  BY <1>1
<1>5. c.todo[1] = Head(c.todo) /\ 1 \in DOMAIN c.todo
  BY <1>1
<1>6. ASSUME NEW i \in DOMAIN c.todo, i # 1
      PROVE  i - 1 \in DOMAIN Tail(c.todo) /\ Tail(c.todo)[i - 1] = c.todo[i]
  BY <1>1, <1>6
<1>7. ASSUME NEW i \in DOMAIN Tail(c.todo)
      PROVE  i + 1 \in DOMAIN c.todo /\ Tail(c.todo)[i] = c.todo[i + 1]
  BY <1>1
<1> QED
  BY <1>3, <1>4, <1>5, <1>6, <1>7

\* What is done next only depends on what calls deeper in the recursion return.
LEMMA InnerIsDeeper ==
  ASSUME NEW depsOf, NEW unsat, Given(depsOf, unsat), NEW c \in Call, c.todo # <<>>,
         Head(c.todo).agent \notin c.stack
  PROVE  Inner(c, depsOf) \in Call /\ Deeper(Inner(c, depsOf), c)
<1> DEFINE a == Head(c.todo).agent
           acc == [c.acc EXCEPT !.visited = IF c.stack = {} THEN {} ELSE @]
<1>1. a \in Names
  BY NextDependency
<1>2. c.stack \in SUBSET Names /\ c.acc \in Progress
  BY DEF Call
<1>3. acc \in Progress
  BY <1>2 DEF Progress
<1>4. depsOf[a] \in Seq(Dependency)
  BY <1>1 DEF Given
<1>5. Inner(c, depsOf) = [todo |-> depsOf[a], stack |-> c.stack \cup {a}, acc |-> acc]
  BY DEF Inner
<1> HIDE DEF a, acc
<1>6. Inner(c, depsOf) \in Call
  BY <1>1, <1>2, <1>3, <1>4, <1>5 DEF Call
<1>7. a \notin c.stack
  BY DEF a
<1> QED
  BY <1>5, <1>6, <1>7 DEF Deeper

LEMMA ReturnTyped ==
  ASSUME NEW acc \in Progress, NEW a \in Names
  PROVE  Return(acc, a) \in Progress
<1>1. acc.order \in Seq(Names) /\ acc.visited \in SUBSET Names
  BY DEF Progress
<1>2. AppendOnce(acc.order, a) \in Seq(Names)
  BY <1>1 DEF AppendOnce
<1> QED
  BY <1>1, <1>2 DEF Return, Progress

\* g answers every call deeper than c.
Answered(g, c) == \A b \in Call : Deeper(b, c) => g[b] \in Progress

LEMMA VisitTyped ==
  ASSUME NEW depsOf, NEW unsat, Given(depsOf, unsat), NEW c \in Call, c.todo # <<>>,
         NEW g, Answered(g, c)
  PROVE  Visit(g, c, depsOf, unsat) \in Progress
<1> DEFINE d == Head(c.todo)
           acc == [c.acc EXCEPT !.visited = IF c.stack = {} THEN {} ELSE @]
<1>1. acc \in Progress /\ [acc EXCEPT !.cycle = TRUE] \in Progress
  BY DEF Call, Progress
<1>2. d.agent \in Names
  BY NextDependency
<1>3. d.agent \notin c.stack => Return(g[Inner(c, depsOf)], d.agent) \in Progress
  BY <1>2, InnerIsDeeper, ReturnTyped DEF Answered
<1>4. \/ Visit(g, c, depsOf, unsat) = acc
      \/ Visit(g, c, depsOf, unsat) = [acc EXCEPT !.cycle = TRUE]
      \/ d.agent \notin c.stack /\ Visit(g, c, depsOf, unsat) = Return(g[Inner(c, depsOf)], d.agent)
  BY DEF Visit, Inner
<1> HIDE DEF d, acc
<1> QED
  BY <1>1, <1>3, <1>4

LEMMA RestIsDeeper ==
  ASSUME NEW c \in Call, c.todo # <<>>, NEW acc \in Progress
  PROVE  LET r == [todo |-> Tail(c.todo), stack |-> c.stack, acc |-> acc]
         IN r \in Call /\ Deeper(r, c)
BY NextDependency DEF Call, Deeper

LEMMA LoopIsLocal ==
  ASSUME NEW depsOf, NEW unsat, Given(depsOf, unsat), NEW c \in Call,
         NEW g, NEW h, Answered(g, c), \A b \in Call : Deeper(b, c) => g[b] = h[b]
  PROVE  /\ Loop(g, c, depsOf, unsat) \in Progress
         /\ Loop(g, c, depsOf, unsat) = Loop(h, c, depsOf, unsat)
<1>1. CASE c.todo = <<>> \/ c.acc.cycle
  BY <1>1 DEF Loop, Call
<1>2. CASE ~(c.todo = <<>> \/ c.acc.cycle)
  <2>1. Visit(g, c, depsOf, unsat) = Visit(h, c, depsOf, unsat)
    <3>1. Head(c.todo).agent \notin c.stack => g[Inner(c, depsOf)] = h[Inner(c, depsOf)]
      BY <1>2, InnerIsDeeper
    <3> QED
      BY <3>1 DEF Visit, Inner
  <2> DEFINE r == [todo |-> Tail(c.todo), stack |-> c.stack, acc |-> Visit(g, c, depsOf, unsat)]
  <2>2. Visit(g, c, depsOf, unsat) \in Progress
    BY <1>2, VisitTyped
  <2>3. r \in Call /\ Deeper(r, c)
    BY <1>2, <2>2, RestIsDeeper
  <2>4. /\ Loop(g, c, depsOf, unsat) = g[r]
        /\ Loop(h, c, depsOf, unsat) = h[r]
    BY <1>2, <2>1 DEF Loop
  <2> HIDE DEF r
  <2> QED
    BY <2>3, <2>4 DEF Answered
<1> QED
  BY <1>1, <1>2

\* The calls that matter to c, and what a table of their answers has to satisfy.
Within(c) == {b \in Call : b = c \/ Deeper(b, c)}

Table(g, c, depsOf, unsat) ==
  /\ g \in [Within(c) -> Progress]
  /\ \A b \in Within(c) : g[b] = Loop(g, b, depsOf, unsat)

LEMMA AnswersAgree ==
  ASSUME NEW depsOf, NEW unsat, Given(depsOf, unsat), NEW c \in Call, NEW d \in Call,
         NEW g, Table(g, c, depsOf, unsat), NEW h, Table(h, d, depsOf, unsat),
         NEW e \in Within(c) \cap Within(d)
  PROVE  g[e] = h[e]
<1> DEFINE T == {b \in Within(c) \cap Within(d) : g[b] # h[b]}
<1> SUFFICES ASSUME T # {} PROVE FALSE
  OBVIOUS
<1>1. T \in SUBSET Call
  BY DEF Within
<1>2. PICK x \in T : \A b \in T : ~Deeper(b, x)
  <2> HIDE DEF T
  <2> QED
    BY <1>1, DeepestCall
<1>3. x \in Call /\ x \in Within(c) /\ x \in Within(d) /\ g[x] # h[x]
  BY DEF Within
<1>4. ASSUME NEW b \in Call, Deeper(b, x)
      PROVE  g[b] = h[b] /\ g[b] \in Progress
  <2>1. b \in Within(c) /\ b \in Within(d)
    BY <1>3, <1>4, DeeperIsStrict DEF Within
  <2> QED
    BY <1>2, <1>4, <2>1 DEF Table
<1>5. Loop(g, x, depsOf, unsat) = Loop(h, x, depsOf, unsat)
  BY <1>3, <1>4, LoopIsLocal DEF Answered
<1> QED
  BY <1>3, <1>5 DEF Table

LEMMA AnswersExist ==
  ASSUME NEW depsOf, NEW unsat, Given(depsOf, unsat), NEW c \in Call
  PROVE  \E g : Table(g, c, depsOf, unsat)
<1> DEFINE T == {b \in Call : ~ \E g : Table(g, b, depsOf, unsat)}
<1> SUFFICES ASSUME T # {} PROVE FALSE
  OBVIOUS
<1>1. PICK x \in T : \A b \in T : ~Deeper(b, x)
  <2>1. T \in SUBSET Call
    OBVIOUS
  <2> HIDE DEF T
  <2> QED
    BY <2>1, DeepestCall
<1>2. x \in Call /\ ~ \E g : Table(g, x, depsOf, unsat)
  OBVIOUS
<1> DEFINE answers(b) == CHOOSE g : Table(g, b, depsOf, unsat)
<1>3. ASSUME NEW b \in Call, Deeper(b, x) PROVE Table(answers(b), b, depsOf, unsat)
  <2>1. \E g : Table(g, b, depsOf, unsat)
    BY <1>1, <1>3
  <2> QED
    BY <2>1
<1> HIDE DEF answers
<1> DEFINE g0 == [b \in {b \in Call : Deeper(b, x)} |-> answers(b)[b]]
           g1 == [b \in Within(x) |-> IF b = x THEN Loop(g0, x, depsOf, unsat) ELSE answers(b)[b]]
<1>4. ASSUME NEW b \in Call, Deeper(b, x)
      PROVE  /\ g0[b] = answers(b)[b] /\ g1[b] = answers(b)[b] /\ g0[b] \in Progress
             /\ b \in Within(b)
  <2>1. b # x /\ b \in Within(x) /\ b \in Within(b)
    BY <1>2, <1>4, DeeperIsStrict DEF Within
  <2>2. answers(b)[b] \in Progress
    BY <1>3, <1>4, <2>1 DEF Table
  <2> QED
    BY <1>4, <2>1, <2>2
<1> HIDE DEF g0
<1>5. g1[x] = Loop(g0, x, depsOf, unsat) /\ x \in Within(x)
  BY <1>2 DEF Within
<1>6. /\ Loop(g0, x, depsOf, unsat) \in Progress
      /\ Loop(g0, x, depsOf, unsat) = Loop(g1, x, depsOf, unsat)
  <2> HIDE DEF g1
  <2> QED
    BY <1>2, <1>4, LoopIsLocal DEF Answered
<1>7. g1 \in [Within(x) -> Progress]
  BY <1>4, <1>6 DEF Within
<1> HIDE DEF g1
<1>8. ASSUME NEW b \in Call, Deeper(b, x) PROVE g1[b] = Loop(g1, b, depsOf, unsat)
  <2>1. ASSUME NEW e \in Call, Deeper(e, b)
        PROVE  answers(b)[e] = g1[e] /\ answers(b)[e] \in Progress
    <3>1. Deeper(e, x) /\ e \in Within(b) /\ e \in Within(e)
      BY <1>2, <1>8, <2>1, DeeperIsStrict DEF Within
    <3>2. answers(b)[e] = answers(e)[e]
      BY <1>3, <1>8, <3>1, AnswersAgree
    <3>3. answers(b)[e] \in Progress
      BY <1>3, <1>8, <3>1 DEF Table
    <3> QED
      BY <1>4, <3>1, <3>2, <3>3
  <2>2. Loop(answers(b), b, depsOf, unsat) = Loop(g1, b, depsOf, unsat)
    BY <2>1, LoopIsLocal DEF Answered
  <2>3. answers(b)[b] = Loop(answers(b), b, depsOf, unsat)
    BY <1>3, <1>4, <1>8 DEF Table
  <2> QED
    BY <1>4, <1>8, <2>2, <2>3
<1>9. ASSUME NEW b \in Within(x) PROVE g1[b] = Loop(g1, b, depsOf, unsat)
  BY <1>5, <1>6, <1>8 DEF Within
<1>10. Table(g1, x, depsOf, unsat)
  BY <1>7, <1>9 DEF Table
<1> QED
  BY <1>2, <1>10

\* The recursion of _collect_chain defines a function.
LEMMA WalkIsLoop ==
  ASSUME NEW depsOf, NEW unsat, Given(depsOf, unsat)
  PROVE  /\ Walk(depsOf, unsat) \in [Call -> Progress]
         /\ \A c \in Call : Walk(depsOf, unsat)[c] = Loop(Walk(depsOf, unsat), c, depsOf, unsat)
<1> DEFINE answers(c) == CHOOSE g : Table(g, c, depsOf, unsat)
<1>1. ASSUME NEW c \in Call PROVE Table(answers(c), c, depsOf, unsat)
  BY AnswersExist
<1> HIDE DEF answers
<1> DEFINE f == [c \in Call |-> answers(c)[c]]
<1>2. ASSUME NEW c \in Call PROVE c \in Within(c) /\ f[c] \in Progress /\ f[c] = answers(c)[c]
  BY <1>1 DEF Within, Table
<1>3. f \in [Call -> Progress]
  BY <1>2
<1>4. DOMAIN f = Call
  OBVIOUS
<1> HIDE DEF f
<1>5. ASSUME NEW c \in Call PROVE f[c] = Loop(f, c, depsOf, unsat)
  <2>1. ASSUME NEW e \in Call, Deeper(e, c)
        PROVE  answers(c)[e] = f[e] /\ answers(c)[e] \in Progress
    <3>1. e \in Within(c) /\ e \in Within(e)
      BY <2>1 DEF Within
    <3>2. answers(c)[e] = answers(e)[e]
      BY <1>1, <3>1, AnswersAgree
    <3> QED
      BY <1>2, <3>2
  <2>2. Loop(answers(c), c, depsOf, unsat) = Loop(f, c, depsOf, unsat)
    BY <2>1, LoopIsLocal DEF Answered
  <2> QED
    BY <1>1, <1>2, <2>2 DEF Table
<1> DEFINE W == Walk(depsOf, unsat)
<1>6. f = [c \in Call |-> Loop(f, c, depsOf, unsat)]
  BY <1>3, <1>5
<1>7. W = [c \in Call |-> Loop(W, c, depsOf, unsat)]
  BY <1>6 DEF Walk
<1>8. ASSUME NEW c \in Call PROVE W[c] = Loop(W, c, depsOf, unsat)
  <2> HIDE DEF W
  <2> QED
    BY <1>7
<1>9. DOMAIN W = Call
  <2> HIDE DEF W
  <2> QED
    BY <1>7
<1>10. W \in [Call -> Progress]
  <2> DEFINE T == {c \in Call : W[c] \notin Progress}
  <2> HIDE DEF W
  <2>1. T = {}
    <3> SUFFICES ASSUME T # {} PROVE FALSE
      OBVIOUS
    <3>1. PICK x \in T : \A b \in T : ~Deeper(b, x)
      <4>1. T \in SUBSET Call
        OBVIOUS
      <4> HIDE DEF T
      <4> QED
        BY <4>1, DeepestCall
    <3>2. Answered(W, x)
      BY <3>1 DEF Answered
    <3>3. Loop(W, x, depsOf, unsat) \in Progress
      BY <3>2, LoopIsLocal
    <3> QED
      BY <1>8, <3>3
  <2>2. W = [c \in Call |-> W[c]]
    BY <1>7
  <2> QED
    BY <2>1, <2>2
<1> QED
  BY <1>8, <1>10

-----------------------------------------------------------------------------
(* What the chain owes.                                                    *)

Needs(a, depsOf, unsat) == HardDeps(depsOf[a]) \cap unsat

\* What a traversal that met no cycle has so far is bottom-up.
Sane(acc, depsOf, unsat) ==
  /\ \A i, j \in DOMAIN acc.order : acc.order[i] = acc.order[j] => i = j
  /\ \A i \in DOMAIN acc.order : \A b \in Needs(acc.order[i], depsOf, unsat) :
       \E j \in 1..(i - 1) : acc.order[j] = b
  /\ acc.visited \subseteq Range(acc.order)

Closed(U, depsOf, unsat) == U \subseteq unsat /\ \A a \in U : Needs(a, depsOf, unsat) \subseteq U

\* The stack is a path: each member needs another, and the last one, what is to do.
Path(c, depsOf) ==
  c.stack = {} \/ \E last \in c.stack :
    /\ HardDeps(c.todo) \subseteq HardDeps(depsOf[last])
    /\ \A a \in c.stack \ {last} : HardDeps(depsOf[a]) \cap c.stack # {}

\* A call within the closed set U.
Fit(c, U, depsOf, unsat) ==
  /\ c.stack \subseteq U /\ Path(c, depsOf)
  /\ HardDeps(c.todo) \cap unsat \subseteq U
  /\ ~c.acc.cycle => Sane(c.acc, depsOf, unsat) /\ Range(c.acc.order) \subseteq U
  /\ c.acc.cycle => HasCycle(U, depsOf)

\* What it returns.
Good(r, c, U, depsOf, unsat) ==
  /\ r.cycle => HasCycle(U, depsOf)
  /\ ~r.cycle => /\ Sane(r, depsOf, unsat) /\ ~c.acc.cycle
                 /\ Range(c.acc.order) \subseteq Range(r.order) /\ Range(r.order) \subseteq U
                 /\ HardDeps(c.todo) \cap unsat \subseteq Range(r.order)

LEMMA HardOfHead ==
  ASSUME NEW c \in Call, c.todo # <<>>
  PROVE  HardDeps(c.todo) = HardDeps(Tail(c.todo)) \cup
           IF Head(c.todo).hard THEN {Head(c.todo).agent} ELSE {}
<1>1. ASSUME NEW a \in HardDeps(c.todo), a \notin HardDeps(Tail(c.todo))
      PROVE  Head(c.todo).hard /\ a = Head(c.todo).agent
  <2>1. PICK i \in DOMAIN c.todo : c.todo[i].agent = a /\ c.todo[i].hard
    BY <1>1 DEF HardDeps
  <2>2. a \in Names
    BY <1>1 DEF HardDeps
  <2>3. i = 1
    <3> SUFFICES ASSUME i # 1 PROVE FALSE
      OBVIOUS
    <3>1. i - 1 \in DOMAIN Tail(c.todo) /\ Tail(c.todo)[i - 1] = c.todo[i]
      BY <2>1, NextDependency
    <3>2. a \in HardDeps(Tail(c.todo))
      BY <2>1, <2>2, <3>1 DEF HardDeps
    <3> QED
      BY <1>1, <3>2
  <2> QED
    BY <2>1, <2>3, NextDependency
<1>2. HardDeps(Tail(c.todo)) \subseteq HardDeps(c.todo)
  BY NextDependency DEF HardDeps
<1>3. Head(c.todo).hard => Head(c.todo).agent \in HardDeps(c.todo)
  BY NextDependency DEF HardDeps
<1> QED
  BY <1>1, <1>2, <1>3

LEMMA AppendOnceKeeps ==
  ASSUME NEW order \in Seq(Names), NEW a \in Names
  PROVE  /\ Range(AppendOnce(order, a)) = Range(order) \cup {a}
         /\ a \in Range(order) => AppendOnce(order, a) = order
         /\ a \notin Range(order) =>
              /\ AppendOnce(order, a) \in Seq(Names)
              /\ DOMAIN AppendOnce(order, a) = 1..(Len(order) + 1)
              /\ AppendOnce(order, a)[Len(order) + 1] = a
              /\ \A i \in 1..Len(order) : AppendOnce(order, a)[i] = order[i]
<1>1. CASE a \in Range(order)
  BY <1>1 DEF AppendOnce
<1>2. CASE a \notin Range(order)
  <2> DEFINE new == Append(order, a)
             n == Len(order)
  <2>1. AppendOnce(order, a) = new
    BY <1>2 DEF AppendOnce
  <2>2. /\ new \in Seq(Names) /\ DOMAIN new = 1..(n + 1) /\ new[n + 1] = a
        /\ \A i \in 1..n : new[i] = order[i]
        /\ n \in Nat /\ DOMAIN order = 1..n
    OBVIOUS
  <2> HIDE DEF new, n
  <2>3. Range(new) = Range(order) \cup {a}
    <3>1. ASSUME NEW x \in Range(new) PROVE x \in Range(order) \cup {a}
      <4>1. PICK i \in 1..(n + 1) : x = new[i]
        BY <2>2, <3>1 DEF Range
      <4>2. i \in 1..n \/ i = n + 1
        BY <2>2
      <4> QED
        BY <2>2, <4>1, <4>2 DEF Range
    <3>2. ASSUME NEW x \in Range(order) \cup {a} PROVE x \in Range(new)
      <4>1. CASE x = a
        BY <2>2, <4>1 DEF Range
      <4>2. CASE x \in Range(order)
        <5>1. PICK i \in 1..n : x = order[i]
          BY <2>2, <4>2 DEF Range
        <5>2. i \in 1..(n + 1) /\ x = new[i]
          BY <2>2, <5>1
        <5> QED
          BY <2>2, <5>2 DEF Range
      <4> QED
        BY <4>1, <4>2
    <3> QED
      BY <3>1, <3>2
  <2> QED
    BY <1>2, <2>1, <2>2, <2>3 DEF n
<1> QED
  BY <1>1, <1>2

\* The end of _collect_chain puts an agent after what it needs.
LEMMA ReturnIsSane ==
  ASSUME NEW depsOf, NEW unsat, Given(depsOf, unsat), NEW acc \in Progress, NEW a \in Names,
         ~acc.cycle, Sane(acc, depsOf, unsat), Needs(a, depsOf, unsat) \subseteq Range(acc.order)
  PROVE  /\ ~Return(acc, a).cycle /\ Sane(Return(acc, a), depsOf, unsat)
         /\ Range(Return(acc, a).order) = Range(acc.order) \cup {a}
<1> DEFINE r == Return(acc, a)
           new == AppendOnce(acc.order, a)
           n == Len(acc.order)
<1>1. r.order = new /\ r.visited = acc.visited \cup {a} /\ ~r.cycle
  BY DEF Return
<1>2. acc.order \in Seq(Names) /\ n \in Nat /\ DOMAIN acc.order = 1..n
  BY DEF Progress
<1>3. Range(new) = Range(acc.order) \cup {a}
  BY <1>2, AppendOnceKeeps
<1>4. r.visited \subseteq Range(new)
  BY <1>1, <1>3 DEF Sane
<1>5. CASE a \in Range(acc.order)
  <2>1. new = acc.order
    BY <1>2, <1>5, AppendOnceKeeps
  <2> QED
    BY <1>1, <1>3, <1>4, <2>1 DEF Sane
<1>6. CASE a \notin Range(acc.order)
  <2>1. /\ DOMAIN new = 1..(n + 1) /\ new[n + 1] = a
        /\ \A i \in 1..n : new[i] = acc.order[i]
    BY <1>2, <1>6, AppendOnceKeeps
  <2> HIDE DEF new, n, r
  <2>2. ASSUME NEW i \in DOMAIN new, NEW j \in DOMAIN new, new[i] = new[j] PROVE i = j
    <3>1. \A k \in 1..n : new[k] \in Range(acc.order)
      BY <1>2, <2>1 DEF Range
    <3>2. (i \in 1..n \/ i = n + 1) /\ (j \in 1..n \/ j = n + 1)
      BY <1>2, <2>1
    <3>3. CASE i \in 1..n /\ j \in 1..n
      BY <1>2, <2>1, <2>2, <3>3 DEF Sane
    <3> QED
      BY <1>6, <2>1, <2>2, <3>1, <3>2, <3>3
  <2>3. ASSUME NEW i \in DOMAIN new, NEW b \in Needs(new[i], depsOf, unsat)
        PROVE  \E j \in 1..(i - 1) : new[j] = b
    <3>1. CASE i = n + 1
      <4>1. b \in Range(acc.order)
        BY <2>1, <3>1
      <4>2. PICK j \in 1..n : acc.order[j] = b
        BY <1>2, <4>1 DEF Range
      <4>3. j \in 1..(i - 1) /\ new[j] = b
        BY <1>2, <2>1, <3>1, <4>2
      <4> QED
        BY <4>3
    <3>2. CASE i \in 1..n
      <4>1. PICK j \in 1..(i - 1) : acc.order[j] = b
        BY <1>2, <2>1, <3>2 DEF Sane
      <4>2. j \in 1..n
        BY <1>2, <3>2
      <4> QED
        BY <2>1, <4>1, <4>2
    <3> QED
      BY <1>2, <2>1, <3>1, <3>2
  <2>4. Sane(r, depsOf, unsat)
    BY <1>1, <1>4, <2>2, <2>3 DEF Sane
  <2> QED
    BY <1>1, <1>3, <2>4 DEF r
<1> QED
  BY <1>5, <1>6

\* A dependency on the stack closes a cycle.
LEMMA StackIsCycle ==
  ASSUME NEW depsOf, NEW unsat, NEW c \in Call, NEW U, Fit(c, U, depsOf, unsat),
         NEW a \in c.stack, a \in HardDeps(c.todo)
  PROVE  HasCycle(U, depsOf)
<1>1. PICK last \in c.stack :
        /\ HardDeps(c.todo) \subseteq HardDeps(depsOf[last])
        /\ \A b \in c.stack \ {last} : HardDeps(depsOf[b]) \cap c.stack # {}
  BY DEF Fit, Path
<1>2. \A b \in c.stack : HardDeps(depsOf[b]) \cap c.stack # {}
  BY <1>1
<1>3. c.stack \in (SUBSET U) \ {{}}
  BY DEF Fit
<1> QED
  BY <1>2, <1>3 DEF HasCycle

\* The call for the next dependency is on a longer path, within U as well.
LEMMA InnerFits ==
  ASSUME NEW depsOf, NEW unsat, Given(depsOf, unsat), NEW U, Closed(U, depsOf, unsat),
         NEW c \in Call, Fit(c, U, depsOf, unsat), c.todo # <<>>, ~c.acc.cycle,
         Head(c.todo).hard, Head(c.todo).agent \in unsat
  PROVE  Fit(Inner(c, depsOf), U, depsOf, unsat)
<1> DEFINE a == Head(c.todo).agent
           s == c.stack \cup {a}
           i == Inner(c, depsOf)
           acc == [c.acc EXCEPT !.visited = IF c.stack = {} THEN {} ELSE @]
<1>1. i.todo = depsOf[a] /\ i.stack = s /\ i.acc = acc
  BY DEF Inner
<1>2. a \in HardDeps(c.todo) /\ a \in U
  BY HardOfHead DEF Fit
<1>3. c.acc \in Progress
  BY DEF Call
<1>4. acc.order = c.acc.order /\ acc.visited \subseteq c.acc.visited /\ ~acc.cycle
  BY <1>3 DEF Progress
<1> HIDE DEF acc, i, s, a
<1>5. Sane(acc, depsOf, unsat) /\ Range(acc.order) \subseteq U
  <2>1. Sane(c.acc, depsOf, unsat) /\ Range(c.acc.order) \subseteq U
    BY DEF Fit
  <2> QED
    BY <1>4, <2>1 DEF Sane
<1>6. HardDeps(depsOf[a]) \cap unsat \subseteq U
  BY <1>2 DEF Closed, Needs
<1>7. Path(i, depsOf)
  <2>1. \A b \in s \ {a} : HardDeps(depsOf[b]) \cap s # {}
    <3> SUFFICES ASSUME NEW b \in c.stack, b # a PROVE HardDeps(depsOf[b]) \cap s # {}
      BY DEF s
    <3>1. PICK last \in c.stack :
            /\ HardDeps(c.todo) \subseteq HardDeps(depsOf[last])
            /\ \A x \in c.stack \ {last} : HardDeps(depsOf[x]) \cap c.stack # {}
      BY DEF Fit, Path
    <3> QED
      BY <1>2, <3>1 DEF s
  <2>2. a \in s /\ HardDeps(i.todo) \subseteq HardDeps(depsOf[a])
    BY <1>1 DEF s
  <2> QED
    BY <1>1, <2>1, <2>2 DEF Path
<1>8. s \subseteq U
  BY <1>2 DEF Fit, s
<1>9. Fit(i, U, depsOf, unsat)
  BY <1>1, <1>4, <1>5, <1>6, <1>7, <1>8 DEF Fit
<1> QED
  BY <1>9 DEF i

\* What one round makes of a call.
LEMMA VisitIsGood ==
  ASSUME NEW depsOf, NEW unsat, Given(depsOf, unsat), NEW U, Closed(U, depsOf, unsat),
         NEW c \in Call, Fit(c, U, depsOf, unsat), c.todo # <<>>, ~c.acc.cycle,
         NEW W, Answered(W, c),
         \A b \in Call : Deeper(b, c) /\ Fit(b, U, depsOf, unsat) => Good(W[b], b, U, depsOf, unsat),
         NEW v, v = Visit(W, c, depsOf, unsat)
  PROVE  /\ v.cycle => HasCycle(U, depsOf)
         /\ ~v.cycle =>
              /\ Sane(v, depsOf, unsat) /\ Range(v.order) \subseteq U
              /\ Range(c.acc.order) \subseteq Range(v.order)
              /\ Head(c.todo).hard /\ Head(c.todo).agent \in unsat => Head(c.todo).agent \in Range(v.order)
<1> DEFINE d == Head(c.todo)
           acc == [c.acc EXCEPT !.visited = IF c.stack = {} THEN {} ELSE @]
           i == Inner(c, depsOf)
<1>1. c.acc \in Progress
  BY DEF Call
<1>2. /\ acc.order = c.acc.order /\ acc.visited \subseteq c.acc.visited /\ ~acc.cycle
      /\ [acc EXCEPT !.cycle = TRUE].cycle
  BY <1>1 DEF Progress
<1>3. i.acc = acc /\ i.stack = c.stack \cup {d.agent} /\ i.todo = depsOf[d.agent]
  BY DEF Inner
<1>4. v = IF ~d.hard THEN acc
          ELSE IF d.agent \in c.stack THEN [acc EXCEPT !.cycle = TRUE]
          ELSE IF d.agent \in acc.visited \/ d.agent \notin unsat THEN acc
          ELSE Return(W[i], d.agent)
  BY DEF Visit, Inner
<1>5. d.agent \in Names /\ d.hard \in BOOLEAN
  BY NextDependency
<1>6. Sane(acc, depsOf, unsat) /\ Range(acc.order) \subseteq U /\ acc.visited \subseteq Range(acc.order)
  <2> HIDE DEF acc
  <2> QED
    BY <1>2 DEF Fit, Sane
<1>7. CASE ~d.hard \/ (d.agent \notin c.stack /\ (d.agent \in acc.visited \/ d.agent \notin unsat))
  <2>1. v = acc
    BY <1>4, <1>7
  <2> HIDE DEF acc
  <2> QED
    BY <1>2, <1>6, <1>7, <2>1
<1>8. CASE d.hard /\ d.agent \in c.stack
  <2>1. d.agent \in HardDeps(c.todo)
    BY <1>8, HardOfHead
  <2>2. HasCycle(U, depsOf)
    BY <1>8, <2>1, StackIsCycle
  <2> QED
    BY <1>2, <1>4, <1>8, <2>2
<1>9. CASE d.hard /\ d.agent \notin c.stack /\ d.agent \notin acc.visited /\ d.agent \in unsat
  <2>1. i \in Call /\ Deeper(i, c)
    BY <1>9, InnerIsDeeper
  <2>2. Fit(i, U, depsOf, unsat)
    BY <1>9, InnerFits
  <2>3. Good(W[i], i, U, depsOf, unsat) /\ W[i] \in Progress
    BY <2>1, <2>2 DEF Answered
  <2>4. v = Return(W[i], d.agent)
    BY <1>4, <1>9
  <2> HIDE DEF i, acc, d
  <2>5. CASE W[i].cycle
    <3>1. v = W[i]
      BY <2>4, <2>5 DEF Return
    <3> QED
      BY <2>3, <2>5, <3>1 DEF Good
  <2>6. CASE ~W[i].cycle
    <3>1. Sane(W[i], depsOf, unsat) /\ Range(acc.order) \subseteq Range(W[i].order)
      BY <1>3, <2>3, <2>6 DEF Good
    <3>2. HardDeps(depsOf[d.agent]) \cap unsat \subseteq Range(W[i].order) /\ Range(W[i].order) \subseteq U
      BY <1>3, <2>3, <2>6 DEF Good
    <3>3. /\ ~v.cycle /\ Sane(v, depsOf, unsat)
          /\ Range(v.order) = Range(W[i].order) \cup {d.agent}
      BY <1>5, <2>3, <2>4, <2>6, <3>1, <3>2, ReturnIsSane DEF Needs
    <3>4. d.agent \in U
      BY <1>3, <2>2 DEF Fit
    <3> QED
      BY <1>2, <3>1, <3>2, <3>3, <3>4 DEF d
  <2> QED
    BY <2>5, <2>6
<1> QED
  BY <1>5, <1>7, <1>8, <1>9

LEMMA WalkIsGood ==
  ASSUME NEW depsOf, NEW unsat, Given(depsOf, unsat), NEW U, Closed(U, depsOf, unsat),
         NEW c \in Call, Fit(c, U, depsOf, unsat)
  PROVE  Good(Walk(depsOf, unsat)[c], c, U, depsOf, unsat)
<1> DEFINE W == Walk(depsOf, unsat)
           T == {b \in Call : Fit(b, U, depsOf, unsat) /\ ~Good(W[b], b, U, depsOf, unsat)}
<1>1. W \in [Call -> Progress] /\ \A b \in Call : W[b] = Loop(W, b, depsOf, unsat)
  BY WalkIsLoop
<1> HIDE DEF W
<1> SUFFICES ASSUME T # {} PROVE FALSE
  BY DEF W
<1>2. PICK x \in T : \A b \in T : ~Deeper(b, x)
  <2>1. T \in SUBSET Call
    OBVIOUS
  <2> HIDE DEF T
  <2> QED
    BY <2>1, DeepestCall
<1>3. /\ x \in Call /\ Fit(x, U, depsOf, unsat) /\ ~Good(W[x], x, U, depsOf, unsat)
      /\ \A b \in Call : Deeper(b, x) /\ Fit(b, U, depsOf, unsat) => Good(W[b], b, U, depsOf, unsat)
  BY <1>2
<1>4. Answered(W, x)
  BY <1>1 DEF Answered
<1> DEFINE v == Visit(W, x, depsOf, unsat)
           r == [todo |-> Tail(x.todo), stack |-> x.stack, acc |-> v]
<1>5. W[x] = IF x.todo = <<>> \/ x.acc.cycle THEN x.acc ELSE W[r]
  BY <1>1, <1>3 DEF Loop
<1>6. CASE x.acc.cycle
  <2>1. W[x] = x.acc
    BY <1>5, <1>6
  <2> QED
    BY <1>3, <1>6, <2>1 DEF Good, Fit
<1>7. CASE ~x.acc.cycle /\ x.todo = <<>>
  <2>1. W[x] = x.acc
    BY <1>5, <1>7
  <2>2. HardDeps(x.todo) = {}
    BY <1>7 DEF HardDeps
  <2> QED
    BY <1>3, <1>7, <2>1, <2>2 DEF Good, Fit
<1>8. CASE ~x.acc.cycle /\ x.todo # <<>>
  <2>1. v \in Progress
    BY <1>3, <1>4, <1>8, VisitTyped
  <2>2. r \in Call /\ Deeper(r, x)
    <3> HIDE DEF v
    <3> QED
      BY <1>3, <1>8, <2>1, RestIsDeeper
  <2>3. /\ v.cycle => HasCycle(U, depsOf)
        /\ ~v.cycle =>
             /\ Sane(v, depsOf, unsat) /\ Range(v.order) \subseteq U
             /\ Range(x.acc.order) \subseteq Range(v.order)
             /\ Head(x.todo).hard /\ Head(x.todo).agent \in unsat => Head(x.todo).agent \in Range(v.order)
    BY <1>3, <1>4, <1>8, VisitIsGood
  <2>4. r.todo = Tail(x.todo) /\ r.stack = x.stack /\ r.acc = v
    OBVIOUS
  <2>5. W[x] = W[r]
    BY <1>5, <1>8
  <2> HIDE DEF v, r
  <2>6. HardDeps(x.todo) = HardDeps(r.todo) \cup IF Head(x.todo).hard THEN {Head(x.todo).agent} ELSE {}
    BY <1>3, <1>8, <2>4, HardOfHead
  <2>7. Path(r, depsOf)
    BY <1>3, <2>4, <2>6 DEF Fit, Path
  <2>8. Fit(r, U, depsOf, unsat)
    BY <1>3, <2>3, <2>4, <2>6, <2>7 DEF Fit
  <2>9. Good(W[r], r, U, depsOf, unsat)
    BY <1>3, <2>2, <2>8
  <2>10. Good(W[x], x, U, depsOf, unsat)
    BY <1>8, <2>3, <2>4, <2>5, <2>6, <2>9 DEF Good
  <2> QED
    BY <1>3, <2>10
<1> QED
  BY <1>6, <1>7, <1>8

\* What the chain is made of is the least closed set with the missing dependencies.
LEMMA NeededIsClosed ==
  ASSUME NEW depsOf, NEW unsat, Given(depsOf, unsat), NEW deps
  PROVE  /\ Closed(Needed(deps, depsOf, unsat), depsOf, unsat)
         /\ HardDeps(deps) \cap unsat \subseteq Needed(deps, depsOf, unsat)
         /\ \A S \in SUBSET unsat :
              /\ HardDeps(deps) \cap unsat \subseteq S
              /\ \A a \in S : Needs(a, depsOf, unsat) \subseteq S
              => Needed(deps, depsOf, unsat) \subseteq S
<1> DEFINE N == Needed(deps, depsOf, unsat)
           closed == {S \in SUBSET unsat :
                        /\ HardDeps(deps) \cap unsat \subseteq S
                        /\ \A a \in S : Needs(a, depsOf, unsat) \subseteq S}
<1>1. N = {a \in unsat : \A S \in closed : a \in S}
  BY DEF Needed, Needs
<1> HIDE DEF N
<1>2. N \subseteq unsat /\ HardDeps(deps) \cap unsat \subseteq N
  BY <1>1
<1>3. ASSUME NEW a \in N PROVE Needs(a, depsOf, unsat) \subseteq N
  <2>1. \A S \in closed : Needs(a, depsOf, unsat) \subseteq S
    BY <1>1, <1>3
  <2>2. Needs(a, depsOf, unsat) \subseteq unsat
    BY DEF Needs
  <2> HIDE DEF closed
  <2> QED
    BY <1>1, <2>1, <2>2
<1>4. Closed(N, depsOf, unsat)
  BY <1>2, <1>3 DEF Closed
<1> QED
  BY <1>1, <1>2, <1>4 DEF N

\* The chain: a cycle exactly where there is one; else all that is needed, bottom-up.
LEMMA ChainFacts ==
  ASSUME NEW depsOf, NEW unsat, Given(depsOf, unsat), NEW deps \in Seq(Dependency),
         NEW chain, chain = Chain(deps, depsOf, unsat),
         NEW needed, needed = Needed(deps, depsOf, unsat)
  PROVE  /\ chain \in Progress
         /\ chain.cycle => HasCycle(needed, depsOf)
         /\ ~chain.cycle => Sane(chain, depsOf, unsat) /\ Range(chain.order) = needed
<1> DEFINE c == [todo |-> deps, stack |-> {}, acc |-> Begin]
<1>1. Begin \in Progress /\ Begin.order = <<>> /\ Begin.visited = {} /\ ~Begin.cycle
  BY DEF Begin, Progress
<1>2. Range(Begin.order) = {} /\ Sane(Begin, depsOf, unsat)
  BY <1>1 DEF Sane, Range
<1>3. c \in Call
  BY <1>1 DEF Call
<1>4. chain = Walk(depsOf, unsat)[c]
  BY DEF Chain
<1>5. chain \in Progress
  BY <1>3, <1>4, WalkIsLoop
<1>6. /\ Closed(needed, depsOf, unsat) /\ HardDeps(deps) \cap unsat \subseteq needed
      /\ \A S \in SUBSET unsat :
              /\ HardDeps(deps) \cap unsat \subseteq S
              /\ \A a \in S : Needs(a, depsOf, unsat) \subseteq S
              => needed \subseteq S
  BY NeededIsClosed
<1>7. Fit(c, needed, depsOf, unsat)
  BY <1>1, <1>2, <1>6 DEF Fit, Path
<1>8. c.todo = deps
  OBVIOUS
<1> HIDE DEF c
<1>9. Good(chain, c, needed, depsOf, unsat)
  BY <1>3, <1>4, <1>6, <1>7, WalkIsGood
<1>10. ASSUME ~chain.cycle PROVE needed \subseteq Range(chain.order)
  <2> DEFINE S == Range(chain.order)
  <2>1. /\ S \subseteq needed /\ HardDeps(deps) \cap unsat \subseteq S /\ Sane(chain, depsOf, unsat)
    BY <1>8, <1>9, <1>10 DEF Good
  <2>2. ASSUME NEW a \in S PROVE Needs(a, depsOf, unsat) \subseteq S
    <3>1. PICK i \in DOMAIN chain.order : a = chain.order[i]
      BY <2>2 DEF Range
    <3>2. chain.order \in Seq(Names)
      BY <1>5 DEF Progress
    <3>3. ASSUME NEW b \in Needs(a, depsOf, unsat) PROVE b \in S
      <4>1. PICK j \in 1..(i - 1) : chain.order[j] = b
        BY <2>1, <3>1 DEF Sane
      <4>2. j \in DOMAIN chain.order
        BY <3>1, <3>2
      <4> QED
        BY <4>1, <4>2 DEF Range
    <3> QED
      BY <3>3
  <2>3. S \in SUBSET unsat
    BY <1>6, <2>1 DEF Closed
  <2> HIDE DEF S
  <2> QED
    BY <1>6, <2>1, <2>2, <2>3 DEF S
<1> QED
  BY <1>5, <1>9, <1>10 DEF Good

\* Bottom-up, a cycle has no first member.
LEMMA SaneHasNoCycle ==
  ASSUME NEW depsOf, NEW unsat, NEW acc \in Progress, Sane(acc, depsOf, unsat),
         Range(acc.order) \subseteq unsat
  PROVE  ~HasCycle(Range(acc.order), depsOf)
<1> SUFFICES ASSUME HasCycle(Range(acc.order), depsOf) PROVE FALSE
  OBVIOUS
<1>1. PICK loop \in (SUBSET Range(acc.order)) \ {{}} :
        \A a \in loop : HardDeps(depsOf[a]) \cap loop # {}
  BY DEF HasCycle
<1>2. acc.order \in Seq(Names) /\ DOMAIN acc.order = 1..Len(acc.order) /\ Len(acc.order) \in Nat
  BY DEF Progress
<1> DEFINE I == {i \in DOMAIN acc.order : acc.order[i] \in loop}
<1>3. I \in SUBSET Nat /\ I # {}
  BY <1>1, <1>2 DEF Range
<1>4. PICK i \in I : \A j \in I : i <= j
  <2> HIDE DEF I
  <2> QED
    BY <1>3, LeastNatural
<1>5. PICK b \in loop : b \in HardDeps(depsOf[acc.order[i]])
  BY <1>1, <1>4
<1>6. b \in Needs(acc.order[i], depsOf, unsat)
  BY <1>1, <1>5 DEF Needs
<1>7. PICK j \in 1..(i - 1) : acc.order[j] = b
  BY <1>4, <1>6 DEF Sane
<1>8. j \in I /\ j < i
  BY <1>2, <1>3, <1>4, <1>5, <1>7
<1> QED
  BY <1>2, <1>4, <1>8

\* _collect_chain is a topological sort, for every catalog, agent and store.
LEMMA ChainSortsBottomUp ==
  ASSUME NEW depsOf, NEW unsat, Given(depsOf, unsat), NEW deps \in Seq(Dependency)
  PROVE  IsBottomUp(deps, depsOf, unsat)
<1> DEFINE needed == Needed(deps, depsOf, unsat)
           chain == Chain(deps, depsOf, unsat)
           order == chain.order
<1>1. /\ chain \in Progress
      /\ chain.cycle => HasCycle(needed, depsOf)
      /\ ~chain.cycle => Sane(chain, depsOf, unsat) /\ Range(order) = needed
  BY ChainFacts
<1>2. needed \subseteq unsat
  BY NeededIsClosed DEF Closed
<1> HIDE DEF chain, needed
<1>3. order \in Seq(Names)
  BY <1>1 DEF Progress
<1>4. ASSUME ~chain.cycle
      PROVE  /\ ~HasCycle(needed, depsOf) /\ Range(order) = needed
             /\ Len(order) = Cardinality(needed)
             /\ \A i, j \in DOMAIN order : order[j] \in HardDeps(depsOf[order[i]]) => j < i
  <2>1. ~HasCycle(needed, depsOf)
    BY <1>1, <1>2, <1>4, SaneHasNoCycle
  <2>2. Len(order) \in Nat /\ DOMAIN order = 1..Len(order)
    BY <1>3
  <2>3. Len(order) = Cardinality(needed)
    <3> HIDE DEF order
    <3>1. order \in [1..Len(order) -> needed]
      BY <1>1, <1>3, <1>4 DEF Range
    <3>2. \A i, k \in 1..Len(order) : order[i] = order[k] => i = k
      BY <1>1, <1>4, <2>2 DEF Sane, order
    <3>3. \A a \in needed : \E i \in 1..Len(order) : order[i] = a
      BY <1>1, <1>4, <2>2 DEF Range
    <3>4. order \in Bijection(1..Len(order), needed)
      BY <3>1, <3>2, <3>3 DEF Bijection, Injection, IsInjective, Surjection
    <3>5. ExistsBijection(1..Len(order), needed)
      BY <3>4 DEF ExistsBijection
    <3> QED
      BY <2>2, <3>5, FS_CountingElements
  <2>4. ASSUME NEW i \in DOMAIN order, NEW j \in DOMAIN order,
               order[j] \in HardDeps(depsOf[order[i]])
        PROVE  j < i
    <3>1. order[j] \in Needs(order[i], depsOf, unsat)
      BY <1>1, <1>2, <1>4, <2>4 DEF Needs, Range
    <3>2. PICK k \in 1..(i - 1) : order[k] = order[j]
      BY <1>1, <1>4, <3>1 DEF Sane
    <3>3. k \in DOMAIN order /\ k < i
      BY <2>2, <3>2
    <3>4. k = j
      BY <1>1, <1>4, <3>2, <3>3 DEF Sane
    <3> QED
      BY <3>3, <3>4
  <2> QED
    BY <1>1, <1>4, <2>1, <2>3, <2>4
<1> QED
  BY <1>1, <1>4 DEF IsBottomUp, needed, chain

-----------------------------------------------------------------------------
(* What the validator makes of a candidate.                                *)

\* The floors of FloorsHold, for one spec.
Floors(s, tpl) ==
  /\ s.tools \cap Untrusted # {} => s.guard.inject
  /\ s.guard.allow \subseteq Contact
  /\ tpl # NoTemplate => /\ tpl.guard.review => s.guard.review
                         /\ tpl.guard.pii => s.guard.pii
                         /\ s.guard.steps <= tpl.guard.steps

\* What LeastPrivilege, FloorsHold and ScopeMatchesAcl say of one spec, its mark, its
\* tenant and the template it was minted from.
Sound(s, m, w, tpl) ==
  /\ s \in AgentSpec
  /\ s.template = IF tpl = NoTemplate THEN NoTemplate ELSE tpl.name
  /\ s.tools \subseteq Visible(w) \cap Grantable(tpl, w)
  /\ s.tools \cap SideEffecting \subseteq m.approved \cup m.inherited
  /\ ~m.loose => Floors(s, tpl)
  /\ ~m.edited /\ s.tools \cap SideEffecting # {} => s.human
  /\ ~m.copied => s.home = Base(s, tpl) /\ s.acl = s.home

LEMMA KeptIsGranted ==
  ASSUME NEW tools \in SUBSET Tools, NEW tpl, NEW w, NEW approved
  PROVE  /\ Kept(tools, tpl, w, approved) \subseteq tools \cap Visible(w) \cap Grantable(tpl, w)
         /\ Kept(tools, tpl, w, approved) \cap SideEffecting \subseteq approved
BY DEF Kept

LEMMA FlooredIsPolicy ==
  ASSUME NEW g \in ProposedGuard, NEW tpl \in Template \cup {NoTemplate}, NEW kept
  PROVE  /\ Floored(g, tpl, kept) \in Guardrails
         /\ kept \cap Untrusted # {} => Floored(g, tpl, kept).inject
         /\ Floored(g, tpl, kept).allow \subseteq Contact
         /\ tpl # NoTemplate =>
              /\ tpl.guard.review => Floored(g, tpl, kept).review
              /\ tpl.guard.pii => Floored(g, tpl, kept).pii
              /\ Floored(g, tpl, kept).steps <= tpl.guard.steps
<1>1. tpl # NoTemplate => tpl.guard \in Guardrails
  BY DEF Template
<1>2. /\ g.inject \in BOOLEAN /\ g.review \in BOOLEAN /\ g.pii \in BOOLEAN
      /\ g.steps \in 0..MaxSteps \cup {Unset}
  BY DEF ProposedGuard
<1>3. MaxSteps \in Nat /\ DefaultSteps \in 0..MaxSteps /\ Contact \subseteq PiiKinds
  BY ValidatorAssumption DEF ValidatorAssumption
<1>4. tpl # NoTemplate =>
        tpl.guard.review \in BOOLEAN /\ tpl.guard.pii \in BOOLEAN /\ tpl.guard.steps \in 0..MaxSteps
  BY <1>1 DEF Guardrails
<1>5. /\ Capped(g.steps, tpl) \in 0..MaxSteps
      /\ tpl # NoTemplate => Capped(g.steps, tpl) <= tpl.guard.steps
  BY <1>2, <1>3, <1>4 DEF Capped, Unset
<1>6. Floored(g, tpl, kept) \in Guardrails
  BY <1>2, <1>3, <1>4, <1>5 DEF Floored, Guardrails
<1> QED
  BY <1>5, <1>6 DEF Floored

\* The validator disposes: whatever the candidate, what it returns is sound with the
\* approvals it was given.
LEMMA ValidateIsSound ==
  ASSUME NEW tpl \in Template \cup {NoTemplate}, NEW w \in Tenants, NEW m,
         NEW c, NEW approved \in SUBSET Tools,
         c.name \in Names, c.tools \in SUBSET Tools, c.deps \in Seq(Dependency),
         c.guard \in ProposedGuard, c.human \in BOOLEAN,
         c.template = IF tpl = NoTemplate THEN NoTemplate ELSE tpl.name,
         m.approved = approved,
         ~m.edited /\ c.tools \cap SideEffecting # {} => c.human
  PROVE  Sound(Validate(c, tpl, w, approved), m, w, tpl)
<1> DEFINE kept == Kept(c.tools, tpl, w, approved)
           guard == Floored(c.guard, tpl, kept)
           v == Validate(c, tpl, w, approved)
<1>1. /\ kept \subseteq c.tools \cap Visible(w) \cap Grantable(tpl, w)
      /\ kept \cap SideEffecting \subseteq approved
  BY KeptIsGranted
<1>2. /\ guard \in Guardrails
      /\ kept \cap Untrusted # {} => guard.inject
      /\ guard.allow \subseteq Contact
      /\ tpl # NoTemplate => /\ tpl.guard.review => guard.review
                             /\ tpl.guard.pii => guard.pii
                             /\ guard.steps <= tpl.guard.steps
  BY FlooredIsPolicy
<1>3. Base(c, tpl) \in Names /\ c.template \in Names \cup {NoTemplate}
  BY DEF Base, Template
<1> HIDE DEF kept, guard
<1>4. v = [name |-> c.name, template |-> c.template, tools |-> kept, deps |-> c.deps,
           guard |-> guard, human |-> c.human, home |-> Base(c, tpl), acl |-> Base(c, tpl)]
  BY DEF Validate, kept, guard
<1> HIDE DEF v
<1>5. v \in AgentSpec
  BY <1>1, <1>2, <1>3, <1>4 DEF AgentSpec
<1>6. Floors(v, tpl)
  BY <1>2, <1>4 DEF Floors
<1>7. v.home = Base(v, tpl) /\ v.acl = v.home
  BY <1>4 DEF Base
<1>8. v.human = c.human /\ v.tools = kept /\ v.template = c.template
  BY <1>4
<1>9. Sound(v, m, w, tpl)
  BY <1>1, <1>5, <1>6, <1>7, <1>8 DEF Sound
<1> QED
  BY <1>9 DEF v

-----------------------------------------------------------------------------
(* The invariant: the templates, the stored specs, the creations under way. *)

TemplatesOk ==
  /\ templates \in [Names -> Template \cup {NoTemplate}]
  /\ \A n \in Names : templates[n] # NoTemplate => templates[n].name = n
  /\ \A n \in Names : templates[n] = NoTemplate => Catalog[n] = NoTemplate

\* The agent stored under a name.
StoredAt(w, n) ==
  n \in enabled[w] \/ specs[w][n] # NoSpec =>
    /\ specs[w][n].name = n
    /\ Sound(specs[w][n], marks[w][n], w, TemplateOf(specs[w][n].template))

StoredOk ==
  /\ specs \in [Tenants -> [Names -> AgentSpec \cup {NoSpec}]]
  /\ enabled \in [Tenants -> SUBSET Names]
  /\ marks \in [Tenants -> [Names -> Mark]]
  /\ \A w \in Tenants, n \in Names : StoredAt(w, n)

\* The mark a spec gets that is saved now with these approvals.
Minted(approved) == [Unmarked EXCEPT !.approved = approved]

FrameOk(f) ==
  /\ f \in Frame
  /\ TemplateOf(f.req.template) = NoTemplate => f.req.name \in Scratch \cup {NoName}
  /\ f.pc # "compile" =>
       /\ Sound(f.spec, Minted(f.req.approved), f.req.tenant, TemplateOf(f.spec.template))
       /\ f.spec.template = NoTemplate => f.spec.name \in Scratch

\* Only the request of the operator, at the bottom, brings approvals.
StackOk ==
  /\ \E S : frames \in Seq(S)
  /\ \A i \in 1..Len(frames) :
       FrameOk(frames[i]) /\ (i < Len(frames) => frames[i].req.approved = {})

AssemblyInv == TemplatesOk /\ StoredOk /\ StackOk

\* Templates are added, never replaced.
Grow == \A n \in Names : templates[n] # NoTemplate => templates'[n] = templates[n]

LEMMA TemplateStays ==
  ASSUME Grow, NEW t, t = NoTemplate \/ TemplateOf(t) # NoTemplate
  PROVE  TemplateOf(t)' = TemplateOf(t)
BY AssemblyAssumption DEF AssemblyAssumption, Grow, TemplateOf

LEMMA SoundStays ==
  ASSUME Grow, TemplatesOk, NEW s, NEW m, NEW w, Sound(s, m, w, TemplateOf(s.template))
  PROVE  /\ TemplateOf(s.template)' = TemplateOf(s.template)
         /\ Sound(s, m, w, TemplateOf(s.template)')
<1>1. s.template = NoTemplate \/ TemplateOf(s.template) # NoTemplate
  BY DEF Sound
<1>2. TemplateOf(s.template)' = TemplateOf(s.template)
  BY <1>1, TemplateStays
<1> QED
  BY <1>2

\* Where the store stays as it is.
LEMMA StoreStays ==
  ASSUME StoredOk, TemplatesOk, Grow, UNCHANGED <<specs, enabled, marks>>
  PROVE  StoredOk'
<1>1. ASSUME NEW w \in Tenants, NEW n \in Names PROVE StoredAt(w, n)'
  BY SoundStays DEF StoredOk, StoredAt
<1> QED
  BY <1>1 DEF StoredOk

\* Where a sound spec is saved.
LEMMA SaveStores ==
  ASSUME StoredOk, TemplatesOk, Grow,
         NEW w \in Tenants, NEW s, NEW m \in Mark, SaveSpec(w, s, m),
         Sound(s, m, w, TemplateOf(s.template))
  PROVE  StoredOk'
<1>1. s \in AgentSpec /\ s.name \in Names
  BY DEF Sound, AgentSpec
<1>2. /\ specs' = [specs EXCEPT ![w][s.name] = s]
      /\ enabled' = [enabled EXCEPT ![w] = @ \cup {s.name}]
      /\ marks' = [marks EXCEPT ![w][s.name] = m]
  BY DEF SaveSpec
<1>3. /\ specs' \in [Tenants -> [Names -> AgentSpec \cup {NoSpec}]]
      /\ enabled' \in [Tenants -> SUBSET Names]
      /\ marks' \in [Tenants -> [Names -> Mark]]
  BY <1>1, <1>2 DEF StoredOk
<1>4. ASSUME NEW v \in Tenants, NEW n \in Names PROVE StoredAt(v, n)'
  <2>1. CASE v = w /\ n = s.name
    <3>1. specs'[v][n] = s /\ marks'[v][n] = m
      BY <1>1, <1>2, <2>1 DEF StoredOk
    <3>2. Sound(s, m, w, TemplateOf(s.template)')
      BY SoundStays
    <3> QED
      BY <2>1, <3>1, <3>2 DEF StoredAt, TemplateOf
  <2>2. CASE ~(v = w /\ n = s.name)
    <3>1. /\ specs'[v][n] = specs[v][n] /\ marks'[v][n] = marks[v][n]
          /\ n \in enabled'[v] => n \in enabled[v]
      BY <1>1, <1>2, <2>2 DEF StoredOk
    <3>2. StoredAt(v, n)
      BY DEF StoredOk
    <3>3. CASE n \in enabled[v] \/ specs[v][n] # NoSpec
      <4>1. Sound(specs[v][n], marks[v][n], v, TemplateOf(specs[v][n].template))
        BY <3>2, <3>3 DEF StoredAt
      <4> DEFINE t == specs[v][n].template
      <4>2. t = NoTemplate \/ TemplateOf(t) # NoTemplate
        BY <4>1 DEF Sound
      <4>3. (IF t \in Names THEN templates'[t] ELSE NoTemplate) = TemplateOf(t)
        BY <4>2, AssemblyAssumption DEF AssemblyAssumption, Grow, TemplateOf
      <4>4. TemplateOf(specs[v][n].template)' = TemplateOf(t)
        BY <3>1, <4>3 DEF TemplateOf
      <4> QED
        BY <3>1, <3>2, <3>3, <4>1, <4>4 DEF StoredAt
    <3>4. CASE ~(n \in enabled[v] \/ specs[v][n] # NoSpec)
      BY <3>1, <3>4 DEF StoredAt
    <3> QED
      BY <3>3, <3>4
  <2> QED
    BY <2>1, <2>2
<1> QED
  BY <1>3, <1>4 DEF StoredOk

LEMMA FrameStays ==
  ASSUME Grow, TemplatesOk, NEW f, FrameOk(f)
  PROVE  FrameOk(f)'
<1>1. TemplateOf(f.req.template)' = NoTemplate => TemplateOf(f.req.template) = NoTemplate
  BY DEF Grow, TemplateOf
<1>2. f.pc # "compile" =>
        Sound(f.spec, Minted(f.req.approved), f.req.tenant, TemplateOf(f.spec.template)')
  BY SoundStays DEF FrameOk, Frame
<1> QED
  BY <1>1, <1>2 DEF FrameOk, Frame, TemplateOf

-----------------------------------------------------------------------------
(* The stack of creations.                                                 *)

LEMMA TopOk ==
  ASSUME StackOk, frames # <<>>
  PROVE  /\ FrameOk(Top) /\ Len(frames) \in Nat \ {0}
         /\ Len(frames) > 1 => Top.req.approved = {}
<1>1. PICK S : frames \in Seq(S)
  BY DEF StackOk
<1>2. Len(frames) \in Nat \ {0} /\ Top = frames[1]
  BY <1>1 DEF Top
<1> QED
  BY <1>2 DEF StackOk

\* Where the stack stays as it is, or all is given up.
LEMMA StackStays ==
  ASSUME StackOk, TemplatesOk, Grow, frames' = frames \/ frames' = <<>>
  PROVE  StackOk'
<1>1. CASE frames' = frames
  <2>1. ASSUME NEW i \in 1..Len(frames) PROVE FrameOk(frames[i])'
    <3>1. FrameOk(frames[i])
      BY DEF StackOk
    <3> QED
      BY <1>1, <3>1, FrameStays
  <2> QED
    BY <1>1, <2>1 DEF StackOk
<1>2. CASE frames' = <<>>
  <2>1. frames' \in Seq({}) /\ Len(frames') = 0
    BY <1>2
  <2> QED
    BY <2>1 DEF StackOk
<1> QED
  BY <1>1, <1>2

\* Where the top is replaced, or returns.
LEMMA StackMoves ==
  ASSUME StackOk, TemplatesOk, Grow, frames # <<>>,
         \/ frames' = Tail(frames)
         \/ \E f : FrameOk(f) /\ f.req = Top.req /\ Continue(f)
  PROVE  StackOk'
<1>1. PICK S : frames \in Seq(S)
  BY DEF StackOk
<1>2. /\ Tail(frames) \in Seq(S) /\ Len(Tail(frames)) = Len(frames) - 1 /\ Len(frames) \in Nat \ {0}
      /\ \A i \in 1..Len(frames) - 1 : Tail(frames)[i] = frames[i + 1]
  BY <1>1
<1>3. CASE frames' = Tail(frames)
  <2>1. ASSUME NEW i \in 1..Len(frames')
        PROVE  FrameOk(frames'[i]) /\ (i < Len(frames') => frames'[i].req.approved = {})
    BY <1>2, <1>3, <2>1 DEF StackOk
  <2> QED
    BY <1>2, <1>3, <2>1, FrameStays DEF StackOk, FrameOk, Frame, TemplateOf
<1>4. ASSUME NEW f, FrameOk(f), f.req = Top.req, Continue(f) PROVE StackOk'
  <2>1. frames' = <<f>> \o Tail(frames)
    BY <1>4 DEF Continue
  <2>2. /\ <<f>> \in Seq(S \cup {f}) /\ Tail(frames) \in Seq(S \cup {f})
        /\ Len(<<f>>) = 1 /\ <<f>>[1] = f
    BY <1>2
  <2>3. /\ frames' \in Seq(S \cup {f}) /\ Len(frames') = Len(frames)
        /\ \A i \in 1..Len(frames) : frames'[i] = IF i = 1 THEN f ELSE frames[i]
    <3>1. /\ frames' \in Seq(S \cup {f}) /\ Len(frames') = 1 + Len(Tail(frames))
          /\ frames'[1] = f
          /\ \A i \in 1..Len(Tail(frames)) : frames'[i + 1] = Tail(frames)[i]
      BY <2>1, <2>2
    <3>2. ASSUME NEW i \in 2..Len(frames) PROVE frames'[i] = frames[i]
      <4>1. i - 1 \in 1..Len(Tail(frames)) /\ (i - 1) + 1 = i
        BY <1>2
      <4> QED
        BY <1>2, <3>1, <4>1
    <3> DEFINE n == Len(frames)
               m == Len(Tail(frames))
    <3>3. Len(frames') = Len(frames)
      <4>1. n \in Nat /\ m = n - 1 /\ Len(frames') = 1 + m
        BY <1>2, <3>1
      <4> HIDE DEF n, m
      <4>2. Len(frames') = n
        BY <4>1
      <4> QED
        BY <4>2 DEF n
    <3>4. ASSUME NEW i \in 1..Len(frames)
          PROVE  frames'[i] = IF i = 1 THEN f ELSE frames[i]
      <4>1. CASE i = 1
        BY <3>1, <4>1
      <4>2. CASE i # 1
        <5>1. n \in Nat /\ i \in 1..n
          BY <1>2
        <5> HIDE DEF n
        <5>2. i \in 2..n
          BY <4>2, <5>1
        <5> QED
          BY <3>2, <4>2, <5>2 DEF n
      <4> QED
        BY <4>1, <4>2
    <3> QED
      BY <3>1, <3>3, <3>4
  <2>4. Top = frames[1]
    BY <1>1 DEF Top
  <2>5. ASSUME NEW i \in 1..Len(frames')
        PROVE  FrameOk(frames'[i]) /\ (i < Len(frames') => frames'[i].req.approved = {})
    BY <1>2, <1>4, <2>3, <2>4, <2>5 DEF StackOk
  <2> QED
    BY <2>3, <2>5, FrameStays DEF StackOk, FrameOk, Frame, TemplateOf
<1> QED
  BY <1>3, <1>4

\* Where a prerequisite is begun: f, without approvals, for the creation that goes on as g.
LEMMA StackDescends ==
  ASSUME StackOk, TemplatesOk, Grow, frames # <<>>,
         NEW f, NEW g, FrameOk(f), FrameOk(g), g.req = Top.req, f.req.approved = {},
         frames' = <<f, g>> \o Tail(frames)
  PROVE  StackOk'
<1>1. PICK S : frames \in Seq(S)
  BY DEF StackOk
<1>2. /\ Tail(frames) \in Seq(S) /\ Len(Tail(frames)) = Len(frames) - 1 /\ Len(frames) \in Nat \ {0}
      /\ \A i \in 1..Len(frames) - 1 : Tail(frames)[i] = frames[i + 1]
  BY <1>1
<1>3. /\ <<f, g>> \in Seq(S \cup {f, g}) /\ Tail(frames) \in Seq(S \cup {f, g})
      /\ Len(<<f, g>>) = 2 /\ <<f, g>>[1] = f /\ <<f, g>>[2] = g
  BY <1>2
<1>4. /\ frames' \in Seq(S \cup {f, g}) /\ Len(frames') = Len(frames) + 1
      /\ \A i \in 1..Len(frames) + 1 :
           frames'[i] = IF i = 1 THEN f ELSE IF i = 2 THEN g ELSE frames[i - 1]
  BY <1>2, <1>3
<1>5. Top = frames[1]
  BY <1>1 DEF Top
<1>6. ASSUME NEW i \in 1..Len(frames')
      PROVE  FrameOk(frames'[i]) /\ (i < Len(frames') => frames'[i].req.approved = {})
  <2>1. CASE i = 1
    BY <1>4, <2>1
  <2>2. CASE i = 2
    BY <1>2, <1>4, <1>5, <2>2 DEF StackOk
  <2>3. CASE i > 2
    <3>1. i - 1 \in 1..Len(frames) /\ frames'[i] = frames[i - 1]
      BY <1>2, <1>4, <2>3
    <3>2. i < Len(frames') => i - 1 < Len(frames)
      BY <1>2, <1>4
    <3> QED
      BY <3>1, <3>2 DEF StackOk
  <2> QED
    BY <1>2, <1>4, <2>1, <2>2, <2>3
<1> QED
  BY <1>4, <1>6, FrameStays DEF StackOk, FrameOk, Frame, TemplateOf

-----------------------------------------------------------------------------
(* The steps of a creation.                                                *)

LEMMA TemplateIsNamed ==
  ASSUME TemplatesOk, NEW t
  PROVE  /\ TemplateOf(t) \in Template \cup {NoTemplate}
         /\ TemplateOf(t) # NoTemplate =>
              t \in Names /\ TemplateOf(t).name = t /\ TemplateOf(t) = templates[t]
         /\ TemplateOf(NoTemplate) = NoTemplate
BY AssemblyAssumption DEF AssemblyAssumption, TemplatesOk, TemplateOf

\* What either engine may propose.
Proposed(p) ==
  /\ p.name \in Scratch /\ p.tools \in SUBSET Tools /\ p.deps \in Seq(Dependency)
  /\ p.guard \in ProposedGuard /\ p.human \in BOOLEAN

LEMMA RulesPropose ==
  ASSUME NEW req \in Request, NEW tpl \in Template \cup {NoTemplate}
  PROVE  Proposed(FromRules(req, tpl))
<1>1. req.text.tools \in SUBSET Tools /\ req.tick \in BOOLEAN
  BY DEF Request, Text
<1>2. DefaultName \in Scratch
  BY AssemblyAssumption DEF AssemblyAssumption
<1>3. tpl # NoTemplate =>
        /\ tpl.deps \in Seq(Dependency) /\ tpl.guard \in Guardrails
        /\ DefaultGrant(tpl) \in SUBSET Tools
  BY DEF Template, DefaultGrant
<1>4. Guardrails \subseteq ProposedGuard
  BY DEF Guardrails, ProposedGuard
<1>5. [inject |-> TRUE, review |-> FALSE, pii |-> TRUE, allow |-> {}, steps |-> Unset] \in ProposedGuard
  BY DEF ProposedGuard
<1>6. <<>> \in Seq(Dependency)
  OBVIOUS
<1> HIDE DEF Unset
<1> QED
  BY <1>1, <1>2, <1>3, <1>4, <1>5, <1>6 DEF Proposed, FromRules

LEMMA NormalizeProposal ==
  ASSUME NEW p, Proposed(p), NEW req \in Request, NEW tpl \in Template \cup {NoTemplate},
         tpl = NoTemplate => req.name \in Scratch \cup {NoName}
  PROVE  LET c == Normalize(p, req, tpl)
         IN /\ c.name \in Names /\ c.tools \in SUBSET Tools /\ c.deps \in Seq(Dependency)
            /\ c.guard \in ProposedGuard /\ c.human \in BOOLEAN
            /\ c.template = IF tpl = NoTemplate THEN NoTemplate ELSE tpl.name
            /\ c.tools \cap SideEffecting # {} => c.human
            /\ tpl = NoTemplate => c.name \in Scratch
<1>1. req.name \in Names \cup {NoName} /\ req.picks \in SUBSET Tools /\ req.tick \in BOOLEAN
  BY DEF Request
<1>2. Scratch \subseteq Names
  BY AssemblyAssumption DEF AssemblyAssumption
<1>3. ASSUME NEW text, NEW risk, NEW tools
      PROVE  tools \cap SideEffecting # {} => InferReview(text, risk, tools)
  BY DEF InferReview
<1> QED
  BY <1>1, <1>2, <1>3 DEF Proposed, Normalize

LEMMA AcceptKeeps ==
  ASSUME AssemblyInv, Compiling, NEW p, Proposed(p), Accept(p)
  PROVE  AssemblyInv'
<1> DEFINE req == Top.req
           tpl == TemplateOf(req.template)
           c == Normalize(p, req, tpl)
           v == Validate(c, tpl, req.tenant, req.approved)
           f == [Top EXCEPT !.pc = "resolve", !.spec = v]
<1>1. frames # <<>> /\ StackOk /\ TemplatesOk /\ StoredOk
  BY DEF AssemblyInv, Compiling
<1>2. FrameOk(Top)
  BY <1>1, TopOk
<1>3. req \in Request /\ req.tenant \in Tenants /\ req.approved \in SUBSET Tools
  BY <1>2 DEF FrameOk, Frame, Request
<1>4. /\ tpl \in Template \cup {NoTemplate}
      /\ tpl # NoTemplate => tpl.name \in Names /\ TemplateOf(tpl.name) = tpl
      /\ TemplateOf(NoTemplate) = NoTemplate
      /\ NoTemplate \notin Names
  BY <1>1, TemplateIsNamed, AssemblyAssumption DEF AssemblyAssumption
<1>5. tpl = NoTemplate => req.name \in Scratch \cup {NoName}
  BY <1>2 DEF FrameOk, Frame
<1>6. /\ c.name \in Names /\ c.tools \in SUBSET Tools /\ c.deps \in Seq(Dependency)
      /\ c.guard \in ProposedGuard /\ c.human \in BOOLEAN
      /\ c.template = IF tpl = NoTemplate THEN NoTemplate ELSE tpl.name
      /\ c.tools \cap SideEffecting # {} => c.human
      /\ tpl = NoTemplate => c.name \in Scratch
  <2> HIDE DEF req, tpl
  <2> QED
    BY <1>3, <1>4, <1>5, NormalizeProposal
<1>7. Minted(req.approved).approved = req.approved
  BY DEF Minted, Unmarked
<1>8. Sound(v, Minted(req.approved), req.tenant, tpl)
  <2> HIDE DEF req, tpl, c
  <2> QED
    BY <1>3, <1>4, <1>6, <1>7, ValidateIsSound
<1>9. v.template = c.template /\ v.name = c.name
  BY DEF Validate
<1>10. v \in AgentSpec /\ TemplateOf(v.template) = tpl
  <2> HIDE DEF tpl, v, c
  <2> QED
    BY <1>4, <1>6, <1>8, <1>9 DEF Sound
<1>11. v.template = NoTemplate => v.name \in Scratch
  <2> HIDE DEF tpl, v, c
  <2> QED
    BY <1>4, <1>6, <1>9
<1>12. FrameOk(f) /\ f.req = Top.req
  <2> HIDE DEF tpl, v, c
  <2> QED
    BY <1>2, <1>8, <1>10, <1>11 DEF FrameOk, Frame
<1>13. Continue(f) /\ UNCHANGED store
  BY DEF Accept
<1>14. Grow /\ TemplatesOk' /\ UNCHANGED <<specs, enabled, marks>>
  BY <1>1, <1>13 DEF Grow, TemplatesOk, store
<1> HIDE DEF f
<1>15. StackOk'
  BY <1>1, <1>12, <1>13, <1>14, StackMoves
<1> QED
  BY <1>1, <1>14, <1>15, StoreStays DEF AssemblyInv

\* A creation is begun.
LEMMA OpenedIsOk ==
  ASSUME TemplatesOk, NEW req \in Request,
         TemplateOf(req.template) = NoTemplate => req.name \in Scratch \cup {NoName}
  PROVE  FrameOk(Opened(req))
<1>1. MaxAttempts \in Nat \ {0}
  BY AssemblyAssumption DEF AssemblyAssumption
<1> QED
  BY <1>1 DEF FrameOk, Frame, Opened

LEMMA SubmitKeeps ==
  ASSUME AssemblyInv, NEW req \in Requests, Submit(req)
  PROVE  AssemblyInv'
<1>1. TemplatesOk /\ StoredOk /\ StackOk /\ UNCHANGED <<specs, enabled, templates, marks>>
  BY DEF AssemblyInv, Submit, store
<1>2. Grow /\ TemplatesOk'
  BY <1>1 DEF Grow, TemplatesOk
<1>3. req \in Request
  BY AssemblyAssumption DEF AssemblyAssumption
<1>4. TemplateOf(req.template) = NoTemplate => req.name \in Scratch \cup {NoName}
  <2>1. req.template \in Names \cup {NoTemplate}
    BY <1>3 DEF Request
  <2>2. req.template = NoTemplate \/ Catalog[req.template] = NoTemplate => req.name \in Scratch \cup {NoName}
    BY AssemblyAssumption DEF AssemblyAssumption
  <2> QED
    BY <1>1, <2>1, <2>2 DEF TemplatesOk, TemplateOf
<1>5. FrameOk(Opened(req))
  BY <1>1, <1>3, <1>4, OpenedIsOk
<1>6. frames' = <<Opened(req)>> \/ frames' = <<>>
  BY DEF Submit
<1>7. StackOk'
  <2>1. CASE frames' = <<>>
    BY <1>1, <1>2, <2>1, StackStays
  <2>2. CASE frames' = <<Opened(req)>>
    <3>1. frames' \in Seq({Opened(req)}) /\ Len(frames') = 1 /\ frames'[1] = Opened(req)
      BY <2>2
    <3>2. FrameOk(frames'[1])
      BY <1>5, <3>1
    <3> QED
      BY <1>1, <3>1, <3>2 DEF StackOk, FrameOk, Frame, TemplateOf
  <2> QED
    BY <1>6, <2>1, <2>2
<1> QED
  BY <1>1, <1>2, <1>7, StoreStays DEF AssemblyInv

LEMMA RestIsOk ==
  ASSUME FrameOk(Top), Top.todo # <<>>
  PROVE  FrameOk(Rest) /\ Rest.req = Top.req
<1>1. Tail(Top.todo) \in Seq(Names)
  BY DEF FrameOk, Frame
<1> QED
  BY <1>1 DEF FrameOk, Frame, Rest

LEMMA DepsTyped ==
  ASSUME TemplatesOk, NEW w
  PROVE  Given(DepsOf, Unsatisfied(w))
<1>1. \A a \in Names : (IF templates[a] = NoTemplate THEN <<>> ELSE templates[a].deps) \in Seq(Dependency)
  BY DEF TemplatesOk, Template
<1> QED
  BY <1>1 DEF Given, DepsOf, Unsatisfied

LEMMA PrerequisitesTyped ==
  ASSUME TemplatesOk, NEW f, FrameOk(f), f.pc # "compile"
  PROVE  /\ f.spec \in AgentSpec
         /\ Prerequisites(f.spec, f.req.tenant).order \in Seq(Names)
<1>1. f.spec \in AgentSpec
  BY DEF FrameOk, Sound
<1>2. f.spec.deps \in Seq(Dependency)
  BY <1>1 DEF AgentSpec
<1>3. Given(DepsOf, Unsatisfied(f.req.tenant))
  BY DepsTyped
<1>4. Prerequisites(f.spec, f.req.tenant) \in Progress
  BY <1>2, <1>3, ChainFacts DEF Prerequisites
<1> QED
  BY <1>1, <1>4 DEF Progress

\* Steps that only move or end the creation at hand.
LEMMA AdvanceKeeps ==
  ASSUME AssemblyInv,
         \/ ModelFails \/ ValidatorRaises \/ OutOfAttempts \/ RulesFail \/ Refuse \/ Resolve
         \/ Skip \/ TooDeep
  PROVE  AssemblyInv'
<1>1. /\ TemplatesOk /\ StoredOk /\ StackOk /\ frames # <<>>
      /\ UNCHANGED <<specs, enabled, templates, marks>>
  BY DEF AssemblyInv, store, ModelFails, ValidatorRaises, OutOfAttempts, RulesFail, Refuse, Resolve,
         Skip, TooDeep, GiveUp, Compiling, Provisioning
<1>2. Grow /\ TemplatesOk'
  BY <1>1 DEF Grow, TemplatesOk
<1>3. FrameOk(Top) /\ Len(frames) \in Nat \ {0}
  BY <1>1, TopOk
<1>4. Top.todo # <<>> => FrameOk(Rest) /\ Rest.req = Top.req
  BY <1>3, RestIsOk
<1>5. \/ frames' = <<>> \/ frames' = Tail(frames)
      \/ \E f : FrameOk(f) /\ f.req = Top.req /\ Continue(f)
  <2>1. CASE ModelFails
    <3> DEFINE f == [Top EXCEPT !.attempts = @ + 1]
    <3>1. f.attempts \in 0..MaxAttempts /\ MaxAttempts \in Nat
      BY <1>3, <2>1, AssemblyAssumption DEF ModelFails, FrameOk, Frame, AssemblyAssumption
    <3>2. FrameOk(f) /\ f.req = Top.req
      BY <1>3, <3>1 DEF FrameOk, Frame
    <3>3. Continue(f)
      BY <2>1 DEF ModelFails
    <3> HIDE DEF f
    <3> QED
      BY <3>2, <3>3
  <2>2. CASE OutOfAttempts \/ RulesFail \/ Refuse
    BY <2>2 DEF OutOfAttempts, RulesFail, Refuse, GiveUp
  <2>3. CASE Resolve
    <3> DEFINE order == Prerequisites(Top.spec, Top.req.tenant).order
               f == [Top EXCEPT !.pc = "provision", !.todo = order]
    <3>1. Continue(f)
      BY <2>3 DEF Resolve
    <3>2. Top.pc = "resolve" /\ order \in Seq(Names)
      <4>1. Top.pc = "resolve"
        BY <2>3 DEF Resolve
      <4> QED
        BY <1>1, <1>3, <4>1, PrerequisitesTyped
    <3> HIDE DEF order
    <3>3. FrameOk(f) /\ f.req = Top.req
      BY <1>3, <3>2 DEF FrameOk, Frame
    <3> HIDE DEF f
    <3> QED
      BY <3>1, <3>3 DEF f
  <2>4. CASE Skip
    BY <1>4, <2>4 DEF Skip, Provisioning
  <2>5. CASE TooDeep
    BY <1>4, <2>5 DEF TooDeep, Provisioning
  <2>6. CASE ValidatorRaises
    BY <2>6 DEF ValidatorRaises
  <2> QED
    BY <2>1, <2>2, <2>3, <2>4, <2>5, <2>6
<1>6. StackOk'
  BY <1>1, <1>2, <1>5, StackMoves, StackStays
<1> QED
  BY <1>1, <1>2, <1>6, StoreStays DEF AssemblyInv

\* A prerequisite is begun with a request nobody approved anything for.
LEMMA DescendKeeps ==
  ASSUME AssemblyInv, Descend
  PROVE  AssemblyInv'
<1> DEFINE t == Head(Top.todo)
<1>1. /\ TemplatesOk /\ StoredOk /\ StackOk /\ frames # <<>>
      /\ UNCHANGED <<specs, enabled, templates, marks>>
  BY DEF AssemblyInv, store, Descend, Provisioning
<1>2. Grow /\ TemplatesOk'
  BY <1>1 DEF Grow, TemplatesOk
<1>3. FrameOk(Top) /\ Top.req.tenant \in Tenants
  BY <1>1, TopOk DEF FrameOk, Frame, Request
<1>4. FrameOk(Rest) /\ Rest.req = Top.req
  BY <1>3, RestIsOk DEF Descend, Provisioning
<1>5. TemplateOf(t) # NoTemplate
  BY DEF Descend, Creatable
<1>6. t \in Names /\ templates[t] \in Template
  <2> HIDE DEF t
  <2> QED
    BY <1>1, <1>5, TemplateIsNamed
<1>7. SubRequest(t) \in Request /\ SubRequest(t).approved = {} /\ SubRequest(t).template = t
  <2> HIDE DEF t
  <2>1. templates[t].defaults \in SUBSET Params
    BY <1>6 DEF Template
  <2> QED
    BY <1>3, <1>6, <2>1 DEF SubRequest, Request, Text
<1>8. FrameOk(Opened(SubRequest(t)))
  <2> HIDE DEF t
  <2> QED
    BY <1>1, <1>5, <1>7, OpenedIsOk
<1>9. Opened(SubRequest(t)).req.approved = {}
  <2> HIDE DEF t
  <2> QED
    BY <1>7 DEF Opened
<1>10. frames' = <<Opened(SubRequest(t)), Rest>> \o Tail(frames)
  BY DEF Descend
<1> HIDE DEF t
<1>11. StackOk'
  BY <1>1, <1>2, <1>4, <1>8, <1>9, <1>10, StackDescends
<1> QED
  BY <1>1, <1>2, <1>11, StoreStays DEF AssemblyInv

\* An agent without a template leaves one, of its own tools.
LEMMA CrystallizeGrows ==
  ASSUME TemplatesOk, NEW s \in AgentSpec, s.template = NoTemplate => s.name \in Scratch,
         Crystallize(s)
  PROVE  Grow /\ TemplatesOk'
<1>1. CASE s.template = NoTemplate /\ templates[CustomName[s.name]] = NoTemplate
  <2> DEFINE t == CustomName[s.name]
             new == [name |-> t, params |-> {NameParam}, required |-> {NameParam},
                     defaults |-> {}, deps |-> s.deps, guard |-> s.guard,
                     grantable |-> s.tools, preset |-> TRUE, required_tools |-> s.tools]
  <2>1. t \in Names /\ NameParam \in Params
    BY <1>1, AssemblyAssumption DEF AssemblyAssumption
  <2>2. s.deps \in Seq(Dependency) /\ s.guard \in Guardrails /\ s.tools \in SUBSET Tools
    BY DEF AgentSpec
  <2>3. templates' = [templates EXCEPT ![t] = new]
    BY <1>1 DEF Crystallize
  <2> HIDE DEF t
  <2>4. new \in Template /\ new.name = t
    BY <2>1, <2>2 DEF Template
  <2>5. templates[t] = NoTemplate
    BY <1>1 DEF t
  <2> HIDE DEF new
  <2> QED
    BY <2>1, <2>3, <2>4, <2>5 DEF TemplatesOk, Grow
<1>2. CASE ~(s.template = NoTemplate /\ templates[CustomName[s.name]] = NoTemplate)
  BY <1>2 DEF Crystallize, TemplatesOk, Grow
<1> QED
  BY <1>1, <1>2

LEMMA SaveKeeps ==
  ASSUME AssemblyInv, Save
  PROVE  AssemblyInv'
<1> DEFINE mark == [Unmarked EXCEPT !.approved = IF Len(frames) = 1 THEN Top.req.approved ELSE {}]
<1>1. TemplatesOk /\ StoredOk /\ StackOk /\ frames # <<>> /\ Top.pc = "provision"
  BY DEF AssemblyInv, Save, Saving
<1>2. /\ FrameOk(Top) /\ Len(frames) \in Nat \ {0}
      /\ Len(frames) > 1 => Top.req.approved = {}
  BY <1>1, TopOk
<1>3. /\ Sound(Top.spec, Minted(Top.req.approved), Top.req.tenant, TemplateOf(Top.spec.template))
      /\ Top.spec.template = NoTemplate => Top.spec.name \in Scratch
      /\ Top.req.tenant \in Tenants /\ Top.req.approved \in SUBSET Tools
  BY <1>1, <1>2 DEF FrameOk, Frame, Request
<1>4. mark = Minted(Top.req.approved)
  <2>1. CASE Len(frames) = 1
    BY <2>1 DEF Minted
  <2>2. CASE Len(frames) # 1
    <3> DEFINE n == Len(frames)
    <3>1. n \in Nat /\ n # 0 /\ n # 1 /\ (n > 1 => Top.req.approved = {})
      BY <1>2, <2>2
    <3> HIDE DEF n
    <3>2. Top.req.approved = {}
      BY <3>1
    <3> QED
      BY <2>2, <3>2 DEF Minted
  <2> QED
    BY <2>1, <2>2
<1>5. mark \in Mark
  BY <1>3, <1>4 DEF Minted, Unmarked, Mark
<1>6. SaveSpec(Top.req.tenant, Top.spec, mark) /\ Crystallize(Top.spec) /\ frames' = Tail(frames)
  BY DEF Save
<1>7. Top.spec \in AgentSpec
  BY <1>3 DEF Sound
<1>8. Grow /\ TemplatesOk'
  BY <1>1, <1>3, <1>6, <1>7, CrystallizeGrows
<1> HIDE DEF mark
<1>9. StoredOk'
  BY <1>1, <1>3, <1>4, <1>5, <1>6, <1>8, SaveStores
<1>10. StackOk'
  BY <1>1, <1>6, <1>8, StackMoves
<1> QED
  BY <1>8, <1>9, <1>10 DEF AssemblyInv

-----------------------------------------------------------------------------
(* The other requests.                                                     *)

\* What an edit makes of the guardrails and of the review flag.
LEMMA PatchedIsSpec ==
  ASSUME NEW s \in AgentSpec, NEW patch \in Patches
  PROVE  /\ Patched(s, patch) \in AgentSpec
         /\ Patched(s, patch).template = s.template /\ Patched(s, patch).tools = s.tools
         /\ Patched(s, patch).name = s.name /\ Patched(s, patch).deps = s.deps
         /\ Patched(s, patch).home = s.home /\ Patched(s, patch).acl = s.acl
         /\ DOMAIN patch.guard = {} => Patched(s, patch).guard = s.guard
<1> DEFINE mixed == [f \in DOMAIN s.guard |->
                       IF f \in DOMAIN patch.guard THEN patch.guard[f] ELSE s.guard[f]]
<1>1. s.guard \in Guardrails /\ s.human \in BOOLEAN
  BY DEF AgentSpec
<1>2. PICK g \in Guardrails : /\ DOMAIN patch.guard \subseteq DOMAIN g
                              /\ \A f \in DOMAIN patch.guard : patch.guard[f] = g[f]
  BY AssemblyAssumption DEF AssemblyAssumption
<1>3. mixed = [inject |-> mixed["inject"], review |-> mixed["review"], pii |-> mixed["pii"],
               allow |-> mixed["allow"], steps |-> mixed["steps"]]
  BY <1>1 DEF Guardrails
<1>4. \A f \in {"inject", "review", "pii", "allow", "steps"} :
        mixed[f] = g[f] \/ mixed[f] = s.guard[f]
  BY <1>1, <1>2 DEF Guardrails
<1>5. mixed \in Guardrails
  <2> HIDE DEF mixed
  <2> QED
    BY <1>1, <1>2, <1>3, <1>4 DEF Guardrails
<1>6. DOMAIN patch.guard = {} => mixed = s.guard
  BY <1>1 DEF Guardrails
<1>7. (IF patch.human = Keep THEN s.human ELSE patch.human) \in BOOLEAN
  BY <1>1, AssemblyAssumption DEF AssemblyAssumption
<1>8. Patched(s, patch) = [s EXCEPT !.human = IF patch.human = Keep THEN @ ELSE patch.human,
                                    !.guard = mixed]
  BY DEF Patched
<1> HIDE DEF mixed
<1> QED
  BY <1>5, <1>6, <1>7, <1>8 DEF AgentSpec

\* The mark an edit leaves.
MarkOfEdit(m, patch) ==
  [m EXCEPT !.edited = TRUE,
            !.approved = IF patch.tools = Keep THEN @ ELSE patch.approved,
            !.inherited = IF patch.tools = Keep THEN @ ELSE {},
            !.loose = patch.tools = Keep /\ (@ \/ DOMAIN patch.guard # {})]

\* An edit keeps a spec sound under that mark.
LEMMA RetooledIsSound ==
  ASSUME NEW tpl \in Template \cup {NoTemplate}, NEW w \in Tenants, NEW patch \in Patches,
         NEW s, NEW m \in Mark, Sound(s, m, w, tpl), tpl = TemplateOf(s.template),
         NEW m2, m2 = MarkOfEdit(m, patch),
         NEW r, r = Retooled(Patched(s, patch), patch, w)
  PROVE  m2 \in Mark /\ r.name = s.name /\ r.template = s.template /\ Sound(r, m2, w, tpl)
<1> DEFINE p == Patched(s, patch)
<1>1. /\ s \in AgentSpec
      /\ patch.tools = Keep \/ patch.tools \in SUBSET Tools
      /\ patch.approved \in SUBSET Tools
  BY AssemblyAssumption DEF Sound, AssemblyAssumption
<1>2. /\ p \in AgentSpec /\ p.template = s.template /\ p.tools = s.tools /\ p.name = s.name
      /\ p.deps = s.deps /\ p.home = s.home /\ p.acl = s.acl
      /\ DOMAIN patch.guard = {} => p.guard = s.guard
  BY <1>1, PatchedIsSpec
<1>3. /\ m2 \in Mark /\ m2.edited = TRUE /\ m2.copied = m.copied
      /\ m2.approved = IF patch.tools = Keep THEN m.approved ELSE patch.approved
      /\ m2.inherited = IF patch.tools = Keep THEN m.inherited ELSE {}
      /\ m2.loose = (patch.tools = Keep /\ (m.loose \/ DOMAIN patch.guard # {}))
  BY <1>1 DEF MarkOfEdit, Mark
<1>6. r = Retooled(p, patch, w)
  OBVIOUS
<1> HIDE DEF p
<1>4. CASE patch.tools = Keep
  <2>1. r = p
    BY <1>4, <1>6 DEF Retooled
  <2>2. ~m2.loose => Floors(p, tpl)
    BY <1>2, <1>3, <1>4 DEF Sound, Floors
  <2>3. Sound(p, m2, w, tpl)
    BY <1>2, <1>3, <1>4, <2>2 DEF Sound, Base
  <2> QED
    BY <1>2, <1>3, <2>1, <2>3
<1>5. CASE patch.tools # Keep
  <2> DEFINE c == [p EXCEPT !.tools = patch.tools]
             v == Validate(c, tpl, w, patch.approved)
  <2>1. r = [p EXCEPT !.tools = v.tools, !.guard = v.guard, !.acl = v.acl]
    BY <1>2, <1>5, <1>6 DEF Retooled
  <2>2. /\ c \in AgentSpec /\ c.tools = patch.tools /\ c.name = s.name /\ c.template = s.template
    <3>1. patch.tools \in SUBSET Tools
      BY <1>1, <1>5
    <3>2. c \in AgentSpec
      BY <1>2, <3>1 DEF AgentSpec
    <3>3. c.tools = patch.tools /\ c.name = p.name /\ c.template = p.template
      BY <1>2 DEF AgentSpec
    <3> QED
      BY <1>2, <3>2, <3>3
  <2>3. c.guard \in ProposedGuard
    BY <2>2 DEF AgentSpec, Guardrails, ProposedGuard
  <2>4. c.template = IF tpl = NoTemplate THEN NoTemplate ELSE tpl.name
    BY <2>2 DEF Sound
  <2>5. c.name \in Names /\ c.tools \in SUBSET Tools /\ c.deps \in Seq(Dependency) /\ c.human \in BOOLEAN
    BY <2>2 DEF AgentSpec
  <2> HIDE DEF c
  <2>6. Sound(v, m2, w, tpl)
    BY <1>1, <1>3, <1>5, <2>3, <2>4, <2>5, ValidateIsSound
  <2>7. v.name = c.name /\ v.acl = Base(c, tpl) /\ v.home = v.acl
    BY DEF Validate
  <2>8. Base(c, tpl) = Base(s, tpl)
    BY <2>2 DEF Base
  <2> HIDE DEF v
  <2>9. /\ r \in AgentSpec /\ r.tools = v.tools /\ r.guard = v.guard /\ r.acl = v.acl
        /\ r.home = s.home /\ r.name = s.name /\ r.template = s.template
    BY <1>2, <2>1, <2>6 DEF Sound, AgentSpec
  <2>10. ~m2.copied => r.home = Base(r, tpl) /\ r.acl = r.home
    BY <1>3, <2>7, <2>8, <2>9 DEF Sound, Base
  <2>11. Sound(r, m2, w, tpl)
    BY <1>3, <2>6, <2>9, <2>10 DEF Sound, Floors
  <2> QED
    BY <1>3, <2>9, <2>11
<1> QED
  BY <1>4, <1>5

LEMMA OtherKeeps ==
  ASSUME AssemblyInv, NEW w \in Tenants, NEW n \in Names,
         \/ \E patch \in Patches : Update(w, n, patch)
         \/ \E new \in Scratch : Duplicate(w, n, new)
         \/ Delete(w, n)
         \/ SetEnabled(w, n)
  PROVE  AssemblyInv'
<1> DEFINE s == specs[w][n]
           m == marks[w][n]
           tpl == TemplateOf(s.template)
<1>1. /\ TemplatesOk /\ StoredOk /\ StackOk /\ UNCHANGED <<frames, templates>>
  BY DEF AssemblyInv, Update, Duplicate, Delete, SetEnabled, Other
<1>2. Grow /\ TemplatesOk'
  BY <1>1 DEF Grow, TemplatesOk
<1>3. StackOk'
  BY <1>1, <1>2, StackStays
<1>4. m \in Mark /\ (n \in enabled[w] => s.name = n /\ Sound(s, m, w, tpl))
  BY <1>1 DEF StoredOk, StoredAt
<1>5. tpl \in Template \cup {NoTemplate}
  BY <1>1, TemplateIsNamed
<1>6. ASSUME NEW patch \in Patches, Update(w, n, patch) PROVE StoredOk'
  <2> DEFINE m2 == MarkOfEdit(m, patch)
             r == Retooled(Patched(s, patch), patch, w)
  <2>1. s.name = n /\ Sound(s, m, w, tpl)
    BY <1>4, <1>6 DEF Update
  <2>2. m2 \in Mark /\ r.template = s.template /\ Sound(r, m2, w, tpl)
    <3>1. tpl = TemplateOf(s.template)
      OBVIOUS
    <3>2. r = Retooled(Patched(s, patch), patch, w) /\ m2 = MarkOfEdit(m, patch)
      OBVIOUS
    <3> HIDE DEF s, m, tpl, r, m2
    <3> QED
      BY <1>4, <1>5, <1>6, <2>1, <3>1, <3>2, RetooledIsSound
  <2>3. SaveSpec(w, r, m2)
    BY <1>6 DEF Update, MarkOfEdit
  <2>4. Sound(r, m2, w, TemplateOf(r.template))
    <3> HIDE DEF r, m2
    <3> QED
      BY <2>2
  <2> HIDE DEF r, m2
  <2> QED
    BY <1>1, <1>2, <2>2, <2>3, <2>4, SaveStores
<1>7. ASSUME NEW new \in Scratch, Duplicate(w, n, new) PROVE StoredOk'
  <2> DEFINE m2 == [m EXCEPT !.approved = {}, !.inherited = @ \cup m.approved,
                             !.copied = @ \/ s.template = NoTemplate]
             r == [s EXCEPT !.name = new]
  <2>1. Sound(s, m, w, tpl)
    BY <1>4, <1>7 DEF Duplicate
  <2>2. new \in Names
    BY AssemblyAssumption DEF AssemblyAssumption
  <2>3. SaveSpec(w, r, m2)
    BY <1>7 DEF Duplicate
  <2> HIDE DEF s, m, tpl
  <2>4. /\ m2 \in Mark /\ m2.loose = m.loose /\ m2.edited = m.edited
        /\ m2.approved = {} /\ m2.inherited = m.inherited \cup m.approved
        /\ m2.copied = (m.copied \/ s.template = NoTemplate)
    BY <1>4 DEF Mark
  <2>5. s \in AgentSpec
    BY <2>1 DEF Sound
  <2>6. /\ r \in AgentSpec /\ r.tools = s.tools /\ r.guard = s.guard /\ r.human = s.human
        /\ r.home = s.home /\ r.acl = s.acl /\ r.template = s.template /\ r.name = new
    BY <2>2, <2>5 DEF AgentSpec
  <2>7. ~m2.copied => r.home = Base(r, tpl) /\ r.acl = r.home
    BY <2>1, <2>4, <2>6 DEF Sound, Base
  <2> HIDE DEF r, m2
  <2>8. Sound(r, m2, w, tpl)
    BY <2>1, <2>4, <2>6, <2>7 DEF Sound, Floors
  <2>9. Sound(r, m2, w, TemplateOf(r.template))
    BY <2>6, <2>8 DEF tpl
  <2> QED
    BY <1>1, <1>2, <2>3, <2>4, <2>9, SaveStores
<1>8. ASSUME Delete(w, n) PROVE StoredOk'
  <2>1. /\ specs' = [specs EXCEPT ![w][n] = NoSpec]
        /\ enabled' = [enabled EXCEPT ![w] = @ \ {n}]
        /\ marks' = [marks EXCEPT ![w][n] = Unmarked]
    BY <1>8 DEF Delete
  <2>2. Unmarked \in Mark
    BY DEF Unmarked, Mark
  <2>3. ASSUME NEW v \in Tenants, NEW k \in Names PROVE StoredAt(v, k)'
    BY <1>1, <2>1 DEF StoredOk, StoredAt, TemplateOf
  <2> QED
    BY <1>1, <2>1, <2>2, <2>3 DEF StoredOk
<1>9. ASSUME SetEnabled(w, n) PROVE StoredOk'
  <2>1. /\ enabled' = [enabled EXCEPT ![w] = IF n \in @ THEN @ \ {n} ELSE @ \cup {n}]
        /\ UNCHANGED <<specs, marks>> /\ specs[w][n] # NoSpec
    BY <1>9 DEF SetEnabled
  <2>2. ASSUME NEW v \in Tenants, NEW k \in Names PROVE StoredAt(v, k)'
    BY <1>1, <2>1 DEF StoredOk, StoredAt, TemplateOf
  <2> QED
    BY <1>1, <2>1, <2>2 DEF StoredOk
<1>10. StoredOk'
  BY <1>6, <1>7, <1>8, <1>9
<1> QED
  BY <1>2, <1>3, <1>10 DEF AssemblyInv

-----------------------------------------------------------------------------
(* A creation and those of its prerequisites: the stack of frames fs over  *)
(* the names P that agents offered to their tenant go by.                  *)

\* Each name with its template's.
Offers(w) == {<<n, specs[w][n].template>> : n \in enabled[w]}
Offered(P, a) == \E p \in P : p[1] = a \/ p[2] = a
Missing(P) == {a \in Names : ~Offered(P, a)}

DepsIn(tpls) == [a \in Names |-> IF tpls[a] = NoTemplate THEN <<>> ELSE tpls[a].deps]

\* A prerequisite has the name of its template, and becomes an agent of it.
Sub(f, tpls) ==
  /\ f.req.template \in Names /\ tpls[f.req.template] # NoTemplate
  /\ f.req.name = f.req.template
  /\ f.pc # "compile" => f.spec.name = f.req.template /\ f.spec.template = f.req.template

Nested(fs, w, tpls) ==
  \A i \in 1..Len(fs) : /\ fs[i].req.tenant = w
                        /\ i < Len(fs) => Sub(fs[i], tpls)
                        /\ i > 1 => fs[i].pc = "provision"

\* The spec depends on what the template does.
Native(f, tpls) ==
  f.pc # "compile" /\ f.req.template \in Names => f.spec.deps = DepsIn(tpls)[f.req.template]

AllNative(fs, tpls) == \A i \in 1..Len(fs) : Native(fs[i], tpls)

\* What is offered stays so when the prerequisites are saved, by another agent if one
\* is replaced.
Begun(fs) == {fs[i].req.template : i \in 1..(Len(fs) - 1)}
Firm(P, B, a) == \E p \in P : p[1] = a \/ (p[2] = a /\ p[1] \notin B)
Dependable(B, P, gone) == \A a \in Names : Offered(P, a) => a \in gone \/ Firm(P, B, a)

\* Every prerequisite is there, to come, under way in the frame above, or gone.
Above(fs, i) == IF i = 1 THEN NoTemplate ELSE fs[i - 1].req.template
Covered(f, above, P, gone) ==
  f.pc = "provision" => \A a \in HardDeps(f.spec.deps) :
    Offered(P, a) \/ a \in gone \/ a \in Range(f.todo) \/ a = above
AllCovered(fs, P, gone) == \A i \in 1..Len(fs) : Covered(fs[i], Above(fs, i), P, gone)

\* What frame j and those above it may get to, which is not what frame j creates.
Fence(S, fs, j, P, tpls) ==
  /\ fs[j].req.template \notin S
  /\ \A i \in 1..j : Range(fs[i].todo) \subseteq S
  /\ \A i \in 1..(j - 1) : fs[i].req.template \in S
  /\ \A a \in S : Needs(a, DepsIn(tpls), Missing(P)) \subseteq S
Fenced(fs, P, tpls) ==
  \A j \in 1..Len(fs) : fs[j].pc = "provision" => \E S \in SUBSET Names : Fence(S, fs, j, P, tpls)

NestIs(fs, w, P, tpls, gone, off) ==
  /\ Nested(fs, w, tpls)
  /\ Dependable(Begun(fs), P, off)
  /\ AllCovered(fs, P, gone)
  /\ engine = "rules" => AllNative(fs, tpls) /\ (off = {} => Fenced(fs, P, tpls))

NestInv ==
  frames # <<>> =>
    NestIs(frames, Top.req.tenant, Offers(Top.req.tenant), templates, excused \cup lost, lost)

\* How the stack moves.
LEMMA TailIs ==
  ASSUME NEW T, NEW fs \in Seq(T), fs # <<>>
  PROVE  /\ Tail(fs) \in Seq(T) /\ Len(fs) \in Nat \ {0} /\ Len(Tail(fs)) = Len(fs) - 1
         /\ \A i \in 1..Len(Tail(fs)) : Tail(fs)[i] = fs[i + 1] /\ i + 1 \in 1..Len(fs)
         /\ Head(fs) = fs[1]
         /\ Len(fs) > 1 => Tail(fs) # <<>> /\ Head(Tail(fs)) = fs[2]
<1> DEFINE n == Len(fs)
           gs == Tail(fs)
           m == Len(gs)
<1>1. gs \in Seq(T) /\ n \in Nat \ {0} /\ m = n - 1 /\ Head(fs) = fs[1]
  OBVIOUS
<1>2. \A i \in 1..m : gs[i] = fs[i + 1]
  OBVIOUS
<1> HIDE DEF n, gs, m
<1>3. \A i \in 1..m : i + 1 \in 1..n
  BY <1>1
<1>4. ASSUME n > 1 PROVE gs # <<>> /\ Head(gs) = fs[2]
  <2>1. m # 0 /\ 1 \in 1..m /\ 1 + 1 = 2
    BY <1>1, <1>4
  <2>2. gs # <<>>
    BY <2>1 DEF m
  <2>3. Head(gs) = gs[1]
    BY <1>1, <2>2
  <2> QED
    BY <1>2, <2>1, <2>2, <2>3
<1> QED
  BY <1>1, <1>2, <1>3, <1>4 DEF n, gs, m

LEMMA ReplacedIs ==
  ASSUME NEW T, NEW fs \in Seq(T), fs # <<>>, NEW f, NEW gs, gs = <<f>> \o Tail(fs)
  PROVE  /\ Len(gs) = Len(fs) /\ gs[1] = f /\ Head(gs) = f /\ gs # <<>>
         /\ \A i \in 2..Len(fs) : gs[i] = fs[i]
<1> DEFINE n == Len(fs)
           m == Len(Tail(fs))
<1>1. <<f>> \in Seq(T \cup {f}) /\ Tail(fs) \in Seq(T \cup {f}) /\ Len(<<f>>) = 1 /\ <<f>>[1] = f
  OBVIOUS
<1>2. /\ n \in Nat /\ m = n - 1 /\ n # 0 /\ \A i \in 1..m : Tail(fs)[i] = fs[i + 1]
  BY TailIs
<1>3. /\ gs \in Seq(T \cup {f}) /\ Len(gs) = 1 + m /\ gs[1] = f
      /\ \A i \in 1..m : gs[i + 1] = Tail(fs)[i]
  BY <1>1
<1> HIDE DEF n, m
<1>4. Len(gs) = n /\ gs # <<>>
  BY <1>2, <1>3
<1>5. ASSUME NEW i \in 2..n PROVE gs[i] = fs[i]
  <2>1. i - 1 \in 1..m /\ (i - 1) + 1 = i
    BY <1>2
  <2>2. gs[(i - 1) + 1] = Tail(fs)[i - 1] /\ Tail(fs)[i - 1] = fs[(i - 1) + 1]
    BY <1>2, <1>3, <2>1
  <2> QED
    BY <2>1, <2>2
<1>6. Head(gs) = f
  BY <1>3
<1> QED
  BY <1>3, <1>4, <1>5, <1>6 DEF n

LEMMA PushedIs ==
  ASSUME NEW T, NEW fs \in Seq(T), fs # <<>>, NEW f, NEW g, NEW gs, gs = <<f, g>> \o Tail(fs)
  PROVE  /\ Len(gs) = Len(fs) + 1 /\ gs[1] = f /\ gs[2] = g /\ Head(gs) = f /\ gs # <<>>
         /\ \A i \in 3..(Len(fs) + 1) : gs[i] = fs[i - 1]
<1> DEFINE n == Len(fs)
           m == Len(Tail(fs))
<1>1. /\ <<f, g>> \in Seq(T \cup {f, g}) /\ Tail(fs) \in Seq(T \cup {f, g})
      /\ Len(<<f, g>>) = 2 /\ <<f, g>>[1] = f /\ <<f, g>>[2] = g
  OBVIOUS
<1>2. /\ n \in Nat /\ m = n - 1 /\ n # 0 /\ \A i \in 1..m : Tail(fs)[i] = fs[i + 1]
  BY TailIs
<1>3. /\ gs \in Seq(T \cup {f, g}) /\ Len(gs) = 2 + m /\ gs[1] = f /\ gs[2] = g
      /\ \A i \in 1..m : gs[i + 2] = Tail(fs)[i]
  BY <1>1
<1> HIDE DEF n, m
<1>4. Len(gs) = n + 1 /\ gs # <<>>
  BY <1>2, <1>3
<1>5. ASSUME NEW i \in 3..(n + 1) PROVE gs[i] = fs[i - 1]
  <2>1. i - 2 \in 1..m /\ (i - 2) + 2 = i /\ (i - 2) + 1 = i - 1
    BY <1>2
  <2>2. gs[(i - 2) + 2] = Tail(fs)[i - 2] /\ Tail(fs)[i - 2] = fs[(i - 2) + 1]
    BY <1>2, <1>3, <2>1
  <2> QED
    BY <2>1, <2>2
<1>6. Head(gs) = f
  BY <1>3
<1> QED
  BY <1>3, <1>4, <1>5, <1>6 DEF n

\* Where what is gone grows, and what is offered stays or is gone.
Keeps(P, Q, gone) == \A a \in Names : Offered(P, a) => Offered(Q, a) \/ a \in gone

LEMMA CoveredStays ==
  ASSUME NEW f, NEW above, NEW P, NEW gone, Covered(f, above, P, gone),
         NEW Q, NEW gone2, Keeps(P, Q, gone2), gone \subseteq gone2
  PROVE  Covered(f, above, Q, gone2)
<1>1. HardDeps(f.spec.deps) \subseteq Names
  BY DEF HardDeps
<1> QED
  BY <1>1 DEF Covered, Keeps

LEMMA FenceStays ==
  ASSUME NEW S, NEW fs, NEW j, NEW P, NEW tpls, Fence(S, fs, j, P, tpls),
         NEW Q, Keeps(P, Q, {})
  PROVE  Fence(S, fs, j, Q, tpls)
<1>1. Missing(Q) \subseteq Missing(P)
  BY DEF Missing, Keeps
<1>2. \A a \in S : Needs(a, DepsIn(tpls), Missing(Q)) \subseteq Needs(a, DepsIn(tpls), Missing(P))
  BY <1>1 DEF Needs
<1> QED
  BY <1>2 DEF Fence

\* Others act.
LEMMA NestAside ==
  ASSUME NEW fs, NEW w, NEW P, NEW tpls, NEW gone, NEW off, NestIs(fs, w, P, tpls, gone, off),
         NEW Q, NEW gone2, NEW off2, gone \subseteq gone2, off \subseteq off2, off2 \subseteq gone2,
         Keeps(P, Q, off2), Dependable(Begun(fs), Q, off2)
  PROVE  NestIs(fs, w, Q, tpls, gone2, off2)
<1>1. Keeps(P, Q, gone2)
  BY DEF Keeps
<1>2. AllCovered(fs, Q, gone2)
  <2>1. ASSUME NEW i \in 1..Len(fs) PROVE Covered(fs[i], Above(fs, i), Q, gone2)
    <3>1. Covered(fs[i], Above(fs, i), P, gone)
      BY DEF NestIs, AllCovered
    <3> QED
      BY <1>1, <3>1, CoveredStays
  <2> QED
    BY <2>1 DEF AllCovered
<1>3. ASSUME engine = "rules", off2 = {} PROVE Fenced(fs, Q, tpls)
  <2>1. Fenced(fs, P, tpls) /\ Keeps(P, Q, {})
    BY <1>3 DEF NestIs
  <2> QED
    BY <2>1, FenceStays DEF Fenced
<1> QED
  BY <1>2, <1>3 DEF NestIs

\* A creation ends: what it was to provide is offered, or gone.
LEMMA NestPopped ==
  ASSUME NEW T, NEW fs \in Seq(T), Len(fs) > 1,
         NEW w, NEW P, NEW tpls, NEW gone, NEW off, NestIs(fs, w, P, tpls, gone, off),
         NEW Q, NEW gone2, gone \subseteq gone2, off \subseteq gone2, Keeps(P, Q, off),
         Dependable(Begun(fs), Q, off),
         Offered(Q, fs[1].req.template) \/ fs[1].req.template \in gone2
  PROVE  NestIs(Tail(fs), w, Q, tpls, gone2, off)
<1> DEFINE gs == Tail(fs)
           n == Len(fs)
           m == Len(gs)
<1>1. /\ n \in Nat /\ m = n - 1 /\ n > 1
      /\ \A i \in 1..m : gs[i] = fs[i + 1] /\ i + 1 \in 1..n
  BY TailIs
<1>2. Nested(fs, w, tpls) /\ AllCovered(fs, P, gone)
  BY DEF NestIs
<1> HIDE DEF gs, n, m
<1>3. Nested(gs, w, tpls)
  <2>1. ASSUME NEW i \in 1..m
        PROVE  gs[i].req.tenant = w /\ (i < m => Sub(gs[i], tpls)) /\ (i > 1 => gs[i].pc = "provision")
    <3>1. gs[i] = fs[i + 1] /\ i + 1 \in 1..n /\ (i < m => i + 1 < n) /\ (i > 1 => i + 1 > 1)
      BY <1>1
    <3> QED
      BY <1>2, <3>1 DEF Nested, n
  <2> QED
    BY <2>1 DEF Nested, m
<1>4. Begun(gs) \subseteq Begun(fs)
  <2>1. ASSUME NEW i \in 1..(m - 1)
        PROVE  gs[i] = fs[i + 1] /\ i + 1 \in 1..(n - 1)
    BY <1>1
  <2> QED
    BY <2>1 DEF Begun, m, n
<1>5. Dependable(Begun(gs), Q, off)
  BY <1>4 DEF Dependable, Firm
<1>6. AllCovered(gs, Q, gone2)
  <2>1. ASSUME NEW i \in 1..m PROVE Covered(gs[i], Above(gs, i), Q, gone2)
    <3>1. gs[i] = fs[i + 1] /\ i + 1 \in 1..n /\ i + 1 # 1 /\ (i + 1) - 1 = i
      BY <1>1
    <3>2. Covered(gs[i], fs[i].req.template, P, gone)
      BY <1>2, <3>1 DEF AllCovered, Above, n
    <3>3. Keeps(P, Q, gone2)
      BY DEF Keeps
    <3>4. Covered(gs[i], fs[i].req.template, Q, gone2)
      BY <3>2, <3>3, CoveredStays
    <3>5. CASE i = 1
      BY <3>4, <3>5 DEF Covered
    <3>6. CASE i # 1
      <4>1. i - 1 \in 1..m /\ (i - 1) + 1 = i
        BY <1>1, <3>6
      <4>2. gs[i - 1] = fs[i]
        BY <1>1, <4>1
      <4> QED
        BY <3>4, <3>6, <4>2 DEF Above
    <3> QED
      BY <3>5, <3>6
  <2> QED
    BY <2>1 DEF AllCovered, m
<1>7. ASSUME engine = "rules" PROVE AllNative(gs, tpls)
  <2>1. AllNative(fs, tpls)
    BY <1>7 DEF NestIs
  <2> QED
    BY <1>1, <2>1 DEF AllNative, n, m
<1>8. ASSUME engine = "rules", off = {} PROVE Fenced(gs, Q, tpls)
  <2>1. ASSUME NEW j \in 1..m, gs[j].pc = "provision"
        PROVE  \E S \in SUBSET Names : Fence(S, gs, j, Q, tpls)
    <3>1. gs[j] = fs[j + 1] /\ j + 1 \in 1..n
      BY <1>1
    <3>2. PICK S \in SUBSET Names : Fence(S, fs, j + 1, P, tpls)
      BY <1>8, <2>1, <3>1 DEF NestIs, Fenced, n
    <3>3. Fence(S, fs, j + 1, Q, tpls)
      BY <1>8, <3>2, FenceStays
    <3>4. \A i \in 1..j : gs[i] = fs[i + 1] /\ i + 1 \in 1..(j + 1)
      BY <1>1
    <3>5. \A i \in 1..(j - 1) : gs[i] = fs[i + 1] /\ i + 1 \in 1..((j + 1) - 1)
      BY <1>1
    <3>6. Fence(S, gs, j, Q, tpls)
      BY <3>1, <3>3, <3>4, <3>5 DEF Fence
    <3> QED
      BY <3>6
  <2> QED
    BY <2>1 DEF Fenced, m
<1>9. NestIs(gs, w, Q, tpls, gone2, off)
  BY <1>3, <1>5, <1>6, <1>7, <1>8 DEF NestIs
<1> QED
  BY <1>9 DEF gs

\* The innermost creation goes on as f.
LEMMA NestReplaced ==
  ASSUME NEW T, NEW fs \in Seq(T), fs # <<>>,
         NEW w, NEW P, NEW tpls, NEW gone, NEW off, NestIs(fs, w, P, tpls, gone, off),
         NEW gone2, gone \subseteq gone2,
         NEW f, NEW gs, gs = <<f>> \o Tail(fs), f.req = fs[1].req,
         Sub(fs[1], tpls) => Sub(f, tpls),
         Covered(f, NoTemplate, P, gone2),
         engine = "rules" => Native(f, tpls),
         engine = "rules" /\ f.pc = "provision" /\ off = {} =>
           \E S \in SUBSET Names :
             /\ f.req.template \notin S /\ Range(f.todo) \subseteq S
             /\ \A a \in S : Needs(a, DepsIn(tpls), Missing(P)) \subseteq S,
         \A S, j : engine = "rules" /\ j \in 2..Len(fs) /\ Fence(S, fs, j, P, tpls) =>
           Range(f.todo) \subseteq S
  PROVE  NestIs(gs, w, P, tpls, gone2, off)
<1> DEFINE n == Len(fs)
<1>1. /\ n \in Nat \ {0} /\ Len(gs) = n /\ gs[1] = f /\ \A i \in 2..n : gs[i] = fs[i]
  BY ReplacedIs, TailIs
<1>2. Nested(fs, w, tpls) /\ AllCovered(fs, P, gone)
  BY DEF NestIs
<1> HIDE DEF n
<1>3. \A i \in 1..n : gs[i].req = fs[i].req /\ (i = 1 \/ i \in 2..n)
  BY <1>1
<1>4. Nested(gs, w, tpls)
  <2>1. ASSUME NEW i \in 1..n
        PROVE  gs[i].req.tenant = w /\ (i < n => Sub(gs[i], tpls)) /\ (i > 1 => gs[i].pc = "provision")
    <3>1. CASE i = 1
      BY <1>1, <1>2, <1>3, <3>1 DEF Nested, n
    <3>2. CASE i \in 2..n
      BY <1>1, <1>2, <3>2 DEF Nested, n
    <3> QED
      BY <1>3, <3>1, <3>2
  <2> QED
    BY <1>1, <2>1 DEF Nested
<1>5. Begun(gs) = Begun(fs)
  <2>1. \A i \in 1..(n - 1) : gs[i].req = fs[i].req
    BY <1>1, <1>3
  <2> QED
    BY <1>1, <2>1 DEF Begun, n
<1>6. AllCovered(gs, P, gone2)
  <2>1. ASSUME NEW i \in 1..n PROVE Covered(gs[i], Above(gs, i), P, gone2)
    <3>1. CASE i = 1
      BY <1>1, <3>1 DEF Above
    <3>2. CASE i \in 2..n
      <4>1. Covered(fs[i], Above(fs, i), P, gone)
        BY <1>2 DEF AllCovered, n
      <4>2. i - 1 \in 1..n
        BY <1>1, <3>2
      <4>3. Above(gs, i) = Above(fs, i)
        BY <1>3, <4>2 DEF Above
      <4>4. Keeps(P, P, gone2)
        BY DEF Keeps
      <4> QED
        BY <1>1, <3>2, <4>1, <4>3, <4>4, CoveredStays
    <3> QED
      BY <1>3, <3>1, <3>2
  <2> QED
    BY <1>1, <2>1 DEF AllCovered
<1>7. ASSUME engine = "rules" PROVE AllNative(gs, tpls)
  <2>1. AllNative(fs, tpls)
    BY <1>7 DEF NestIs
  <2> QED
    BY <1>1, <1>3, <1>7, <2>1 DEF AllNative, n
<1>8. ASSUME engine = "rules", off = {} PROVE Fenced(gs, P, tpls)
  <2>1. ASSUME NEW j \in 1..n, gs[j].pc = "provision"
        PROVE  \E S \in SUBSET Names : Fence(S, gs, j, P, tpls)
    <3>1. CASE j = 1
      <4>1. PICK S \in SUBSET Names :
               /\ f.req.template \notin S /\ Range(f.todo) \subseteq S
               /\ \A a \in S : Needs(a, DepsIn(tpls), Missing(P)) \subseteq S
        BY <1>1, <1>8, <2>1, <3>1
      <4>2. /\ \A i \in 1..j : i = 1
            /\ \A i \in 1..(j - 1) : FALSE
        BY <3>1
      <4>3. Fence(S, gs, j, P, tpls)
        BY <1>1, <3>1, <4>1, <4>2 DEF Fence
      <4> QED
        BY <4>3
    <3>2. CASE j \in 2..n
      <4>1. PICK S \in SUBSET Names : Fence(S, fs, j, P, tpls)
        BY <1>1, <1>8, <2>1, <3>2 DEF NestIs, Fenced, n
      <4>2. Range(f.todo) \subseteq S
        BY <1>8, <3>2, <4>1 DEF n
      <4>3. \A i \in 1..j : i \in 1..n /\ (i = 1 \/ i \in 2..n)
        BY <1>1, <3>2
      <4>4. \A i \in 1..(j - 1) : i \in 1..n
        BY <1>1, <3>2
      <4>5. \A i \in 1..j : Range(gs[i].todo) \subseteq S
        BY <1>1, <4>1, <4>2, <4>3 DEF Fence
      <4>6. gs[j].req = fs[j].req /\ \A i \in 1..(j - 1) : gs[i].req = fs[i].req
        BY <1>3, <4>4
      <4>7. Fence(S, gs, j, P, tpls)
        BY <4>1, <4>5, <4>6 DEF Fence
      <4> QED
        BY <4>7
    <3> QED
      BY <1>3, <3>1, <3>2
  <2> QED
    BY <1>1, <2>1 DEF Fenced
<1>9. Dependable(Begun(gs), P, off)
  BY <1>5 DEF NestIs
<1> QED
  BY <1>4, <1>6, <1>7, <1>8, <1>9 DEF NestIs

\* A prerequisite t is begun as f, for the creation that goes on as g.
LEMMA NestPushed ==
  ASSUME NEW T, NEW fs \in Seq(T), fs # <<>>,
         NEW w, NEW P, NEW tpls, NEW gone, NEW off, NestIs(fs, w, P, tpls, gone, off),
         NEW f, NEW g, NEW gs, gs = <<f, g>> \o Tail(fs),
         g.req = fs[1].req, g.spec = fs[1].spec, g.pc = "provision", fs[1].pc = "provision",
         NEW t \in Names, Range(fs[1].todo) = Range(g.todo) \cup {t}, ~Offered(P, t),
         f.req.template = t, f.req.tenant = w, Sub(f, tpls), f.pc = "compile", f.todo = <<>>
  PROVE  NestIs(gs, w, P, tpls, gone, off)
<1> DEFINE n == Len(fs)
<1>1. /\ n \in Nat \ {0} /\ Len(gs) = n + 1 /\ gs[1] = f /\ gs[2] = g
      /\ \A i \in 3..(n + 1) : gs[i] = fs[i - 1]
  BY PushedIs, TailIs
<1>2. Nested(fs, w, tpls) /\ AllCovered(fs, P, gone) /\ Dependable(Begun(fs), P, off)
  BY DEF NestIs
<1> HIDE DEF n
<1>3. \A i \in 1..(n + 1) : i = 1 \/ i = 2 \/ (i \in 3..(n + 1) /\ i - 1 \in 2..n)
  BY <1>1
<1>4. \A i \in 2..(n + 1) : gs[i].req = fs[i - 1].req /\ i - 1 \in 1..n
  BY <1>1, <1>3
<1>5. Nested(gs, w, tpls)
  <2>1. ASSUME NEW i \in 1..(n + 1)
        PROVE  /\ gs[i].req.tenant = w /\ (i < n + 1 => Sub(gs[i], tpls))
               /\ (i > 1 => gs[i].pc = "provision")
    <3>1. CASE i = 1
      BY <1>1, <3>1
    <3>2. CASE i = 2
      <4>1. 1 \in 1..n /\ (2 < n + 1 => 1 < n)
        BY <1>1
      <4>2. fs[1].req.tenant = w /\ (1 < n => Sub(fs[1], tpls))
        BY <1>2, <4>1 DEF Nested, n
      <4>3. Sub(fs[1], tpls) => Sub(g, tpls)
        BY DEF Sub
      <4> QED
        BY <1>1, <3>2, <4>1, <4>2, <4>3
    <3>3. CASE i \in 3..(n + 1)
      <4>1. i - 1 \in 1..n /\ (i < n + 1 => i - 1 < n) /\ i - 1 > 1 /\ gs[i] = fs[i - 1]
        BY <1>1, <3>3
      <4> QED
        BY <1>2, <4>1 DEF Nested, n
    <3> QED
      BY <1>3, <3>1, <3>2, <3>3
  <2> QED
    BY <1>1, <2>1 DEF Nested
<1>6. Begun(gs) \subseteq Begun(fs) \cup {t}
  <2>1. ASSUME NEW i \in 1..n PROVE gs[i].req.template \in Begun(fs) \cup {t}
    <3>1. CASE i = 1
      BY <1>1, <3>1
    <3>2. CASE i # 1
      <4>1. i \in 2..(n + 1) /\ i - 1 \in 1..(n - 1)
        BY <1>1, <3>2
      <4> QED
        BY <1>4, <4>1 DEF Begun, n
    <3> QED
      BY <3>1, <3>2
  <2>2. Len(gs) - 1 = n
    BY <1>1
  <2> QED
    BY <2>1, <2>2 DEF Begun
<1>7. Dependable(Begun(gs), P, off)
  <2>1. ASSUME NEW a \in Names, Offered(P, a), a \notin off PROVE Firm(P, Begun(gs), a)
    <3>1. PICK p \in P : p[1] = a \/ (p[2] = a /\ p[1] \notin Begun(fs))
      BY <1>2, <2>1 DEF Dependable, Firm
    <3>2. p[1] # t
      BY DEF Offered
    <3> QED
      BY <1>6, <3>1, <3>2 DEF Firm
  <2> QED
    BY <2>1 DEF Dependable
<1>8. AllCovered(gs, P, gone)
  <2>1. ASSUME NEW i \in 1..(n + 1) PROVE Covered(gs[i], Above(gs, i), P, gone)
    <3>1. CASE i = 1
      BY <1>1, <3>1 DEF Covered
    <3>2. CASE i = 2
      <4>1. Above(gs, 2) = t
        BY <1>1 DEF Above
      <4>2. 1 \in 1..n /\ Above(fs, 1) = NoTemplate /\ NoTemplate \notin Names
        BY <1>1, AssemblyAssumption DEF Above, AssemblyAssumption
      <4>3. Covered(fs[1], NoTemplate, P, gone)
        BY <1>2, <4>2 DEF AllCovered, n
      <4>4. HardDeps(g.spec.deps) \subseteq Names
        BY DEF HardDeps
      <4>5. Covered(g, t, P, gone)
        BY <4>2, <4>3, <4>4 DEF Covered
      <4> QED
        BY <1>1, <3>2, <4>1, <4>5
    <3>3. CASE i \in 3..(n + 1)
      <4>1. i - 1 \in 2..n /\ i - 1 \in 1..n /\ i - 1 \in 2..(n + 1) /\ i # 1 /\ i - 1 # 1
        BY <1>1, <3>3
      <4>2. gs[i] = fs[i - 1] /\ gs[i - 1].req = fs[(i - 1) - 1].req
        BY <1>1, <1>4, <3>3, <4>1
      <4>3. Above(gs, i) = Above(fs, i - 1)
        BY <4>1, <4>2 DEF Above
      <4>4. Covered(fs[i - 1], Above(fs, i - 1), P, gone)
        BY <1>2, <4>1 DEF AllCovered, n
      <4> QED
        BY <4>2, <4>3, <4>4
    <3> QED
      BY <1>3, <3>1, <3>2, <3>3
  <2> QED
    BY <1>1, <2>1 DEF AllCovered
<1>9. ASSUME engine = "rules" PROVE AllNative(gs, tpls)
  <2>1. AllNative(fs, tpls)
    BY <1>9 DEF NestIs
  <2>2. ASSUME NEW i \in 1..(n + 1) PROVE Native(gs[i], tpls)
    <3>1. CASE i = 1
      BY <1>1, <3>1 DEF Native
    <3>2. CASE i = 2
      <4>1. Native(fs[1], tpls)
        BY <1>1, <2>1 DEF AllNative, n
      <4> QED
        BY <1>1, <3>2, <4>1 DEF Native
    <3>3. CASE i \in 3..(n + 1)
      <4>1. i - 1 \in 1..n /\ gs[i] = fs[i - 1]
        BY <1>1, <3>3
      <4> QED
        BY <2>1, <4>1 DEF AllNative, n
    <3> QED
      BY <1>3, <3>1, <3>2, <3>3
  <2> QED
    BY <1>1, <2>2 DEF AllNative
<1>10. ASSUME engine = "rules", off = {} PROVE Fenced(gs, P, tpls)
  <2>1. ASSUME NEW j \in 1..(n + 1), gs[j].pc = "provision"
        PROVE  \E S \in SUBSET Names : Fence(S, gs, j, P, tpls)
    <3>1. j # 1
      BY <1>1, <2>1
    <3>2. j \in 2..(n + 1) /\ j - 1 \in 1..n
      BY <1>1, <3>1
    <3>3. fs[j - 1].pc = "provision"
      BY <1>1, <1>3, <2>1, <3>1
    <3>4. PICK S \in SUBSET Names : Fence(S, fs, j - 1, P, tpls)
      BY <1>10, <3>2, <3>3 DEF NestIs, Fenced, n
    <3>5. Range(fs[1].todo) \subseteq S /\ t \in S /\ Range(g.todo) \subseteq S
      <4>1. 1 \in 1..(j - 1)
        BY <3>2
      <4> QED
        BY <3>4, <4>1 DEF Fence
    <3>6. Range(<<>>) = {}
      BY DEF Range
    <3>7. ASSUME NEW i \in 1..j PROVE Range(gs[i].todo) \subseteq S
      <4>1. CASE i = 1
        BY <1>1, <3>6, <4>1
      <4>2. CASE i = 2
        BY <1>1, <3>5, <4>2
      <4>3. CASE i # 1 /\ i # 2
        <5>1. i \in 3..(n + 1) /\ i - 1 \in 1..(j - 1)
          BY <1>1, <3>2, <4>3
        <5>2. gs[i] = fs[i - 1]
          BY <1>1, <5>1
        <5> QED
          BY <3>4, <5>1, <5>2 DEF Fence
      <4> QED
        BY <4>1, <4>2, <4>3
    <3>8. ASSUME NEW i \in 1..(j - 1) PROVE gs[i].req.template \in S
      <4>1. CASE i = 1
        BY <1>1, <3>5, <4>1
      <4>2. CASE i # 1
        <5>1. i \in 2..(n + 1) /\ i - 1 \in 1..((j - 1) - 1)
          BY <1>1, <3>2, <4>2
        <5>2. gs[i].req = fs[i - 1].req
          BY <1>4, <5>1
        <5> QED
          BY <3>4, <5>1, <5>2 DEF Fence
      <4> QED
        BY <4>1, <4>2
    <3>9. gs[j].req.template \notin S
      BY <1>4, <3>2, <3>4 DEF Fence
    <3>10. Fence(S, gs, j, P, tpls)
      BY <3>4, <3>7, <3>8, <3>9 DEF Fence
    <3> QED
      BY <3>10
  <2> QED
    BY <1>1, <2>1 DEF Fenced
<1> QED
  BY <1>5, <1>7, <1>8, <1>9, <1>10 DEF NestIs

-----------------------------------------------------------------------------
(* The steps of a creation keep the stack so.                              *)

LEMMA OffersAre ==
  ASSUME NEW w
  PROVE  /\ \A a \in Names : Satisfied(w, a) <=> Offered(Offers(w), a)
         /\ Unsatisfied(w) = Missing(Offers(w))
         /\ DepsOf = DepsIn(templates)
<1>1. ASSUME NEW a PROVE Satisfied(w, a) <=> Offered(Offers(w), a)
  <2>1. ASSUME Satisfied(w, a) PROVE Offered(Offers(w), a)
    <3>1. PICK n \in enabled[w] : n = a \/ specs[w][n].template = a
      BY <2>1 DEF Satisfied
    <3> DEFINE p == <<n, specs[w][n].template>>
    <3>2. p \in Offers(w) /\ p[1] = n /\ p[2] = specs[w][n].template
      BY DEF Offers
    <3> HIDE DEF p
    <3> QED
      BY <3>1, <3>2 DEF Offered
  <2>2. ASSUME Offered(Offers(w), a) PROVE Satisfied(w, a)
    <3>1. PICK n \in enabled[w] :
            <<n, specs[w][n].template>>[1] = a \/ <<n, specs[w][n].template>>[2] = a
      BY <2>2 DEF Offered, Offers
    <3> QED
      BY <3>1 DEF Satisfied
  <2> QED
    BY <2>1, <2>2
<1>2. DepsOf = DepsIn(templates)
  BY DEF DepsOf, DepsIn
<1> QED
  BY <1>1, <1>2 DEF Unsatisfied, Missing

\* After a step.
OffersNext(w) == {<<n, specs'[w][n].template>> : n \in enabled'[w]}

LEMMA NestsNext ==
  ASSUME engine' = engine,
         frames' # <<>> => \E w : /\ w = Head(frames').req.tenant
                                  /\ NestIs(frames', w, OffersNext(w), templates', excused' \cup lost', lost')
  PROVE  NestInv'
<1> SUFFICES ASSUME frames' # <<>>
    PROVE  NestIs(frames, Top.req.tenant, Offers(Top.req.tenant), templates, excused \cup lost, lost)'
  BY DEF NestInv
<1>1. PICK w : /\ w = Head(frames').req.tenant
               /\ NestIs(frames', w, OffersNext(w), templates', excused' \cup lost', lost')
  OBVIOUS
<1>2. Top'.req.tenant = w
  BY <1>1 DEF Top
<1>3. Offers(Top.req.tenant)' = OffersNext(w)
  BY <1>2 DEF Offers, OffersNext
<1> QED
  BY <1>1, <1>2, <1>3 DEF NestIs

\* A step that leaves the store alone.
LEMMA NestsOn ==
  ASSUME engine' = engine, UNCHANGED store, AssemblyInv',
         frames' # <<>> => NestIs(frames', Top.req.tenant, Offers(Top.req.tenant), templates,
                                  excused' \cup lost', lost')
  PROVE  NestInv'
<1> DEFINE w == Top.req.tenant
<1>1. UNCHANGED <<specs, enabled, templates>>
  BY DEF store
<1>2. OffersNext(w) = Offers(w)
  BY <1>1 DEF Offers, OffersNext
<1>3. ASSUME frames' # <<>>
      PROVE  /\ w = Head(frames').req.tenant
             /\ NestIs(frames', w, OffersNext(w), templates', excused' \cup lost', lost')
  <2>1. NestIs(frames', w, Offers(w), templates, excused' \cup lost', lost')
    BY <1>3
  <2>2. Nested(frames', w, templates)
    BY <2>1 DEF NestIs
  <2>3. PICK S : frames' \in Seq(S)
    BY DEF AssemblyInv, StackOk
  <2>4. Head(frames') = frames'[1] /\ 1 \in 1..Len(frames')
    BY <1>3, <2>3
  <2>5. frames'[1].req.tenant = w
    BY <2>2, <2>4 DEF Nested
  <2> HIDE DEF w
  <2> QED
    BY <1>1, <1>2, <2>1, <2>4, <2>5
<1> QED
  BY <1>3, NestsNext

LEMMA NestTop ==
  ASSUME AssemblyInv, NestInv, frames # <<>>
  PROVE  /\ \E T : frames \in Seq(T)
         /\ Top = frames[1] /\ Len(frames) \in Nat \ {0} /\ 1 \in 1..Len(frames)
         /\ NestIs(frames, Top.req.tenant, Offers(Top.req.tenant), templates, excused \cup lost, lost)
         /\ FrameOk(Top)
         /\ Len(frames) > 1 => Sub(Top, templates)
<1>1. PICK T : frames \in Seq(T)
  BY DEF AssemblyInv, StackOk
<1>2. Top = frames[1] /\ Len(frames) \in Nat \ {0} /\ 1 \in 1..Len(frames)
  BY <1>1 DEF Top
<1>3. NestIs(frames, Top.req.tenant, Offers(Top.req.tenant), templates, excused \cup lost, lost)
  BY DEF NestInv
<1>4. Len(frames) > 1 => Sub(Top, templates)
  BY <1>2, <1>3 DEF NestIs, Nested
<1> QED
  BY <1>1, <1>2, <1>3, <1>4, TopOk DEF AssemblyInv

LEMMA GiveUpNests ==
  ASSUME AssemblyInv, NestInv, frames # <<>>, GiveUp, AssemblyInv'
  PROVE  NestInv'
<1> DEFINE w == Top.req.tenant
           P == Offers(w)
           gone == excused \cup lost
           gone2 == excused' \cup lost'
<1>1. PICK T : frames \in Seq(T)
  BY NestTop
<1>2. /\ Top = frames[1] /\ Len(frames) \in Nat \ {0}
      /\ NestIs(frames, w, P, templates, gone, lost)
      /\ Len(frames) > 1 => Sub(Top, templates)
  BY NestTop
<1>3. /\ engine' = engine /\ UNCHANGED store /\ lost' = lost /\ frames' = Tail(frames)
      /\ excused' = excused \cup ({Top.req.template} \ {NoTemplate})
  BY DEF GiveUp
<1>4. ASSUME frames' # <<>> PROVE NestIs(frames', w, P, templates, gone2, lost')
  <2>1. Len(frames) > 1
    <3>1. Len(Tail(frames)) = Len(frames) - 1 /\ Tail(frames) \in Seq(T)
      BY <1>1, TailIs, <1>2
    <3>2. Len(Tail(frames)) # 0 /\ Len(Tail(frames)) \in Nat
      BY <1>3, <1>4, <3>1
    <3> QED
      BY <1>2, <3>1, <3>2
  <2>2. Top.req.template \in gone2
    <3>1. Top.req.template \in Names /\ NoTemplate \notin Names
      BY <1>2, <2>1, AssemblyAssumption DEF Sub, AssemblyAssumption
    <3> QED
      BY <1>3, <3>1
  <2>3. Dependable(Begun(frames), P, lost)
    BY <1>2 DEF NestIs
  <2>4. Keeps(P, P, lost) /\ gone \subseteq gone2 /\ lost \subseteq gone2
    BY <1>3 DEF Keeps
  <2> HIDE DEF w, P, gone, gone2
  <2>5. NestIs(Tail(frames), w, P, templates, gone2, lost)
    BY <1>1, <1>2, <2>1, <2>2, <2>3, <2>4, NestPopped
  <2> QED
    BY <1>3, <2>5
<1> QED
  BY <1>3, <1>4, NestsOn

\* The top goes on as f, with no more to do than before.
LEMMA ContinueNests ==
  ASSUME AssemblyInv, NestInv, frames # <<>>, AssemblyInv',
         UNCHANGED <<engine, store, lost>>, excused \subseteq excused',
         NEW f, Continue(f), f.req = Top.req,
         Sub(Top, templates) => Sub(f, templates),
         Covered(f, NoTemplate, Offers(Top.req.tenant), excused' \cup lost),
         engine = "rules" => Native(f, templates),
         f.pc = "provision" => Top.pc = "provision",
         Range(f.todo) \subseteq Range(Top.todo)
  PROVE  NestInv'
<1> DEFINE w == Top.req.tenant
           P == Offers(w)
           gone == excused \cup lost
           gone2 == excused' \cup lost'
<1>1. PICK T : frames \in Seq(T)
  BY NestTop
<1>2. /\ Top = frames[1] /\ 1 \in 1..Len(frames)
      /\ NestIs(frames, w, P, templates, gone, lost)
  BY NestTop
<1>3. frames' = <<f>> \o Tail(frames) /\ gone \subseteq gone2
  BY DEF Continue
<1>4. ASSUME engine = "rules", f.pc = "provision", lost = {}
      PROVE  \E S \in SUBSET Names :
               /\ f.req.template \notin S /\ Range(f.todo) \subseteq S
               /\ \A a \in S : Needs(a, DepsIn(templates), Missing(P)) \subseteq S
  <2>1. PICK S \in SUBSET Names : Fence(S, frames, 1, P, templates)
    BY <1>2, <1>4 DEF NestIs, Fenced
  <2>2. 1 \in 1..1
    OBVIOUS
  <2> QED
    BY <1>2, <2>1, <2>2 DEF Fence
<1>5. ASSUME NEW S, NEW j \in 2..Len(frames), Fence(S, frames, j, P, templates)
      PROVE  Range(f.todo) \subseteq S
  <2>1. 1 \in 1..j
    OBVIOUS
  <2> QED
    BY <1>2, <1>5, <2>1 DEF Fence
<1>6. Covered(f, NoTemplate, P, gone2)
  OBVIOUS
<1> HIDE DEF w, P, gone, gone2
<1>7. NestIs(frames', w, P, templates, gone2, lost)
  BY <1>1, <1>2, <1>3, <1>4, <1>5, <1>6, NestReplaced
<1> QED
  BY <1>7, NestsOn DEF w, P, gone2

\* What is to do, first and rest.
LEMMA RestOfTodo ==
  ASSUME NEW todo \in Seq(Names), todo # <<>>
  PROVE  Head(todo) \in Names /\ Range(todo) = Range(Tail(todo)) \cup {Head(todo)}
<1> DEFINE n == Len(todo)
           m == Len(Tail(todo))
<1>1. /\ todo # <<>> /\ n \in Nat \ {0} /\ m = n - 1 /\ Tail(todo) \in Seq(Names)
      /\ \A i \in 1..m : Tail(todo)[i] = todo[i + 1] /\ i + 1 \in 1..n
      /\ Head(todo) = todo[1]
  BY TailIs
<1>2. Range(todo) = {todo[i] : i \in 1..n} /\ Range(Tail(todo)) = {Tail(todo)[i] : i \in 1..m}
  <2>1. DOMAIN todo = 1..n /\ DOMAIN Tail(todo) = 1..m
    BY <1>1
  <2> QED
    BY <2>1, Zenon DEF Range
<1> HIDE DEF n, m
<1>3. 1 \in 1..n /\ \A i \in 1..n : i = 1 \/ (i - 1 \in 1..m /\ (i - 1) + 1 = i)
  BY <1>1
<1>4. ASSUME NEW i \in 1..n, i # 1 PROVE todo[i] \in Range(Tail(todo))
  <2>1. i - 1 \in 1..m /\ Tail(todo)[i - 1] = todo[i]
    BY <1>1, <1>3, <1>4
  <2> QED
    BY <1>2, <2>1
<1>5. \A i \in 1..n : todo[i] = Head(todo) \/ todo[i] \in Range(Tail(todo))
  BY <1>1, <1>4
<1>6. Head(todo) \in Range(todo) /\ Range(Tail(todo)) \subseteq Range(todo)
  BY <1>1, <1>2, <1>3
<1>7. Head(todo) \in Names
  OBVIOUS
<1> QED
  BY <1>2, <1>5, <1>6, <1>7

LEMMA ModelFailsNests ==
  ASSUME AssemblyInv, NestInv, AssemblyInv', ModelFails
  PROVE  NestInv'
<1> DEFINE f == [Top EXCEPT !.attempts = @ + 1]
<1>1. /\ frames # <<>> /\ Top.pc = "compile" /\ Continue(f)
      /\ UNCHANGED <<engine, store, lost>> /\ excused \subseteq excused'
  BY DEF ModelFails, Compiling
<1>2. Top \in Frame
  BY <1>1, NestTop DEF FrameOk
<1>3. f.req = Top.req /\ f.pc = "compile" /\ f.todo = Top.todo
  BY <1>1, <1>2 DEF Frame
<1> HIDE DEF f
<1>4. Sub(Top, templates) => Sub(f, templates)
  BY <1>3 DEF Sub
<1>5. Covered(f, NoTemplate, Offers(Top.req.tenant), excused' \cup lost) /\ Native(f, templates)
  BY <1>3 DEF Covered, Native
<1> QED
  BY <1>1, <1>3, <1>4, <1>5, ContinueNests

LEMMA AcceptNests ==
  ASSUME AssemblyInv, NestInv, AssemblyInv', Compiling, NEW p, Accept(p),
         engine = "rules" => p.deps = IF TemplateOf(Top.req.template) = NoTemplate THEN <<>>
                                      ELSE TemplateOf(Top.req.template).deps
  PROVE  NestInv'
<1> DEFINE req == Top.req
           tpl == TemplateOf(req.template)
           c == Normalize(p, req, tpl)
           v == Validate(c, tpl, req.tenant, req.approved)
           f == [Top EXCEPT !.pc = "resolve", !.spec = v]
<1>1. /\ frames # <<>> /\ Continue(f) /\ UNCHANGED <<engine, store, lost>> /\ excused \subseteq excused'
      /\ TemplatesOk
  BY DEF Accept, Compiling, AssemblyInv
<1>2. Top \in Frame
  BY <1>1, NestTop DEF FrameOk
<1>3. /\ v.name = (IF req.name = NoName THEN p.name ELSE req.name)
      /\ v.template = (IF tpl = NoTemplate THEN NoTemplate ELSE tpl.name)
      /\ v.deps = p.deps
  BY DEF Validate, Normalize
<1>4. /\ tpl # NoTemplate => req.template \in Names /\ tpl.name = req.template /\ tpl = templates[req.template]
      /\ req.template \in Names => tpl = templates[req.template]
  <2>1. req.template \in Names => tpl = templates[req.template]
    BY DEF TemplateOf
  <2> QED
    BY <1>1, <2>1, TemplateIsNamed
<1> HIDE DEF v, c
<1>5. f.req = req /\ f.pc = "resolve" /\ f.spec = v /\ f.todo = Top.todo
  BY <1>2 DEF Frame
<1> HIDE DEF f
<1>6. Sub(Top, templates) => Sub(f, templates)
  <2>1. NoName \notin Names
    BY AssemblyAssumption DEF AssemblyAssumption
  <2> QED
    BY <1>3, <1>4, <1>5, <2>1 DEF Sub
<1>7. Covered(f, NoTemplate, Offers(Top.req.tenant), excused' \cup lost)
  BY <1>5 DEF Covered
<1>8. engine = "rules" => Native(f, templates)
  <2> SUFFICES ASSUME engine = "rules", req.template \in Names
               PROVE  v.deps = DepsIn(templates)[req.template]
    BY <1>5 DEF Native
  <2>1. p.deps = IF tpl = NoTemplate THEN <<>> ELSE tpl.deps
    OBVIOUS
  <2> HIDE DEF tpl, req
  <2> QED
    BY <1>3, <1>4, <2>1 DEF DepsIn
<1> QED
  BY <1>1, <1>5, <1>6, <1>7, <1>8, ContinueNests

\* The next prerequisite is there, or is given up.
LEMMA RestNests ==
  ASSUME AssemblyInv, NestInv, AssemblyInv', Provisioning, Continue(Rest),
         UNCHANGED <<engine, store, lost>>, excused \subseteq excused',
         Head(Top.todo) \in excused' \/ Satisfied(Top.req.tenant, Head(Top.todo))
  PROVE  NestInv'
<1> DEFINE P == Offers(Top.req.tenant)
<1>1. frames # <<>> /\ Top.pc = "provision" /\ Top.todo # <<>>
  BY DEF Provisioning
<1>2. Top \in Frame /\ Top.todo \in Seq(Names)
  BY <1>1, NestTop DEF FrameOk, Frame
<1>3. Rest.req = Top.req /\ Rest.pc = Top.pc /\ Rest.spec = Top.spec /\ Rest.todo = Tail(Top.todo)
  BY <1>2 DEF Frame, Rest
<1>4. /\ Head(Top.todo) \in Names /\ Range(Top.todo) = Range(Rest.todo) \cup {Head(Top.todo)}
  BY <1>1, <1>2, <1>3, RestOfTodo
<1>5. Head(Top.todo) \in excused' \/ Offered(P, Head(Top.todo))
  BY <1>4, OffersAre
<1>6. NestIs(frames, Top.req.tenant, P, templates, excused \cup lost, lost) /\ Top = frames[1] /\ 1 \in 1..Len(frames)
  BY <1>1, NestTop
<1>7. Sub(Top, templates) => Sub(Rest, templates)
  BY <1>3 DEF Sub
<1>8. Covered(Rest, NoTemplate, P, excused' \cup lost)
  <2>1. Covered(Top, NoTemplate, P, excused \cup lost)
    BY <1>6 DEF NestIs, AllCovered, Above
  <2>2. HardDeps(Top.spec.deps) \subseteq Names
    BY DEF HardDeps
  <2>3. ASSUME NEW a \in HardDeps(Top.spec.deps)
        PROVE  Offered(P, a) \/ a \in excused' \cup lost \/ a \in Range(Rest.todo) \/ a = NoTemplate
    <3>1. Offered(P, a) \/ a \in excused \cup lost \/ a \in Range(Top.todo) \/ a = NoTemplate
      BY <1>1, <2>1 DEF Covered
    <3>2. a \in Range(Top.todo) => a \in Range(Rest.todo) \/ a = Head(Top.todo)
      BY <1>4
    <3>3. a = Head(Top.todo) => a \in excused' \/ Offered(P, a)
      BY <1>5
    <3> HIDE DEF P
    <3> QED
      BY <3>1, <3>2, <3>3
  <2> QED
    BY <1>3, <2>3 DEF Covered
<1>9. engine = "rules" => Native(Rest, templates)
  BY <1>3, <1>6 DEF NestIs, AllNative, Native
<1> QED
  BY <1>1, <1>3, <1>4, <1>7, <1>8, <1>9, ContinueNests

LEMMA SkipNests ==
  ASSUME AssemblyInv, NestInv, AssemblyInv', Skip
  PROVE  NestInv'
<1> DEFINE t == Head(Top.todo)
           w == Top.req.tenant
<1>1. /\ Provisioning /\ Continue(Rest) /\ UNCHANGED <<engine, store, lost>>
      /\ excused' = excused \cup ({t} \cap Unsatisfied(w))
  BY DEF Skip
<1>2. t \in Names
  <2>1. Top.todo \in Seq(Names) /\ Top.todo # <<>>
    BY <1>1, NestTop DEF FrameOk, Frame, Provisioning
  <2> QED
    BY <2>1
<1>3. t \in excused' \/ Satisfied(w, t)
  <2> HIDE DEF t, w
  <2> QED
    BY <1>1, <1>2 DEF Unsatisfied
<1> QED
  BY <1>1, <1>3, RestNests

LEMMA TooDeepNests ==
  ASSUME AssemblyInv, NestInv, AssemblyInv', TooDeep
  PROVE  NestInv'
<1>1. CASE frames' = <<>>
  <2>1. engine' = engine
    BY DEF TooDeep
  <2> QED
    BY <1>1, <2>1, NestsNext
<1>2. CASE Continue(Rest) /\ excused' = excused \cup {Head(Top.todo)}
  <2>1. Provisioning /\ UNCHANGED <<engine, store, lost>>
    BY DEF TooDeep
  <2> QED
    BY <1>2, <2>1, RestNests
<1> QED
  BY <1>1, <1>2 DEF TooDeep

\* An agent is not among its own prerequisites, where there is no cycle.
LEMMA NotNeededByItself ==
  ASSUME NEW depsOf, NEW unsat, Given(depsOf, unsat), NEW t \in Names,
         NEW order \in Seq(Names), NEW needed, needed = Needed(depsOf[t], depsOf, unsat),
         NEW acc, acc.order = order, Sane(acc, depsOf, unsat), Range(order) = needed
  PROVE  t \notin needed
<1> SUFFICES ASSUME t \in needed PROVE FALSE
  OBVIOUS
<1>1. DOMAIN order = 1..Len(order) /\ Len(order) \in Nat
  OBVIOUS
<1>2. PICK i \in DOMAIN order : order[i] = t
  BY DEF Range
<1> DEFINE S == {order[k] : k \in 1..(i - 1)}
<1>3. 1..(i - 1) \subseteq DOMAIN order /\ i \notin 1..(i - 1)
  BY <1>1, <1>2
<1>4. S \subseteq needed
  BY <1>3 DEF Range
<1>5. ASSUME NEW k \in DOMAIN order, k \in 1..i PROVE Needs(order[k], depsOf, unsat) \subseteq S
  <2>1. \A b \in Needs(order[k], depsOf, unsat) : \E j \in 1..(k - 1) : order[j] = b
    BY DEF Sane
  <2>2. 1..(k - 1) \subseteq 1..(i - 1)
    BY <1>1, <1>2, <1>5
  <2> QED
    BY <2>1, <2>2
<1>6. HardDeps(depsOf[t]) \cap unsat \subseteq S
  <2>1. i \in 1..i
    BY <1>1, <1>2
  <2>2. Needs(t, depsOf, unsat) \subseteq S
    BY <1>2, <1>5, <2>1
  <2> QED
    BY <2>2 DEF Needs
<1>7. ASSUME NEW a \in S PROVE Needs(a, depsOf, unsat) \subseteq S
  <2>1. PICK k \in 1..(i - 1) : a = order[k]
    OBVIOUS
  <2>2. k \in DOMAIN order /\ k \in 1..i
    BY <1>1, <1>2, <1>3, <2>1
  <2> QED
    BY <1>5, <2>1, <2>2
<1>8. needed \subseteq unsat
  BY NeededIsClosed DEF Closed
<1> HIDE DEF S
<1>9. needed \subseteq S
  BY <1>4, <1>6, <1>7, <1>8, NeededIsClosed
<1>10. PICK k \in 1..(i - 1) : order[k] = t
  BY <1>9 DEF S
<1>11. k = i
  BY <1>2, <1>3, <1>10 DEF Sane
<1> QED
  BY <1>3, <1>10, <1>11

\* A closed set that holds the missing prerequisites of deps holds the whole chain.
LEMMA NeededWithin ==
  ASSUME NEW depsOf, NEW unsat, Given(depsOf, unsat), NEW deps, NEW S,
         HardDeps(deps) \cap unsat \subseteq S,
         \A a \in S : Needs(a, depsOf, unsat) \subseteq S
  PROVE  Needed(deps, depsOf, unsat) \subseteq S
<1> DEFINE U == S \cap unsat
<1>1. U \in SUBSET unsat /\ HardDeps(deps) \cap unsat \subseteq U
  OBVIOUS
<1>2. \A a \in U : Needs(a, depsOf, unsat) \subseteq U
  BY DEF Needs
<1> HIDE DEF U
<1>3. Needed(deps, depsOf, unsat) \subseteq U
  BY <1>1, <1>2, NeededIsClosed
<1> QED
  BY <1>3 DEF U

LEMMA ResolveNests ==
  ASSUME AssemblyInv, NestInv, AssemblyInv', Resolve
  PROVE  NestInv'
<1> DEFINE w == Top.req.tenant
           P == Offers(w)
           gone == excused \cup lost
           gone2 == excused' \cup lost'
           depsOf == DepsIn(templates)
           unsat == Missing(P)
           deps == Top.spec.deps
           chain == Prerequisites(Top.spec, w)
           needed == Needed(deps, depsOf, unsat)
           f == [Top EXCEPT !.pc = "provision", !.todo = chain.order]
           t == Top.req.template
<1>1. /\ frames # <<>> /\ Top.pc = "resolve" /\ ~chain.cycle /\ Continue(f)
      /\ UNCHANGED <<engine, store, excused, lost>>
  BY DEF Resolve
<1>2. PICK T : frames \in Seq(T)
  BY <1>1, NestTop
<1>3. /\ Top = frames[1] /\ Len(frames) \in Nat \ {0} /\ 1 \in 1..Len(frames) /\ FrameOk(Top)
      /\ NestIs(frames, w, P, templates, gone, lost)
      /\ Len(frames) > 1 => Sub(Top, templates)
  BY <1>1, NestTop
<1>4. Given(depsOf, unsat) /\ depsOf = DepsOf /\ unsat = Unsatisfied(w)
  BY OffersAre, DepsTyped DEF AssemblyInv
<1>5. deps \in Seq(Dependency) /\ Top \in Frame
  BY <1>1, <1>3 DEF FrameOk, Sound, AgentSpec
<1>6. chain = Chain(deps, depsOf, unsat)
  BY <1>4 DEF Prerequisites
<1>7. chain \in Progress /\ Sane(chain, depsOf, unsat) /\ Range(chain.order) = needed
  <2> HIDE DEF depsOf, unsat, deps, chain, needed
  <2> QED
    BY <1>1, <1>4, <1>5, <1>6, ChainFacts DEF needed
<1>8. chain.order \in Seq(Names)
  BY <1>7 DEF Progress
<1>9. HardDeps(deps) \cap unsat \subseteq needed /\ Closed(needed, depsOf, unsat)
  BY <1>4, NeededIsClosed
<1> HIDE DEF chain, needed
<1>10. f.req = Top.req /\ f.pc = "provision" /\ f.spec = Top.spec /\ f.todo = chain.order
  BY <1>5 DEF Frame
<1> HIDE DEF f
<1>11. frames' = <<f>> \o Tail(frames) /\ gone \subseteq gone2
  BY <1>1 DEF Continue
<1>12. Sub(Top, templates) => Sub(f, templates)
  BY <1>1, <1>10 DEF Sub
<1>13. Covered(f, NoTemplate, P, gone2)
  <2>1. ASSUME NEW a \in HardDeps(deps) PROVE Offered(P, a) \/ a \in Range(f.todo)
    <3>1. a \in Names
      BY DEF HardDeps
    <3> QED
      BY <1>7, <1>9, <1>10, <3>1 DEF Missing
  <2> QED
    BY <1>10, <2>1 DEF Covered
<1>14. ASSUME engine = "rules" PROVE Native(f, templates) /\ (t \in Names => deps = depsOf[t])
  <2>1. Native(Top, templates)
    BY <1>3, <1>14 DEF NestIs, AllNative
  <2> QED
    BY <1>1, <1>10, <2>1 DEF Native
<1>15. ASSUME engine = "rules"
       PROVE  \E S \in SUBSET Names :
                /\ f.req.template \notin S /\ Range(f.todo) \subseteq S
                /\ \A a \in S : Needs(a, depsOf, unsat) \subseteq S
  <2>1. needed \in SUBSET Names /\ \A a \in needed : Needs(a, depsOf, unsat) \subseteq needed
    BY <1>9 DEF Closed, Missing
  <2>2. t \notin needed
    <3>1. CASE t \in Names
      <4>1. needed = Needed(depsOf[t], depsOf, unsat)
        BY <1>14, <1>15, <3>1 DEF needed
      <4> HIDE DEF depsOf, unsat, deps, t
      <4> QED
        BY <1>4, <1>7, <1>8, <3>1, <4>1, NotNeededByItself
    <3> QED
      BY <2>1, <3>1
  <2> QED
    BY <1>7, <1>10, <2>1, <2>2
<1>16. ASSUME engine = "rules", NEW S, NEW j \in 2..Len(frames), Fence(S, frames, j, P, templates)
       PROVE  Range(f.todo) \subseteq S
  <2>1. 1 \in 1..(j - 1) /\ Len(frames) > 1
    BY <1>3
  <2>2. t \in S /\ \A a \in S : Needs(a, depsOf, unsat) \subseteq S
    BY <1>3, <1>16, <2>1 DEF Fence
  <2>3. t \in Names
    BY <1>3, <2>1 DEF Sub
  <2>4. deps = depsOf[t]
    BY <1>14, <1>16, <2>3
  <2>5. HardDeps(deps) \cap unsat \subseteq S
    BY <2>2, <2>4 DEF Needs
  <2> HIDE DEF depsOf, unsat, deps, t
  <2>6. needed \subseteq S
    BY <1>4, <2>2, <2>5, NeededWithin DEF needed
  <2> QED
    BY <1>7, <1>10, <2>6
<1> HIDE DEF w, P, gone, gone2, deps, t
<1>17. NestIs(frames', w, P, templates, gone2, lost)
  BY <1>1, <1>2, <1>3, <1>10, <1>11, <1>12, <1>13, <1>14, <1>15, <1>16, NestReplaced
<1> QED
  BY <1>1, <1>17, NestsOn DEF w, P, gone2

LEMMA DescendNests ==
  ASSUME AssemblyInv, NestInv, AssemblyInv', Descend
  PROVE  NestInv'
<1> DEFINE w == Top.req.tenant
           P == Offers(w)
           gone == excused \cup lost
           t == Head(Top.todo)
           f == Opened(SubRequest(t))
<1>1. /\ frames # <<>> /\ Top.pc = "provision" /\ Top.todo # <<>> /\ Creatable(t)
      /\ frames' = <<f, Rest>> \o Tail(frames) /\ UNCHANGED <<engine, store, excused, lost>>
  BY DEF Descend, Provisioning
<1>2. PICK T : frames \in Seq(T)
  BY <1>1, NestTop
<1>3. /\ Top = frames[1] /\ FrameOk(Top) /\ NestIs(frames, w, P, templates, gone, lost)
  BY <1>1, NestTop
<1>4. Top \in Frame /\ Top.todo \in Seq(Names)
  BY <1>3 DEF FrameOk, Frame
<1>5. Rest.req = Top.req /\ Rest.pc = "provision" /\ Rest.spec = Top.spec /\ Rest.todo = Tail(Top.todo)
  BY <1>1, <1>4 DEF Frame, Rest
<1>6. t \in Names /\ Range(Top.todo) = Range(Rest.todo) \cup {t}
  BY <1>1, <1>4, <1>5, RestOfTodo
<1>7. ~Satisfied(w, t) /\ TemplateOf(t) # NoTemplate
  BY <1>1 DEF Creatable
<1> HIDE DEF t
<1>8. ~Offered(P, t) /\ templates[t] # NoTemplate
  BY <1>6, <1>7, OffersAre DEF TemplateOf
<1>9. f.req.template = t /\ f.req.tenant = w /\ f.req.name = t /\ f.pc = "compile" /\ f.todo = <<>>
  BY DEF Opened, SubRequest
<1>10. Sub(f, templates)
  BY <1>6, <1>8, <1>9 DEF Sub
<1> HIDE DEF f, w, P, gone
<1>11. NestIs(frames', w, P, templates, gone, lost)
  BY <1>1, <1>2, <1>3, <1>5, <1>6, <1>8, <1>9, <1>10, NestPushed
<1> QED
  BY <1>1, <1>11, NestsOn DEF w, P, gone

\* What is saved is what was to be provided.
LEMMA SaveNests ==
  ASSUME AssemblyInv, NestInv, AssemblyInv', Save
  PROVE  NestInv'
<1> DEFINE w == Top.req.tenant
           P == Offers(w)
           Q == OffersNext(w)
           B == Begun(frames)
           t == Top.req.template
           gone == excused \cup lost
<1>1. /\ frames # <<>> /\ Top.pc = "provision" /\ Crystallize(Top.spec) /\ frames' = Tail(frames)
      /\ UNCHANGED <<engine, excused, lost>>
      /\ specs' = [specs EXCEPT ![w][Top.spec.name] = Top.spec]
      /\ enabled' = [enabled EXCEPT ![w] = @ \cup {Top.spec.name}]
  BY DEF Save, Saving, SaveSpec
<1>2. PICK T : frames \in Seq(T)
  BY <1>1, NestTop
<1>3. /\ Top = frames[1] /\ Len(frames) \in Nat \ {0} /\ FrameOk(Top)
      /\ NestIs(frames, w, P, templates, gone, lost)
      /\ Len(frames) > 1 => Sub(Top, templates)
  BY <1>1, NestTop
<1>4. CASE Len(frames) = 1
  <2>1. Len(Tail(frames)) = 0 /\ Tail(frames) \in Seq(T)
    BY <1>1, <1>2, <1>4, TailIs
  <2>2. frames' = <<>>
    BY <1>1, <2>1
  <2> QED
    BY <1>1, <2>2, NestsNext
<1>5. CASE Len(frames) > 1
  <2>1. /\ t \in Names /\ Top.spec.name = t /\ Top.spec.template = t /\ t \in B
    <3>1. Sub(Top, templates)
      BY <1>3, <1>5
    <3>2. 1 \in 1..(Len(frames) - 1)
      BY <1>3, <1>5
    <3> QED
      BY <1>1, <1>3, <3>1, <3>2 DEF Sub, Begun
  <2>2. NoTemplate \notin Names /\ w \in Tenants
    BY <1>3, AssemblyAssumption DEF AssemblyAssumption, FrameOk, Frame, Request
  <2>3. templates' = templates
    BY <1>1, <2>1, <2>2 DEF Crystallize
  <2>4. /\ specs \in [Tenants -> [Names -> AgentSpec \cup {NoSpec}]]
        /\ enabled \in [Tenants -> SUBSET Names]
    BY DEF AssemblyInv, StoredOk
  <2>5. /\ \A n \in Names : specs'[w][n] = IF n = t THEN Top.spec ELSE specs[w][n]
        /\ enabled'[w] = enabled[w] \cup {t} /\ enabled[w] \subseteq Names
    <3> HIDE DEF w, t
    <3> QED
      BY <1>1, <2>1, <2>2, <2>4
  <2> HIDE DEF w, B, t
  <2>6. <<t, t>> \in Q
    <3>1. t \in enabled'[w] /\ specs'[w][t].template = t
      BY <2>1, <2>5
    <3> QED
      BY <3>1 DEF OffersNext
  <2>7. ASSUME NEW p \in P, p[1] # t PROVE p \in Q
    <3>1. PICK n \in enabled[w] : p = <<n, specs[w][n].template>>
      BY <2>7 DEF Offers
    <3>2. n # t /\ n \in enabled'[w] /\ specs'[w][n] = specs[w][n]
      BY <2>5, <2>7, <3>1
    <3> QED
      BY <3>1, <3>2 DEF OffersNext
  <2>8. ASSUME NEW q \in Q PROVE q = <<t, t>> \/ q \in P
    <3>1. PICK n \in enabled'[w] : q = <<n, specs'[w][n].template>>
      BY <2>8 DEF OffersNext
    <3>2. CASE n = t
      BY <2>1, <2>5, <3>1, <3>2
    <3>3. CASE n # t
      BY <2>5, <3>1, <3>3 DEF Offers
    <3> QED
      BY <3>2, <3>3
  <2>9. Dependable(B, P, lost)
    BY <1>3 DEF NestIs, B
  <2> HIDE DEF P, Q
  <2>10. <<t, t>>[1] = t /\ <<t, t>>[2] = t
    OBVIOUS
  <2>11. ASSUME NEW a \in Names, Firm(P, B, a) PROVE Firm(Q, B, a)
    <3>1. PICK p \in P : p[1] = a \/ (p[2] = a /\ p[1] \notin B)
      BY <2>11 DEF Firm
    <3>2. CASE p[1] = t
      <4>1. a = t
        BY <2>1, <3>1, <3>2
      <4> QED
        BY <2>6, <2>10, <4>1 DEF Firm
    <3>3. CASE p[1] # t
      <4>1. p \in Q
        BY <2>7, <3>3
      <4> QED
        BY <3>1, <4>1 DEF Firm
    <3> QED
      BY <3>2, <3>3
  <2>12. \A a \in Names : Firm(Q, B, a) => Offered(Q, a)
    BY DEF Firm, Offered
  <2>13. Keeps(P, Q, lost)
    BY <2>9, <2>11, <2>12 DEF Keeps, Dependable
  <2>14. Dependable(B, Q, lost)
    <3>1. ASSUME NEW a \in Names, Offered(Q, a), a \notin lost PROVE Firm(Q, B, a)
      <4>1. PICK q \in Q : q[1] = a \/ q[2] = a
        BY <3>1 DEF Offered
      <4>2. CASE q = <<t, t>>
        BY <2>6, <2>10, <4>1, <4>2 DEF Firm
      <4>3. CASE q \in P
        <5>1. Offered(P, a)
          BY <4>1, <4>3 DEF Offered
        <5> QED
          BY <2>9, <2>11, <3>1, <5>1 DEF Dependable
      <4> QED
        BY <2>8, <4>2, <4>3
    <3> QED
      BY <3>1 DEF Dependable
  <2>15. Offered(Q, t)
    BY <2>6, <2>10 DEF Offered
  <2>16. gone \subseteq gone /\ lost \subseteq gone
    OBVIOUS
  <2> HIDE DEF gone
  <2>17. NestIs(Tail(frames), w, Q, templates, gone, lost)
    BY <1>2, <1>3, <1>5, <2>13, <2>14, <2>15, <2>16, NestPopped DEF B, t
  <2>18. Nested(Tail(frames), w, templates) /\ Tail(frames) \in Seq(T) /\ Len(Tail(frames)) = Len(frames) - 1
    BY <1>1, <1>2, <2>17, TailIs DEF NestIs
  <2>19. Head(Tail(frames)).req.tenant = w
    <3>1. 1 \in 1..Len(Tail(frames)) /\ Head(Tail(frames)) = Tail(frames)[1]
      BY <1>3, <1>5, <2>18
    <3> QED
      BY <2>18, <3>1 DEF Nested
  <2> QED
    BY <1>1, <2>3, <2>17, <2>19, NestsNext DEF Q, gone
<1>6. Len(frames) = 1 \/ Len(frames) > 1
  <2> DEFINE n == Len(frames)
  <2>1. n \in Nat \ {0}
    BY <1>3
  <2> HIDE DEF n
  <2>2. n = 1 \/ n > 1
    BY <2>1
  <2> QED
    BY <2>2 DEF n
<1> QED
  BY <1>4, <1>5, <1>6

-----------------------------------------------------------------------------
(* So do the other requests.                                               *)

\* Where others change what the agent m offers, and that is noted as lost.
LEMMA OffersAside ==
  ASSUME NEW P, NEW Q, NEW m, NEW B, NEW off, NEW off2, off \subseteq off2,
         Dependable(B, P, off),
         \A p \in P : p[1] # m => p \in Q,
         \A q \in Q : q[1] # m => q \in P,
         \A p \in P : p[1] = m => \A i \in {1, 2} : p[i] \in Names => p[i] \in off2,
         \A q \in Q : q[1] = m /\ q[2] \in Names => q[2] \in off2 \/ Offered(P, q[2])
  PROVE  Keeps(P, Q, off2) /\ Dependable(B, Q, off2)
<1>1. ASSUME NEW a \in Names, NEW p \in P, p[1] = a \/ p[2] = a, a \notin off2 PROVE p \in Q
  BY <1>1
<1>2. Keeps(P, Q, off2)
  BY <1>1 DEF Keeps, Offered
<1>3. ASSUME NEW a \in Names, Offered(Q, a), a \notin off2 PROVE Firm(Q, B, a)
  <2>1. PICK q \in Q : q[1] = a \/ q[2] = a
    BY <1>3 DEF Offered
  <2>2. ASSUME Offered(P, a) PROVE Firm(Q, B, a)
    <3>1. Firm(P, B, a)
      BY <1>3, <2>2 DEF Dependable
    <3> QED
      BY <1>1, <1>3, <3>1 DEF Firm
  <2>3. CASE q[1] = a
    BY <2>3 DEF Firm
  <2>4. CASE q[2] = a /\ q[1] = m
    BY <1>3, <2>2, <2>4
  <2>5. CASE q[2] = a /\ q[1] # m
    <3>1. q \in P
      BY <2>5
    <3>2. Offered(P, a)
      BY <2>5, <3>1 DEF Offered
    <3> QED
      BY <2>2, <3>2
  <2> QED
    BY <2>1, <2>3, <2>4, <2>5
<1> QED
  BY <1>2, <1>3 DEF Dependable

\* What the other requests do to the agents of a tenant: m is the one they touch.
LEMMA OtherOffers ==
  ASSUME AssemblyInv, frames # <<>>, NEW v \in Tenants, NEW n \in Names,
         \/ \E patch \in Patches : Update(v, n, patch)
         \/ \E new \in Scratch : Duplicate(v, n, new)
         \/ Delete(v, n)
         \/ SetEnabled(v, n)
  PROVE  \E m \in Names :
           /\ specs[v][m] # NoSpec => {m, specs[v][m].template} \cap Names \subseteq lost'
           /\ lost \subseteq lost'
           /\ \A w \in Tenants, k \in Names : w # v \/ k # m =>
                specs'[w][k] = specs[w][k] /\ (k \in enabled'[w] <=> k \in enabled[w])
           /\ m \in enabled'[v] =>
                \/ specs[v][m] # NoSpec /\ specs'[v][m].template = specs[v][m].template
                \/ \E k \in enabled[v] : specs'[v][m].template = specs[v][k].template
<1>1. /\ specs \in [Tenants -> [Names -> AgentSpec \cup {NoSpec}]]
      /\ enabled \in [Tenants -> SUBSET Names]
      /\ NoTemplate \notin Names
  BY AssemblyAssumption DEF AssemblyAssumption, AssemblyInv, StoredOk
<1>2. ASSUME NEW m, Other(v, m)
      PROVE  /\ specs[v][m] # NoSpec => {m, specs[v][m].template} \cap Names \subseteq lost'
             /\ lost \subseteq lost'
  BY <1>1, <1>2 DEF Other
<1>3. ASSUME n \in enabled[v] PROVE specs[v][n] \in AgentSpec
  BY <1>3 DEF AssemblyInv, StoredOk, StoredAt, Sound
<1>4. ASSUME NEW patch \in Patches, Update(v, n, patch)
      PROVE  /\ specs' = [specs EXCEPT ![v][n] = specs'[v][n]]
             /\ enabled' = [enabled EXCEPT ![v] = @ \cup {n}]
             /\ specs'[v][n].template = specs[v][n].template /\ n \in enabled[v] /\ Other(v, n)
  <2> DEFINE r == Retooled(Patched(specs[v][n], patch), patch, v)
  <2>1. n \in enabled[v] /\ Other(v, n)
    BY <1>4 DEF Update
  <2>2. r.name = n /\ r.template = specs[v][n].template
    <3> DEFINE s == specs[v][n]
               p == Patched(s, patch)
    <3>1. s.name = n /\ s \in AgentSpec
      BY <2>1 DEF AssemblyInv, StoredOk, StoredAt, Sound
    <3>2. p \in AgentSpec /\ p.name = s.name /\ p.template = s.template
      <4> HIDE DEF s
      <4> QED
        BY <1>4, <3>1, PatchedIsSpec
    <3> HIDE DEF p
    <3>3. Retooled(p, patch, v).name = p.name /\ Retooled(p, patch, v).template = p.template
      BY <3>2 DEF Retooled, AgentSpec
    <3> QED
      BY <3>1, <3>2, <3>3 DEF p
  <2>3. /\ specs' = [specs EXCEPT ![v][r.name] = r]
        /\ enabled' = [enabled EXCEPT ![v] = @ \cup {r.name}]
    BY <1>4 DEF Update, SaveSpec
  <2> HIDE DEF r
  <2> QED
    BY <1>1, <2>1, <2>2, <2>3
<1>5. ASSUME NEW new \in Scratch, Duplicate(v, n, new)
      PROVE  /\ new \in Names
             /\ specs' = [specs EXCEPT ![v][new] = specs'[v][new]]
             /\ enabled' = [enabled EXCEPT ![v] = @ \cup {new}]
             /\ specs'[v][new].template = specs[v][n].template /\ n \in enabled[v] /\ Other(v, new)
  <2> DEFINE r == [specs[v][n] EXCEPT !.name = new]
  <2>1. n \in enabled[v] /\ Other(v, new)
    BY <1>5 DEF Duplicate
  <2>2. r.name = new /\ r.template = specs[v][n].template
    BY <1>3, <2>1 DEF AgentSpec
  <2>3. /\ specs' = [specs EXCEPT ![v][r.name] = r]
        /\ enabled' = [enabled EXCEPT ![v] = @ \cup {r.name}]
    BY <1>5 DEF Duplicate, SaveSpec
  <2>4. new \in Names
    BY AssemblyAssumption DEF AssemblyAssumption
  <2> HIDE DEF r
  <2> QED
    BY <1>1, <2>1, <2>2, <2>3, <2>4
<1>6. ASSUME Delete(v, n)
      PROVE  /\ specs' = [specs EXCEPT ![v][n] = specs'[v][n]]
             /\ enabled' = [enabled EXCEPT ![v] = @ \ {n}] /\ Other(v, n)
  BY <1>1, <1>6 DEF Delete
<1>7. ASSUME SetEnabled(v, n)
      PROVE  /\ specs' = specs /\ specs[v][n] # NoSpec /\ Other(v, n)
             /\ enabled' = [enabled EXCEPT ![v] = IF n \in @ THEN @ \ {n} ELSE @ \cup {n}]
  BY <1>7 DEF SetEnabled
<1>8. CASE \E patch \in Patches : Update(v, n, patch)
  <2>1. PICK patch \in Patches : Update(v, n, patch)
    BY <1>8
  <2>2. /\ specs' = [specs EXCEPT ![v][n] = specs'[v][n]]
        /\ enabled' = [enabled EXCEPT ![v] = @ \cup {n}]
        /\ specs'[v][n].template = specs[v][n].template /\ n \in enabled[v] /\ Other(v, n)
    BY <1>4, <2>1
  <2>3. \A w \in Tenants, k \in Names : w # v \/ k # n =>
          specs'[w][k] = specs[w][k] /\ (k \in enabled'[w] <=> k \in enabled[w])
    BY <1>1, <2>2
  <2> QED
    BY <1>2, <2>2, <2>3
<1>9. CASE \E new \in Scratch : Duplicate(v, n, new)
  <2>1. PICK new \in Scratch : Duplicate(v, n, new)
    BY <1>9
  <2>2. /\ new \in Names
        /\ specs' = [specs EXCEPT ![v][new] = specs'[v][new]]
        /\ enabled' = [enabled EXCEPT ![v] = @ \cup {new}]
        /\ specs'[v][new].template = specs[v][n].template /\ n \in enabled[v] /\ Other(v, new)
    BY <1>5, <2>1
  <2>3. \A w \in Tenants, k \in Names : w # v \/ k # new =>
          specs'[w][k] = specs[w][k] /\ (k \in enabled'[w] <=> k \in enabled[w])
    BY <1>1, <2>2
  <2> QED
    BY <1>2, <2>2, <2>3
<1>10. CASE Delete(v, n)
  <2>1. \A w \in Tenants, k \in Names : w # v \/ k # n =>
          specs'[w][k] = specs[w][k] /\ (k \in enabled'[w] <=> k \in enabled[w])
    BY <1>1, <1>6, <1>10
  <2>2. n \notin enabled'[v]
    BY <1>1, <1>6, <1>10
  <2> QED
    BY <1>2, <1>6, <1>10, <2>1, <2>2
<1>11. CASE SetEnabled(v, n)
  <2>1. \A w \in Tenants, k \in Names : w # v \/ k # n =>
          specs'[w][k] = specs[w][k] /\ (k \in enabled'[w] <=> k \in enabled[w])
    BY <1>1, <1>7, <1>11
  <2> QED
    BY <1>2, <1>7, <1>11, <2>1
<1> QED
  BY <1>8, <1>9, <1>10, <1>11

LEMMA OtherNests ==
  ASSUME AssemblyInv, NestInv, AssemblyInv', NEW v \in Tenants, NEW n \in Names,
         \/ \E patch \in Patches : Update(v, n, patch)
         \/ \E new \in Scratch : Duplicate(v, n, new)
         \/ Delete(v, n)
         \/ SetEnabled(v, n)
  PROVE  NestInv'
<1> DEFINE w == Top.req.tenant
           P == Offers(w)
           Q == OffersNext(w)
           B == Begun(frames)
           gone == excused \cup lost
           gone2 == excused' \cup lost'
<1>1. UNCHANGED <<engine, frames, templates, excused>>
  BY DEF Update, Duplicate, Delete, SetEnabled, Other
<1>2. CASE frames = <<>>
  <2>1. frames' = <<>> /\ engine' = engine
    BY <1>1, <1>2
  <2> QED
    BY <2>1, NestsNext
<1>3. CASE frames # <<>>
  <2>1. PICK m \in Names :
           /\ specs[v][m] # NoSpec => {m, specs[v][m].template} \cap Names \subseteq lost'
           /\ lost \subseteq lost'
           /\ \A u \in Tenants, k \in Names : u # v \/ k # m =>
                specs'[u][k] = specs[u][k] /\ (k \in enabled'[u] <=> k \in enabled[u])
           /\ m \in enabled'[v] =>
                \/ specs[v][m] # NoSpec /\ specs'[v][m].template = specs[v][m].template
                \/ \E k \in enabled[v] : specs'[v][m].template = specs[v][k].template
    BY <1>3, OtherOffers
  <2>2. NestIs(frames, w, P, templates, gone, lost) /\ FrameOk(Top)
    BY <1>3, NestTop
  <2>3. Dependable(B, P, lost)
    BY <2>2 DEF NestIs
  <2>4. w \in Tenants
    BY <2>2 DEF FrameOk, Frame, Request
  <2>5. enabled[w] \subseteq Names /\ enabled'[w] \subseteq Names
    BY <2>4 DEF AssemblyInv, StoredOk
  <2> HIDE DEF w
  <2>6. ASSUME NEW p \in P, w # v \/ p[1] # m PROVE p \in Q
    <3>1. PICK k \in enabled[w] : p = <<k, specs[w][k].template>>
      BY DEF Offers
    <3>2. p[1] = k
      BY <3>1
    <3>3. k \in enabled'[w] /\ specs'[w][k] = specs[w][k]
      BY <2>1, <2>4, <2>5, <2>6, <3>1, <3>2
    <3> QED
      BY <3>1, <3>3 DEF OffersNext
  <2>7. ASSUME NEW q \in Q, w # v \/ q[1] # m PROVE q \in P
    <3>1. PICK k \in enabled'[w] : q = <<k, specs'[w][k].template>>
      BY DEF OffersNext
    <3>2. q[1] = k
      BY <3>1
    <3>3. k \in enabled[w] /\ specs'[w][k] = specs[w][k]
      BY <2>1, <2>4, <2>5, <2>7, <3>1, <3>2
    <3> QED
      BY <3>1, <3>3 DEF Offers
  <2>8. Keeps(P, Q, lost') /\ Dependable(B, Q, lost')
    <3>1. CASE w # v
      <4>1. P = Q
        BY <2>6, <2>7, <3>1
      <4> HIDE DEF P, Q, B
      <4> QED
        BY <2>1, <2>3, <4>1 DEF Keeps, Dependable
    <3>2. CASE w = v
      <4>1. ASSUME NEW p \in P, p[1] = m, NEW i \in {1, 2}, p[i] \in Names PROVE p[i] \in lost'
        <5>1. PICK k \in enabled[w] : p = <<k, specs[w][k].template>>
          BY DEF Offers
        <5>2. k = m /\ (p[i] = m \/ p[i] = specs[w][m].template)
          BY <4>1, <5>1
        <5>3. specs[w][m] \in AgentSpec /\ NoSpec \notin AgentSpec
          BY <2>4, <5>1, <5>2, AssemblyAssumption
             DEF AssemblyAssumption, AssemblyInv, StoredOk, StoredAt, Sound
        <5> QED
          BY <2>1, <3>2, <4>1, <5>2, <5>3
      <4>2. ASSUME NEW q \in Q, q[1] = m, q[2] \in Names PROVE q[2] \in lost' \/ Offered(P, q[2])
        <5>1. PICK k \in enabled'[w] : q = <<k, specs'[w][k].template>>
          BY DEF OffersNext
        <5>2. k = m /\ q[2] = specs'[w][m].template
          BY <4>2, <5>1
        <5>3. CASE specs[v][m] # NoSpec /\ specs'[v][m].template = specs[v][m].template
          BY <2>1, <3>2, <4>2, <5>2, <5>3
        <5>4. CASE \E j \in enabled[v] : specs'[v][m].template = specs[v][j].template
          <6>1. PICK j \in enabled[v] : specs'[v][m].template = specs[v][j].template
            BY <5>4
          <6> DEFINE p == <<j, specs[w][j].template>>
          <6>2. p \in P /\ p[2] = q[2]
            BY <3>2, <5>2, <6>1 DEF Offers
          <6> HIDE DEF p
          <6> QED
            BY <6>2 DEF Offered
        <5> QED
          BY <2>1, <3>2, <5>1, <5>2, <5>3, <5>4
      <4>3. /\ \A p \in P : p[1] # m => p \in Q
            /\ \A q \in Q : q[1] # m => q \in P
        BY <2>6, <2>7
      <4>4. \A p \in P : p[1] = m => \A i \in {1, 2} : p[i] \in Names => p[i] \in lost'
        BY <4>1
      <4>5. \A q \in Q : q[1] = m /\ q[2] \in Names => q[2] \in lost' \/ Offered(P, q[2])
        BY <4>2
      <4>6. lost \subseteq lost'
        BY <2>1
      <4> HIDE DEF P, Q, B
      <4> QED
        BY <2>3, <4>3, <4>4, <4>5, <4>6, OffersAside, Zenon
    <3> QED
      BY <3>1, <3>2
  <2>9. gone \subseteq gone2 /\ lost \subseteq lost' /\ lost' \subseteq gone2
    BY <1>1, <2>1
  <2> HIDE DEF P, Q, gone, gone2
  <2>10. NestIs(frames, w, Q, templates, gone2, lost')
    BY <2>2, <2>8, <2>9, NestAside DEF B
  <2>11. Head(frames') = Top
    BY <1>1 DEF Top
  <2> QED
    BY <1>1, <2>10, <2>11, NestsNext DEF w, Q, gone2
<1> QED
  BY <1>2, <1>3

LEMMA SubmitNests ==
  ASSUME NEW req \in Requests, Submit(req)
  PROVE  NestInv'
<1> DEFINE f == Opened(req)
<1>1. /\ frames' = <<>> \/ frames' = <<f>>
      /\ UNCHANGED <<engine, specs, enabled, templates>>
  BY DEF Submit, store
<1>2. f.req = req /\ f.pc = "compile"
  BY DEF Opened
<1> HIDE DEF f
<1>3. ASSUME frames' = <<f>>, NEW P, NEW gone, NEW off
      PROVE  NestIs(frames', req.tenant, P, templates', gone, off)
  <2>1. Len(frames') = 1 /\ frames'[1] = f /\ \A i \in 1..Len(frames') : i = 1
    BY <1>3
  <2>2. Nested(frames', req.tenant, templates')
    BY <1>2, <2>1 DEF Nested
  <2>3. AllCovered(frames', P, gone) /\ AllNative(frames', templates') /\ Fenced(frames', P, templates')
    BY <1>2, <2>1 DEF AllCovered, Covered, AllNative, Native, Fenced
  <2>4. Begun(frames') = {}
    BY <2>1 DEF Begun
  <2>5. Dependable({}, P, off)
    BY DEF Dependable, Firm, Offered
  <2> QED
    BY <2>2, <2>3, <2>4, <2>5 DEF NestIs
<1>4. frames' # <<>> => frames' = <<f>> /\ Head(frames').req.tenant = req.tenant
  BY <1>1, <1>2
<1> QED
  BY <1>1, <1>3, <1>4, NestsNext

LEMMA NestInvStep ==
  ASSUME AssemblyInv, NestInv, AssemblyInv', [Next]_vars
  PROVE  NestInv'
<1>1. ASSUME NEW req \in Requests, Submit(req) PROVE NestInv'
  BY <1>1, SubmitNests
<1>2. CASE AcceptModel
  <2>1. PICK p \in Proposals : Accept(p)
    BY <1>2 DEF AcceptModel
  <2>2. Compiling /\ engine # "rules"
    BY <1>2 DEF AcceptModel
  <2> QED
    BY <2>1, <2>2, AcceptNests
<1>3. CASE AcceptRules
  <2> DEFINE tpl == TemplateOf(Top.req.template)
             p == FromRules(Top.req, tpl)
  <2>1. Compiling /\ Accept(p) /\ p.deps = IF tpl = NoTemplate THEN <<>> ELSE tpl.deps
    BY <1>3 DEF AcceptRules, FromRules
  <2> HIDE DEF p
  <2> QED
    BY <2>1, AcceptNests
<1>4. CASE ModelFails
  BY <1>4, ModelFailsNests
<1>13. CASE ValidatorRaises
  BY <1>13, NestsNext DEF ValidatorRaises
<1>5. CASE OutOfAttempts \/ RulesFail \/ Refuse
  <2>1. GiveUp /\ frames # <<>>
    BY <1>5 DEF OutOfAttempts, RulesFail, Refuse, Compiling
  <2> QED
    BY <2>1, GiveUpNests
<1>6. CASE Resolve
  BY <1>6, ResolveNests
<1>7. CASE Skip
  BY <1>7, SkipNests
<1>8. CASE TooDeep
  BY <1>8, TooDeepNests
<1>9. CASE Descend
  BY <1>9, DescendNests
<1>10. CASE Save
  BY <1>10, SaveNests
<1>11. ASSUME NEW w \in Tenants, NEW n \in Names,
              \/ \E patch \in Patches : Update(w, n, patch)
              \/ \E new \in Scratch : Duplicate(w, n, new)
              \/ Delete(w, n)
              \/ SetEnabled(w, n)
       PROVE  NestInv'
  BY <1>11, OtherNests
<1>12. CASE UNCHANGED vars
  <2>1. UNCHANGED <<engine, store, frames, excused, lost>>
    BY <1>12 DEF vars
  <2>2. frames # <<>> =>
          NestIs(frames, Top.req.tenant, Offers(Top.req.tenant), templates, excused \cup lost, lost)
    BY DEF NestInv
  <2> QED
    BY <2>1, <2>2, NestsOn
<1> QED
  BY <1>1, <1>2, <1>3, <1>4, <1>5, <1>6, <1>7, <1>8, <1>9, <1>10, <1>11, <1>12,
     <1>13 DEF Next, Create

-----------------------------------------------------------------------------
(* The bounds.                                                             *)

Bounded ==
  /\ engine \in Engines /\ Len(frames) <= MaxDepth
  /\ excused \subseteq Names /\ lost \subseteq Names
  /\ requests \in 0..MaxRequests[engine]

LEMMA BoundsAre ==
  /\ MaxDepth \in Nat \ {0} /\ MaxRequests \in [Engines -> Nat] /\ NoTemplate \notin Names
  /\ Scratch \subseteq Names
BY AssemblyAssumption DEF AssemblyAssumption

\* What a step of the creation at hand does to the stack and to what is excused.
LEMMA CreateBounded ==
  ASSUME AssemblyInv, Bounded, Create
  PROVE  Bounded'
<1>1. frames # <<>> /\ UNCHANGED <<engine, lost, requests>>
  BY DEF Create, AcceptModel, ModelFails, ValidatorRaises, OutOfAttempts, AcceptRules, RulesFail,
         Refuse, Resolve, Skip, Descend, TooDeep, Save, Accept, GiveUp, Compiling, Provisioning, Saving
<1>2. PICK T : frames \in Seq(T)
  BY DEF AssemblyInv, StackOk
<1>3. FrameOk(Top)
  BY <1>1, TopOk DEF AssemblyInv
<1>4. Top.req.template \in Names \cup {NoTemplate} /\ Top.todo \in Seq(Names)
  BY <1>3 DEF FrameOk, Frame, Request
<1> DEFINE n == Len(frames)
<1>5. /\ n \in Nat \ {0} /\ Len(Tail(frames)) = n - 1
  BY <1>1, <1>2, TailIs
<1> HIDE DEF n
<1>6. /\ \A f : Len(<<f>> \o Tail(frames)) = n
      /\ \A f, g : Len(<<f, g>> \o Tail(frames)) = n + 1
  BY <1>1, <1>2, ReplacedIs, PushedIs DEF n
<1>7. n <= MaxDepth /\ MaxDepth \in Nat \ {0}
  BY BoundsAre DEF Bounded, n
<1>8. \/ frames' = <<>> \/ frames' = Tail(frames)
      \/ \E f : frames' = <<f>> \o Tail(frames)
      \/ n < MaxDepth /\ \E f, g : frames' = <<f, g>> \o Tail(frames)
  <2>1. CASE AcceptModel \/ ModelFails \/ AcceptRules \/ Resolve \/ Skip
    <3>1. \E f : Continue(f)
      BY <2>1 DEF AcceptModel, ModelFails, AcceptRules, Resolve, Skip, Accept
    <3> QED
      BY <3>1 DEF Continue
  <2>2. CASE OutOfAttempts \/ RulesFail \/ Refuse
    BY <2>2 DEF OutOfAttempts, RulesFail, Refuse, GiveUp
  <2>3. CASE Descend
    BY <1>5, <1>7, <2>3 DEF Descend, n
  <2>4. CASE TooDeep
    BY <2>4 DEF TooDeep, Continue
  <2>5. CASE Save
    BY <2>5 DEF Save
  <2>6. CASE ValidatorRaises
    BY <2>6 DEF ValidatorRaises
  <2> QED
    BY <2>1, <2>2, <2>3, <2>4, <2>5, <2>6 DEF Create
<1>9. Len(frames') <= MaxDepth
  <2>1. CASE frames' = <<>>
    <3>1. Len(frames') = 0
      BY <2>1
    <3> QED
      BY <1>7, <3>1
  <2>2. CASE frames' # <<>>
    <3>1. Len(frames') \in {n - 1, n} \/ (n < MaxDepth /\ Len(frames') = n + 1)
      BY <1>5, <1>6, <1>8, <2>2
    <3> DEFINE k == Len(frames')
    <3>2. k \in {n - 1, n} \/ (n < MaxDepth /\ k = n + 1)
      BY <3>1
    <3>3. n \in Nat /\ MaxDepth \in Nat /\ n <= MaxDepth
      BY <1>5, <1>7
    <3> HIDE DEF k
    <3>4. k <= MaxDepth
      BY <3>2, <3>3
    <3> QED
      BY <3>4 DEF k
  <2> QED
    BY <2>1, <2>2
<1>10. excused' \subseteq Names
  <2>1. excused \subseteq Names
    BY DEF Bounded
  <2>2. CASE AcceptModel \/ ModelFails \/ ValidatorRaises \/ AcceptRules \/ Resolve \/ Descend \/ Save
    BY <2>1, <2>2 DEF AcceptModel, ModelFails, ValidatorRaises, AcceptRules, Resolve, Descend, Save,
       Accept
  <2>3. CASE OutOfAttempts \/ RulesFail \/ Refuse
    <3>1. GiveUp
      BY <2>3 DEF OutOfAttempts, RulesFail, Refuse
    <3> QED
      BY <1>4, <2>1, <3>1 DEF GiveUp
  <2>4. CASE Skip
    BY <2>1, <2>4 DEF Skip, Unsatisfied
  <2>5. CASE TooDeep
    <3>1. Head(Top.todo) \in Names
      BY <1>4, <2>5 DEF TooDeep, Provisioning
    <3> QED
      BY <2>1, <2>5, <3>1 DEF TooDeep
  <2> QED
    BY <2>2, <2>3, <2>4, <2>5 DEF Create
<1> QED
  BY <1>1, <1>9, <1>10 DEF Bounded

LEMMA BoundedStep ==
  ASSUME AssemblyInv, Bounded, [Next]_vars
  PROVE  Bounded'
<1>1. ASSUME NEW req \in Requests, Submit(req) PROVE Bounded'
  <2>1. UNCHANGED engine /\ excused' = {} /\ lost' = {} /\ requests' = requests + 1
        /\ requests < MaxRequests[engine]
    BY <1>1 DEF Submit
  <2>2. Len(frames') \in {0, 1}
    BY <1>1 DEF Submit
  <2>3. engine \in Engines /\ requests \in 0..MaxRequests[engine] /\ MaxRequests[engine] \in Nat
    BY BoundsAre DEF Bounded
  <2>4. requests' \in 0..MaxRequests[engine]'
    BY <2>1, <2>3
  <2> DEFINE k == Len(frames')
  <2>5. k <= MaxDepth
    <3>1. k \in {0, 1} /\ MaxDepth \in Nat \ {0}
      BY <2>2, BoundsAre
    <3> HIDE DEF k
    <3> QED
      BY <3>1
  <2> QED
    BY <2>1, <2>3, <2>4, <2>5 DEF Bounded
<1>2. CASE Create
  BY <1>2, CreateBounded
<1>3. ASSUME NEW w \in Tenants, NEW n \in Names,
             \/ \E patch \in Patches : Update(w, n, patch)
             \/ \E new \in Scratch : Duplicate(w, n, new)
             \/ Delete(w, n)
             \/ SetEnabled(w, n)
      PROVE  Bounded'
  <2>1. PICK m \in Names : Other(w, m)
    BY <1>3, BoundsAre DEF Update, Duplicate, Delete, SetEnabled
  <2>2. /\ requests < MaxRequests[engine] /\ requests' = requests + 1
        /\ UNCHANGED <<engine, frames, excused>>
    BY <2>1 DEF Other
  <2>3. engine \in Engines /\ requests \in 0..MaxRequests[engine] /\ MaxRequests[engine] \in Nat
    BY BoundsAre DEF Bounded
  <2>4. requests' \in 0..MaxRequests[engine]'
    BY <2>2, <2>3
  <2>5. lost' \subseteq Names
    <3>1. specs[w][m] # NoSpec => specs[w][m].template \in Names \cup {NoTemplate}
      BY DEF AssemblyInv, StoredOk, AgentSpec
    <3>2. lost \subseteq Names
      BY DEF Bounded
    <3> QED
      BY <2>1, <3>1, <3>2 DEF Other
  <2> QED
    BY <2>2, <2>3, <2>4, <2>5 DEF Bounded
<1>4. CASE UNCHANGED vars
  BY <1>4 DEF vars, Bounded
<1> QED
  BY <1>1, <1>2, <1>3, <1>4 DEF Next

-----------------------------------------------------------------------------
(* The theorems.                                                           *)

LEMMA AssemblyInvInit == Init => AssemblyInv
<1> SUFFICES ASSUME Init PROVE AssemblyInv
  OBVIOUS
<1>1. TemplatesOk
  BY AssemblyAssumption DEF AssemblyAssumption, Init, TemplatesOk
<1>2. Unmarked \in Mark
  BY DEF Unmarked, Mark
<1>3. StoredOk
  BY <1>2 DEF Init, StoredOk, StoredAt
<1>4. StackOk
  <2>1. frames \in Seq({}) /\ Len(frames) = 0
    BY DEF Init
  <2> QED
    BY <2>1 DEF StackOk
<1> QED
  BY <1>1, <1>3, <1>4 DEF AssemblyInv

LEMMA AssemblyInvStep ==
  ASSUME AssemblyInv, [Next]_vars
  PROVE  AssemblyInv'
<1>1. ASSUME NEW req \in Requests, Submit(req) PROVE AssemblyInv'
  BY <1>1, SubmitKeeps
<1>2. CASE AcceptModel
  <2>1. PICK p \in Proposals : Accept(p)
    BY <1>2 DEF AcceptModel
  <2>2. Proposed(p)
    BY AssemblyAssumption DEF AssemblyAssumption, Proposal, Proposed
  <2> QED
    BY <1>2, <2>1, <2>2, AcceptKeeps DEF AcceptModel
<1>3. CASE AcceptRules
  <2> DEFINE tpl == TemplateOf(Top.req.template)
  <2>1. Compiling /\ Accept(FromRules(Top.req, tpl))
    BY <1>3 DEF AcceptRules
  <2>2. tpl \in Template \cup {NoTemplate} /\ Top.req \in Request
    BY <2>1, TemplateIsNamed, TopOk DEF AssemblyInv, Compiling, FrameOk, Frame
  <2> HIDE DEF tpl
  <2>3. Proposed(FromRules(Top.req, tpl))
    BY <2>2, RulesPropose
  <2> QED
    BY <2>1, <2>3, AcceptKeeps
<1>4. CASE ModelFails \/ ValidatorRaises \/ OutOfAttempts \/ RulesFail \/ Refuse \/ Resolve
           \/ Skip \/ TooDeep
  BY <1>4, AdvanceKeeps
<1>5. CASE Descend
  BY <1>5, DescendKeeps
<1>6. CASE Save
  BY <1>6, SaveKeeps
<1>7. ASSUME NEW w \in Tenants, NEW n \in Names,
             \/ \E patch \in Patches : Update(w, n, patch)
             \/ \E new \in Scratch : Duplicate(w, n, new)
             \/ Delete(w, n)
             \/ SetEnabled(w, n)
      PROVE  AssemblyInv'
  BY <1>7, OtherKeeps
<1>8. CASE UNCHANGED vars
  <2>1. /\ TemplatesOk /\ StoredOk /\ StackOk
        /\ UNCHANGED <<specs, enabled, templates, marks, frames>>
    BY <1>8 DEF AssemblyInv, vars, store
  <2>2. Grow /\ TemplatesOk'
    BY <2>1 DEF Grow, TemplatesOk
  <2> QED
    BY <2>1, <2>2, StoreStays, StackStays DEF AssemblyInv
<1> QED
  BY <1>1, <1>2, <1>3, <1>4, <1>5, <1>6, <1>7, <1>8 DEF Next, Create

LEMMA AlwaysAssemblyInv == Spec => []AssemblyInv
BY AssemblyInvInit, AssemblyInvStep, PTL DEF Spec

\* What is stored is sound, and so is every property that says a part of it.
LEMMA StoredIsSound ==
  ASSUME AssemblyInv, NEW w \in Tenants, NEW n \in Names, specs[w][n] # NoSpec
  PROVE  Sound(specs[w][n], marks[w][n], w, TemplateOf(specs[w][n].template))
BY DEF AssemblyInv, StoredOk, StoredAt

\* No proposal of the model, crystallized template, provisioned prerequisite, edit or
\* copy gives an agent a tool that its tenant does not see or that its template does not
\* grant (validators.py: "no self-widening"); and one that acts comes from an operator's
\* approval, for that agent or for the one it is a copy of: duplicate_agent asks nobody.
THEOREM PrivilegeIsLeast == Spec => []LeastPrivilege
<1>1. AssemblyInv => LeastPrivilege
  BY StoredIsSound DEF LeastPrivilege, Sound
<1> QED
  BY <1>1, AlwaysAssemblyInv, PTL

\* Guardrails are never below the floors of the validator and of the template, unless an
\* edit went past the validator; and what may act is reviewed (validators.py).
THEOREM FloorsAlwaysHold == Spec => []FloorsHold
<1>1. AssemblyInv => FloorsHold
  BY StoredIsSound DEF FloorsHold, Sound, Floors
<1> QED
  BY <1>1, AlwaysAssemblyInv, PTL

\* The lanes an agent reads and writes are those of its access list, but for copies of
\* agents without a template (validators.py and duplicate_agent).
THEOREM ScopesMatch == Spec => []ScopeMatchesAcl
<1>1. AssemblyInv => ScopeMatchesAcl
  BY StoredIsSound DEF ScopeMatchesAcl, Sound
<1> QED
  BY <1>1, AlwaysAssemblyInv, PTL

LEMMA AlwaysNestInv == Spec => []NestInv
<1>1. Init => NestInv
  BY DEF Init, NestInv
<1> QED
  BY <1>1, AlwaysAssemblyInv, NestInvStep, PTL DEF Spec

LEMMA AlwaysBounded == Spec => []Bounded
<1>1. Init => Bounded
  <2> SUFFICES ASSUME Init PROVE Bounded
    OBVIOUS
  <2>1. Len(frames) = 0 /\ engine \in Engines /\ requests = 0
    BY DEF Init
  <2> QED
    BY <2>1, BoundsAre DEF Init, Bounded
<1> QED
  BY <1>1, AlwaysAssemblyInv, BoundedStep, PTL DEF Spec

\* Every row, template and creation keeps the type its code gives it, through requests of
\* any kind and proposals of any content; the stack stays within the recursion limit.
THEOREM TypesOk == Spec => []TypeOK
<1>1. AssemblyInv /\ Bounded => TypeOK
  <2> SUFFICES ASSUME AssemblyInv, Bounded PROVE TypeOK
    OBVIOUS
  <2>1. \A w \in Tenants, n \in Names : n \in enabled[w] => specs[w][n] \in AgentSpec
    BY DEF AssemblyInv, StoredOk, StoredAt, Sound
  <2>2. frames \in Seq(Frame)
    <3>1. PICK T : frames \in Seq(T)
      BY DEF AssemblyInv, StackOk
    <3>2. \A i \in 1..Len(frames) : frames[i] \in Frame
      BY DEF AssemblyInv, StackOk, FrameOk
    <3> QED
      BY <3>1, <3>2
  <2> QED
    BY <2>1, <2>2 DEF AssemblyInv, TemplatesOk, StoredOk, Bounded, TypeOK
<1> QED
  BY <1>1, AlwaysAssemblyInv, AlwaysBounded, PTL

\* Whenever the resolver is asked, for any agent, catalog and store: if what is missing
\* has a cycle it says so, and if not, its chain is all that is missing, once, each name
\* after those it depends on (DependencyResolver._collect_chain).
THEOREM ChainsAreBottomUp == Spec => []ChainIsBottomUp
<1>1. AssemblyInv => ChainIsBottomUp
  <2> SUFFICES ASSUME AssemblyInv, frames # <<>>, Top.pc = "resolve"
               PROVE  IsBottomUp(Top.spec.deps, DepsOf, Unsatisfied(Top.req.tenant))
    BY DEF ChainIsBottomUp
  <2>1. Top.spec.deps \in Seq(Dependency)
    BY TopOk DEF AssemblyInv, FrameOk, Sound, AgentSpec
  <2>2. Given(DepsOf, Unsatisfied(Top.req.tenant))
    BY DepsTyped DEF AssemblyInv
  <2> QED
    BY <2>1, <2>2, ChainSortsBottomUp
<1> QED
  BY <1>1, AlwaysAssemblyInv, PTL

\* Without a model, and if nothing is taken away meanwhile, the nested calls of
\* create_agent never come back to a template that is being created: what _auto_provision
\* goes through is fenced off from it by what the resolver found.
THEOREM NothingRunsAway == Spec => []NoRunaway
<1>1. AssemblyInv /\ NestInv => NoRunaway
  <2> SUFFICES ASSUME AssemblyInv, NestInv, engine = "rules", lost = {},
                      NEW i \in DOMAIN frames, NEW j \in DOMAIN frames, i # j
               PROVE  frames[i].req.template # frames[j].req.template
    BY DEF NoRunaway
  <2>1. DOMAIN frames = 1..Len(frames) /\ Len(frames) \in Nat
    BY DEF AssemblyInv, StackOk
  <2>2. frames # <<>>
    BY <2>1
  <2>3. \E w, P : Nested(frames, w, templates) /\ Fenced(frames, P, templates)
    BY <2>2 DEF NestInv, NestIs
  <2>4. ASSUME NEW k \in DOMAIN frames, NEW l \in DOMAIN frames, k < l
        PROVE  frames[k].req.template # frames[l].req.template
    <3>1. l > 1 /\ k \in 1..(l - 1)
      BY <2>1, <2>4
    <3>2. PICK S : S \in SUBSET Names /\ \E P : Fence(S, frames, l, P, templates)
      BY <2>1, <2>3, <3>1 DEF Nested, Fenced
    <3> QED
      BY <3>1, <3>2 DEF Fence
  <2>5. i < j \/ j < i
    BY <2>1
  <2> QED
    BY <2>4, <2>5
<1> QED
  BY <1>1, AlwaysAssemblyInv, AlwaysNestInv, PTL

\* Nothing is saved before its hard prerequisites are there: whatever others do and
\* whichever prerequisites fail, one that is missing was given up, or was taken away,
\* while this request was served (_auto_provision).
THEOREM PrerequisitesAreBuilt == Spec => PrerequisitesBuilt
<1>1. ASSUME AssemblyInv, NestInv, Saving, NEW a \in HardDeps(Top.spec.deps)
      PROVE  Satisfied(Top.req.tenant, a) \/ a \in excused \cup lost
  <2>1. frames # <<>> /\ Top.pc = "provision" /\ Top.todo = <<>>
    BY <1>1 DEF Saving
  <2>2. /\ Top = frames[1] /\ 1 \in 1..Len(frames)
        /\ NestIs(frames, Top.req.tenant, Offers(Top.req.tenant), templates, excused \cup lost, lost)
    BY <1>1, <2>1, NestTop
  <2>3. Covered(Top, NoTemplate, Offers(Top.req.tenant), excused \cup lost)
    BY <2>2 DEF NestIs, AllCovered, Above
  <2>4. a \in Names /\ NoTemplate \notin Names
    BY <1>1, BoundsAre DEF HardDeps
  <2>5. Range(<<>>) = {}
    BY DEF Range
  <2>6. Offered(Offers(Top.req.tenant), a) \/ a \in excused \cup lost
    BY <1>1, <2>1, <2>3, <2>4, <2>5 DEF Covered
  <2> QED
    BY <2>4, <2>6, OffersAre
<1>2. ASSUME AssemblyInv, NestInv
      PROVE  [Saving /\ Len(frames') < Len(frames) =>
                \A a \in HardDeps(Top.spec.deps) :
                  Satisfied(Top.req.tenant, a) \/ a \in excused \cup lost]_vars
  BY <1>1, <1>2
<1> QED
  BY <1>2, AlwaysAssemblyInv, AlwaysNestInv, PTL DEF PrerequisitesBuilt

=============================================================================
