-------------------------- MODULE SupervisorProofs --------------------------
(***************************************************************************)
(* Theorems about Supervisor, for all teams, models and agents.            *)
(***************************************************************************)
EXTENDS Supervisor, FiniteSetTheorems, WellFoundedInduction, TLAPS

-----------------------------------------------------------------------------
(* Names and members.                                                      *)

LEMMA LeastNatural ==
  ASSUME NEW S \in SUBSET Nat, S # {}
  PROVE  \E m \in S : \A k \in S : m <= k
<1> DEFINE R == {p \in Nat \X Nat : p[1] < p[2]}
<1>1. IsWellFoundedOn(R, Nat)
  BY NatLessThanWellFounded DEF OpToRel, IsWellFoundedOn
<1>2. PICK m \in S : \A k \in S : ~ (<<k, m>> \in R)
  BY <1>1, WFMin
<1>3. \A k \in S : <<k, m>> \in R <=> k < m
  OBVIOUS
<1>4. \A k \in S : ~ (k < m)
  <2> HIDE DEF R
  <2> QED
    BY <1>2, <1>3, Zenon
<1>5. \A k \in S : k \in Nat
  OBVIOUS
<1> QED
  BY <1>4, <1>5

LEMMA GreatestIndex ==
  ASSUME NEW n \in Nat, NEW S \in SUBSET (1..n), S # {}
  PROVE  \E m \in S : \A k \in S : k <= m
<1> DEFINE T == {n - i : i \in S}
<1>1. T \in SUBSET Nat /\ T # {}
  <2>1. \A i \in S : i \in Nat /\ n - i \in Nat
    OBVIOUS
  <2>2. PICK i \in S : TRUE
    OBVIOUS
  <2> QED
    BY <2>1, <2>2
<1>2. PICK t \in T : \A k \in T : t <= k
  BY <1>1, LeastNatural
<1>3. PICK m \in S : t = n - m
  BY <1>2
<1>4. \A k \in S : n - m <= n - k
  BY <1>2, <1>3
<1> QED
  BY <1>3, <1>4

LEMMA TeamFacts ==
  ASSUME TeamAssumption, team \in Teams
  PROVE  /\ team \in Seq(Member) /\ team # <<>>
         /\ Members \subseteq Member /\ Crew \subseteq Names
         /\ \A i \in DOMAIN team : team[i] \in Members /\ team[i].name \in Crew
         /\ \A m, o \in Members : m.name = o.name => m = o
         /\ \A a \in Crew : Get(a) \in Members /\ Get(a).name = a
         /\ \A m \in Members : Get(m.name) = m
<1>1. /\ team \in Seq(Member) /\ team # <<>>
      /\ \A i, j \in DOMAIN team : team[i].name = team[j].name => i = j
  BY DEF TeamAssumption
<1>2. Members = {team[i] : i \in DOMAIN team}
  BY DEF Members, Range
<1>3. Members \subseteq Member
  BY <1>1, <1>2
<1>4. Crew \subseteq Names
  BY <1>3 DEF Crew, Member
<1>5. \A i \in DOMAIN team : team[i] \in Members /\ team[i].name \in Crew
  BY <1>2 DEF Crew
<1>6. \A m, o \in Members : m.name = o.name => m = o
  BY <1>1, <1>2
<1>7. \A a \in Crew : Get(a) \in Members /\ Get(a).name = a
  BY DEF Crew, Get
<1>8. \A m \in Members : Get(m.name) = m
  BY <1>6, <1>7 DEF Crew
<1> QED
  BY <1>1, <1>3, <1>4, <1>5, <1>6, <1>7, <1>8

LEMMA ByNameFacts ==
  ASSUME TeamAssumption, team \in Teams, NEW n, Called(n) # {}
  PROVE  \E i \in Called(n) : ByName(n) = team[i]
<1>1. team \in Seq(Member)
  BY TeamFacts
<1>2. Called(n) \in SUBSET (1..Len(team)) /\ Len(team) \in Nat
  BY <1>1 DEF Called
<1>3. \E i \in Called(n) : \A j \in Called(n) : j <= i
  BY <1>2, GreatestIndex
<1> QED
  BY <1>3 DEF ByName

LEMMA ByNameMember ==
  ASSUME TeamAssumption, team \in Teams, NEW n, Called(n) # {}
  PROVE  /\ ByName(n) \in Members
         /\ ByName(n).name \in Crew
         /\ ByName(n).deps \in Seq(Names)
<1>1. PICK i \in DOMAIN team : ByName(n) = team[i]
  BY ByNameFacts DEF Called
<1> QED
  BY <1>1, TeamFacts DEF Member

\* What a step leaves of the team.
LEMMA TeamFixed ==
  ASSUME team' = team
  PROVE  /\ Members' = Members /\ Crew' = Crew
         /\ \A a : Get(a)' = Get(a)
         /\ \A n : Called(n)' = Called(n)
         /\ \A n : ByName(n)' = ByName(n)
         /\ OneSynthesis' = OneSynthesis
         /\ Unambiguous' = Unambiguous
<1>1. Members' = Members
  BY DEF Members
<1>2. \A n : Called(n)' = Called(n)
  BY DEF Called
<1> QED
  BY <1>1, <1>2 DEF Crew, Get, ByName, OneSynthesis, Unambiguous

-----------------------------------------------------------------------------
(* Types, and the recursion of visit: no name is on the stack twice, so it *)
(* is never deeper than there are names.                                   *)

StackIsSound ==
  /\ pc # "order" => stack = <<>>
  /\ pc = "order" => stack # <<>>
  /\ \A i \in DOMAIN stack : stack[i].name = NoAgent <=> i = 1
  /\ \A i \in DOMAIN stack : i > 1 => Called(stack[i].name) # {}
  /\ \A i, j \in DOMAIN stack : stack[i].name = stack[j].name => i = j

DraftIsOfCrew ==
  /\ draft.main \in Seq(Crew) /\ draft.synth \in Seq(Crew)
  /\ queue \in Seq(Crew)
  /\ pc = "revise" => replans < MaxReplans

TypeButDepth ==
  /\ team \in Teams /\ strict \in Stricts
  /\ mode \in {"llm", "dependency"}
  /\ pc \in {"plan", "fill", "order", "dispatch", "revise", "finalize", "done", "raised"}
  /\ stack \in Seq(Frame)
  /\ draft \in [main : Seq(Names), synth : Seq(Names)]
  /\ queue \in Seq(Names)
  /\ ran \in Seq(Run)
  /\ pause \in Names \cup {NoAgent} /\ error \in Names \cup {NoAgent}
  /\ replans \in 0..MaxReplans
  /\ board \in [Keys -> Seq(Outputs)]
  /\ final \in Names \cup {NoAgent}

Typed == TypeButDepth /\ StackIsSound /\ DraftIsOfCrew

LEMMA DepthBound ==
  ASSUME TeamAssumption, stack \in Seq(Frame), StackIsSound
  PROVE  Len(stack) <= Cardinality(Names) + 1
<1> DEFINE f == [i \in 1..Len(stack) |-> stack[i].name]
<1>1. IsFiniteSet(Names \cup {NoAgent}) /\ Cardinality(Names \cup {NoAgent}) = Cardinality(Names) + 1
  BY FS_AddElement DEF TeamAssumption
<1>2. Len(stack) \in Nat /\ DOMAIN stack = 1..Len(stack)
  OBVIOUS
<1>3. \A i \in 1..Len(stack) : stack[i].name \in Names \cup {NoAgent}
  <2>1. \A i \in 1..Len(stack) : stack[i] \in Frame
    OBVIOUS
  <2> QED
    BY <2>1 DEF Frame
<1>4. f \in [1..Len(stack) -> Names \cup {NoAgent}]
  BY <1>3
<1>5. \A i, j \in 1..Len(stack) : f[i] = f[j] => i = j
  BY <1>2 DEF StackIsSound
<1>6. f \in Injection(1..Len(stack), Names \cup {NoAgent})
  BY <1>4, <1>5 DEF Injection, IsInjective
<1>7. Cardinality(1..Len(stack)) <= Cardinality(Names \cup {NoAgent})
  BY <1>1, <1>6, FS_Injection
<1>8. Cardinality(1..Len(stack)) = Len(stack)
  BY <1>2, FS_Interval
<1> QED
  BY <1>1, <1>7, <1>8

LEMMA RootFrameType ==
  ASSUME TeamAssumption, team \in Teams
  PROVE  RootFrame(team) \in Frame /\ RootFrame(team).name = NoAgent
<1>1. team \in Seq(Member) /\ \A i \in DOMAIN team : team[i].name \in Names
  BY TeamFacts
<1>2. [i \in DOMAIN team |-> team[i].name] \in Seq(Names)
  BY <1>1
<1> QED
  BY <1>2 DEF RootFrame, Frame

LEMMA TypedInit ==
  ASSUME TeamAssumption, Init
  PROVE  Typed
<1>1. RootFrame(team) \in Frame /\ RootFrame(team).name = NoAgent
  BY RootFrameType DEF Init
<1>2. stack \in Seq(Frame) /\ StackIsSound
  <2>1. CASE pc = "plan" /\ stack = <<>>
    BY <2>1 DEF StackIsSound
  <2>2. CASE pc = "order" /\ stack = <<RootFrame(team)>>
    <3>1. Len(stack) = 1 /\ stack[1] = RootFrame(team) /\ stack \in Seq(Frame)
      BY <1>1, <2>2
    <3> QED
      BY <1>1, <2>2, <3>1 DEF StackIsSound
  <2> QED
    BY <2>1, <2>2 DEF Init
<1>3. TypeButDepth
  BY <1>2 DEF Init, TypeButDepth, TeamAssumption, Empty
<1>4. DraftIsOfCrew
  BY DEF Init, DraftIsOfCrew, Empty
<1> QED
  BY <1>2, <1>3, <1>4 DEF Typed

\* The parts of the stack that visit reads.
LEMMA StackParts ==
  ASSUME TeamAssumption, stack \in Seq(Frame), StackIsSound, pc = "order"
  PROVE  /\ Len(stack) \in Nat \ {0}
         /\ Top \in Frame /\ Top.todo \in Seq(Names)
         /\ Below \in Seq(Frame) /\ Len(Below) = Len(stack) - 1
         /\ \A i \in 1..(Len(stack) - 1) : Below[i] = stack[i]
         /\ OnStack = {stack[i].name : i \in 1..Len(stack)}
<1>1. Len(stack) \in Nat \ {0} /\ DOMAIN stack = 1..Len(stack)
  BY DEF StackIsSound
<1>2. Top \in Frame
  BY <1>1 DEF Top
<1>3. \A i \in 1..(Len(stack) - 1) : stack[i] \in Frame
  BY <1>1
<1>4. /\ Below \in Seq(Frame) /\ Len(Below) = Len(stack) - 1
      /\ \A i \in 1..(Len(stack) - 1) : Below[i] = stack[i]
  BY <1>1, <1>3 DEF Below
<1> QED
  BY <1>1, <1>2, <1>4 DEF Frame, OnStack

LEMMA VisitStack ==
  ASSUME TeamAssumption, team \in Teams, stack \in Seq(Frame), StackIsSound, Visit
  PROVE  stack' \in Seq(Frame) /\ StackIsSound'
<1> DEFINE n == Head(Top.todo)
           top == [Top EXCEPT !.todo = Tail(@)]
           rest == Append(Below, top)
<1>0. pc = "order" /\ pc' = pc /\ team' = team /\ Top.todo # <<>>
  BY DEF Visit, params
<1>1. /\ Len(stack) \in Nat \ {0}
      /\ Top \in Frame /\ Top.todo \in Seq(Names)
      /\ Below \in Seq(Frame) /\ Len(Below) = Len(stack) - 1
      /\ \A i \in 1..(Len(stack) - 1) : Below[i] = stack[i]
      /\ OnStack = {stack[i].name : i \in 1..Len(stack)}
  BY <1>0, StackParts
<1>2. n \in Names /\ top \in Frame /\ top.name = Top.name
  <2>1. n \in Names /\ Tail(Top.todo) \in Seq(Names)
    BY <1>0, <1>1
  <2> QED
    BY <1>1, <2>1 DEF Frame
<1>3. rest \in Seq(Frame) /\ Len(rest) = Len(stack)
  BY <1>1, <1>2
<1>4. \A i \in 1..Len(stack) : rest[i].name = stack[i].name
  BY <1>1, <1>2 DEF Top
<1>5. stack' = IF Fresh(n) THEN Append(rest, FrameOf(n)) ELSE rest
  BY DEF Visit
<1>6. \A m : Called(m)' = Called(m)
  BY <1>0, TeamFixed
<1> HIDE DEF n, top, rest
<1>7. CASE ~Fresh(n)
  <2>1. stack' = rest
    BY <1>5, <1>7
  <2>2. Len(stack') = Len(stack) /\ stack' \in Seq(Frame)
    BY <1>3, <2>1
  <2>3. \A i \in DOMAIN stack' : i \in DOMAIN stack /\ stack'[i].name = stack[i].name
    BY <1>1, <1>4, <2>1, <2>2
  <2>4. stack' # <<>>
    BY <1>1, <2>2
  <2> QED
    BY <1>0, <1>6, <2>2, <2>3, <2>4 DEF StackIsSound
<1>8. CASE Fresh(n)
  <2>1. stack' = Append(rest, FrameOf(n))
    BY <1>5, <1>8
  <2>2. Called(n) # {} /\ n \notin OnStack
    BY <1>8 DEF Fresh
  <2>3. FrameOf(n) \in Frame /\ FrameOf(n).name = n
    BY <1>2, <2>2, ByNameMember DEF FrameOf, Frame
  <2>4. /\ stack' \in Seq(Frame) /\ Len(stack') = Len(stack) + 1
        /\ \A i \in 1..Len(stack) : stack'[i].name = stack[i].name
        /\ stack'[Len(stack) + 1].name = n
    BY <1>3, <1>4, <2>1, <2>3
  <2>5. n # NoAgent
    BY <1>2 DEF TeamAssumption
  <2>6. \A i \in 1..Len(stack) : stack[i].name # n
    BY <1>1, <2>2
  <2>7. stack' # <<>> /\ DOMAIN stack' = 1..(Len(stack) + 1) /\ DOMAIN stack = 1..Len(stack)
    BY <1>1, <2>4
  <2>8. \A i \in DOMAIN stack' : stack'[i].name = NoAgent <=> i = 1
    <3>1. \A i \in 1..Len(stack) : stack[i].name = NoAgent <=> i = 1
      BY <2>7 DEF StackIsSound
    <3>2. ASSUME NEW i \in 1..Len(stack) PROVE stack'[i].name = NoAgent <=> i = 1
      BY <2>4, <3>1
    <3>3. stack'[Len(stack) + 1].name # NoAgent /\ Len(stack) + 1 # 1
      BY <1>1, <2>4, <2>5
    <3> SUFFICES ASSUME NEW i \in DOMAIN stack'
                 PROVE  stack'[i].name = NoAgent <=> i = 1
      OBVIOUS
    <3>4. CASE i \in 1..Len(stack)
      BY <3>2, <3>4
    <3>5. CASE i = Len(stack) + 1
      BY <3>3, <3>5, Zenon
    <3> QED
      BY <1>1, <2>7, <3>4, <3>5
  <2>9. \A i \in DOMAIN stack' : i > 1 => Called(stack'[i].name) # {}
    <3>1. \A i \in 1..Len(stack) : i > 1 => Called(stack[i].name) # {}
      BY <2>7 DEF StackIsSound
    <3>2. ASSUME NEW i \in 1..Len(stack), i > 1 PROVE Called(stack'[i].name) # {}
      BY <2>4, <3>1, <3>2
    <3>3. Called(stack'[Len(stack) + 1].name) # {}
      BY <2>2, <2>4
    <3> SUFFICES ASSUME NEW i \in DOMAIN stack', i > 1
                 PROVE  Called(stack'[i].name) # {}
      OBVIOUS
    <3>4. CASE i \in 1..Len(stack)
      BY <3>2, <3>4
    <3>5. CASE i = Len(stack) + 1
      BY <3>3, <3>5, Zenon
    <3> QED
      BY <1>1, <2>7, <3>4, <3>5
  <2>10. \A i, j \in DOMAIN stack' : stack'[i].name = stack'[j].name => i = j
    <3>1. \A i, j \in 1..Len(stack) : stack[i].name = stack[j].name => i = j
      BY <2>7 DEF StackIsSound
    <3>2. ASSUME NEW i \in 1..Len(stack), NEW j \in 1..Len(stack),
                 stack'[i].name = stack'[j].name
          PROVE  i = j
      BY <2>4, <3>1, <3>2
    <3>3. ASSUME NEW i \in 1..Len(stack)
          PROVE  stack'[i].name # stack'[Len(stack) + 1].name
      BY <2>4, <2>6
    <3> SUFFICES ASSUME NEW i \in DOMAIN stack', NEW j \in DOMAIN stack',
                        stack'[i].name = stack'[j].name
                 PROVE  i = j
      OBVIOUS
    <3>4. \A k \in DOMAIN stack' : k \in 1..Len(stack) \/ k = Len(stack) + 1
      BY <1>1, <2>7
    <3>5. (i \in 1..Len(stack) \/ i = Len(stack) + 1)
          /\ (j \in 1..Len(stack) \/ j = Len(stack) + 1)
      BY <3>4
    <3> QED
      BY <3>2, <3>3, <3>5, Zenon
  <2> QED
    BY <1>0, <1>6, <2>4, <2>7, <2>8, <2>9, <2>10 DEF StackIsSound
<1> QED
  BY <1>7, <1>8

LEMMA LeaveStack ==
  ASSUME TeamAssumption, stack \in Seq(Frame), StackIsSound, Leave
  PROVE  /\ stack' \in Seq(Frame) /\ StackIsSound'
         /\ Len(stack) > 1 /\ Called(Top.name) # {}
<1>0. pc = "order" /\ pc' = pc /\ team' = team /\ Top.name # NoAgent /\ stack' = Below
  BY DEF Leave, params
<1>1. /\ Len(stack) \in Nat \ {0}
      /\ Below \in Seq(Frame) /\ Len(Below) = Len(stack) - 1
      /\ \A i \in 1..(Len(stack) - 1) : Below[i] = stack[i]
  BY <1>0, StackParts
<1>2. Len(stack) > 1 /\ Called(Top.name) # {}
  <2>1. DOMAIN stack = 1..Len(stack) /\ Len(stack) \in DOMAIN stack
    BY <1>1
  <2>2. Len(stack) # 1
    BY <1>0, <2>1 DEF Top, StackIsSound
  <2>3. Len(stack) > 1
    BY <1>1, <2>2
  <2> QED
    BY <2>1, <2>3 DEF Top, StackIsSound
<1>3. \A m : Called(m)' = Called(m)
  BY <1>0, TeamFixed
<1>4. /\ stack' # <<>>
      /\ \A i \in DOMAIN stack' : i \in DOMAIN stack /\ stack'[i] = stack[i]
  BY <1>0, <1>1, <1>2
<1>5. \A i \in DOMAIN stack' : i > 1 => Called(stack'[i].name) # {}
  BY <1>4 DEF StackIsSound
<1>6. /\ \A i \in DOMAIN stack' : stack'[i].name = NoAgent <=> i = 1
      /\ \A i, j \in DOMAIN stack' : stack'[i].name = stack'[j].name => i = j
  BY <1>4 DEF StackIsSound
<1>7. StackIsSound'
  BY <1>0, <1>3, <1>4, <1>5, <1>6 DEF StackIsSound
<1> QED
  BY <1>0, <1>1, <1>2, <1>7

LEMMA PlacedType ==
  ASSUME TeamAssumption, team \in Teams, DraftIsOfCrew,
         draft \in [main : Seq(Names), synth : Seq(Names)], NEW a \in Crew
  PROVE  /\ Placed(a) \in [main : Seq(Names), synth : Seq(Names)]
         /\ Placed(a).main \in Seq(Crew) /\ Placed(a).synth \in Seq(Crew)
<1>1. a \in Names
  BY TeamFacts
<1>2. /\ Append(draft.main, a) \in Seq(Names) /\ Append(draft.main, a) \in Seq(Crew)
      /\ Append(draft.synth, a) \in Seq(Names) /\ Append(draft.synth, a) \in Seq(Crew)
  BY <1>1 DEF DraftIsOfCrew
<1>3. CASE Get(a).synth
  BY <1>2, <1>3 DEF Placed, DraftIsOfCrew
<1>4. CASE ~Get(a).synth
  BY <1>2, <1>4 DEF Placed, DraftIsOfCrew
<1> QED
  BY <1>3, <1>4

LEMMA StepsType ==
  ASSUME TeamAssumption, team \in Teams, DraftIsOfCrew
  PROVE  Steps \in Seq(Crew) /\ Steps \in Seq(Names)
<1>1. Steps \in Seq(Crew)
  BY DEF Steps, DraftIsOfCrew
<1>2. Crew \subseteq Names
  BY TeamFacts
<1> QED
  BY <1>1, <1>2

LEMMA TypedStep ==
  ASSUME TeamAssumption, Typed, [Next]_vars
  PROVE  Typed'
<1> USE DEF Typed
<1>0. /\ MaxReplans \in Nat
      /\ Crew \subseteq Names
      /\ Empty \in [main : Seq(Names), synth : Seq(Names)]
      /\ Empty.main = <<>> /\ Empty.synth = <<>>
  BY TeamFacts DEF TypeButDepth, TeamAssumption, Empty
<1>1. CASE UNCHANGED vars
  <2>1. team' = team
    BY <1>1 DEF vars, params
  <2>2. Crew' = Crew /\ \A m : Called(m)' = Called(m)
    BY <2>1, TeamFixed
  <2> QED
    BY <1>1, <2>1, <2>2
    DEF TypeButDepth, StackIsSound, DraftIsOfCrew, vars, params, plan, results
<1>2. CASE Next
  <2>0. team' = team /\ strict' = strict /\ team \in Teams
    BY <1>2 DEF Next, Visit, Leave, Ordered, Propose, FallBack, EndOfPlan, AddOmitted,
      Adopt, Keep, Revise, ReviseRaises, Dispatch, Synthesize, Conclude, params, TypeButDepth
  <2>00. Crew' = Crew /\ \A m : Called(m)' = Called(m)
    BY <2>0, TeamFixed
  <2>1. CASE Visit
    <3>1. stack' \in Seq(Frame) /\ StackIsSound'
      BY <2>0, <2>1, VisitStack DEF TypeButDepth
    <3> QED
      BY <2>1, <2>0, <2>00, <3>1 DEF Visit, TypeButDepth, DraftIsOfCrew, params, results
  <2>2. CASE Leave
    <3>1. stack' \in Seq(Frame) /\ StackIsSound' /\ Called(Top.name) # {}
      BY <2>2, LeaveStack DEF TypeButDepth
    <3>2. ByName(Top.name).name \in Crew
      BY <2>0, <3>1, ByNameMember
    <3>3. queue' \in Seq(Crew) /\ queue' \in Seq(Names)
      BY <1>0, <2>2, <3>2 DEF Leave, DraftIsOfCrew, TypeButDepth
    <3> QED
      BY <2>2, <2>0, <2>00, <3>1, <3>3 DEF Leave, TypeButDepth, DraftIsOfCrew, params, results
  <2>3. CASE Ordered
    BY <2>3, <2>0, <2>00
    DEF Ordered, TypeButDepth, StackIsSound, DraftIsOfCrew, params, results
  <2>4. CASE Propose
    <3>1. PICK a \in Proposable : draft' = Placed(a)
      BY <2>4 DEF Propose
    <3>2. a \in Crew
      BY <3>1 DEF Proposable
    <3>3. /\ draft' \in [main : Seq(Names), synth : Seq(Names)]
          /\ draft'.main \in Seq(Crew) /\ draft'.synth \in Seq(Crew)
      BY <2>0, <3>1, <3>2, PlacedType DEF TypeButDepth
    <3> QED
      BY <2>4, <2>0, <2>00, <3>3
      DEF Propose, TypeButDepth, StackIsSound, DraftIsOfCrew, params, results
  <2>5. CASE FallBack
    <3>1. RootFrame(team) \in Frame /\ RootFrame(team).name = NoAgent
      BY <2>0, RootFrameType
    <3>2. /\ stack' \in Seq(Frame) /\ Len(stack') = 1 /\ stack'[1].name = NoAgent
          /\ stack' # <<>> /\ DOMAIN stack' = 1..1
      BY <2>5, <3>1 DEF FallBack
    <3>3. StackIsSound'
      BY <2>5, <3>2 DEF FallBack, StackIsSound
    <3> QED
      BY <1>0, <2>5, <2>0, <2>00, <3>2, <3>3
      DEF FallBack, TypeButDepth, DraftIsOfCrew, params, results
  <2>6. CASE EndOfPlan
    BY <2>6, <2>0, <2>00
    DEF EndOfPlan, TypeButDepth, StackIsSound, DraftIsOfCrew, params, plan, results
  <2>7. CASE AddOmitted
    <3>1. PICK i \in Omitted : draft' = Placed(team[i].name)
      BY <2>7 DEF AddOmitted
    <3>2. team[i].name \in Crew
      BY <2>0, <3>1, TeamFacts DEF Omitted
    <3>3. /\ draft' \in [main : Seq(Names), synth : Seq(Names)]
          /\ draft'.main \in Seq(Crew) /\ draft'.synth \in Seq(Crew)
      BY <2>0, <3>1, <3>2, PlacedType DEF TypeButDepth
    <3> QED
      BY <2>7, <2>0, <2>00, <3>3
      DEF AddOmitted, TypeButDepth, StackIsSound, DraftIsOfCrew, params, results
  <2>8. CASE Adopt \/ Keep \/ Revise
    <3>1. Steps \in Seq(Crew) /\ Steps \in Seq(Names)
      BY <2>0, StepsType
    <3>2. queue' \in Seq(Crew) /\ queue' \in Seq(Names)
      BY <2>8, <3>1 DEF Adopt, Keep, Revise, TypeButDepth, DraftIsOfCrew
    <3>3. replans' \in 0..MaxReplans
      BY <1>0, <2>8 DEF Adopt, Keep, Revise, TypeButDepth, DraftIsOfCrew
    <3> QED
      BY <1>0, <2>8, <2>0, <2>00, <3>2, <3>3
      DEF Adopt, Keep, Revise, TypeButDepth, StackIsSound, DraftIsOfCrew, params, results
  <2>9. CASE ReviseRaises
    BY <2>9, <2>0, <2>00
    DEF ReviseRaises, Empty, TypeButDepth, StackIsSound, DraftIsOfCrew, params, results
  <2>10. CASE Dispatch
    <3>1. PICK s \in Status, v \in Outputs :
            /\ ran' = Append(ran, [agent |-> Head(queue), status |-> s, out |-> v, by |-> "plan"])
            /\ Write(Get(Head(queue)), v)
            /\ final' = IF Get(Head(queue)).synth THEN Head(queue) ELSE final
            /\ pause' = IF s = "needs_review" /\ pause = NoAgent THEN Head(queue) ELSE pause
            /\ error' = IF s = "blocked" /\ error = NoAgent THEN Head(queue) ELSE error
            /\ pc' = IF Halts(s) THEN "finalize" ELSE IF MayRevise THEN "revise" ELSE "dispatch"
      BY <2>10 DEF Dispatch
    <3>2. Head(queue) \in Crew /\ Tail(queue) \in Seq(Crew) /\ Tail(queue) \in Seq(Names)
      BY <2>10 DEF Dispatch, DraftIsOfCrew, TypeButDepth
    <3>3. ran' \in Seq(Run)
      BY <1>0, <3>1, <3>2 DEF Run, TypeButDepth
    <3>4. Get(Head(queue)).key \in Keys
      <4>1. Get(Head(queue)) \in Member
        BY <2>0, <3>2, TeamFacts
      <4> QED
        BY <4>1 DEF Member
    <3>5. board' \in [Keys -> Seq(Outputs)]
      BY <3>1, <3>4 DEF Write, TypeButDepth
    <3>6. pc' = "revise" => replans < MaxReplans
      BY <3>1 DEF MayRevise
    <3> QED
      BY <1>0, <2>10, <2>0, <2>00, <3>1, <3>2, <3>3, <3>5, <3>6
      DEF Dispatch, TypeButDepth, StackIsSound, DraftIsOfCrew, params
  <2>11. CASE Synthesize
    <3>1. PICK i \in Idle, s \in Status, v \in Outputs :
            /\ ran' = Append(ran, [agent |-> team[i].name, status |-> s, out |-> v,
                                    by |-> "finalizer"])
            /\ final' = team[i].name
      BY <2>11 DEF Synthesize
    <3>2. team[i].name \in Names
      BY <1>0, <2>0, <3>1, TeamFacts DEF Idle
    <3>3. ran' \in Seq(Run)
      BY <3>1, <3>2 DEF Run, TypeButDepth
    <3> QED
      BY <2>11, <2>0, <2>00, <3>1, <3>2, <3>3
      DEF Synthesize, PlanIsOver, TypeButDepth, StackIsSound, DraftIsOfCrew, params, plan
  <2>12. CASE Conclude
    <3>1. ran # <<>> => ran[Len(ran)].agent \in Names
      <4>1. ran \in Seq(Run)
        BY DEF TypeButDepth
      <4>2. ran # <<>> => ran[Len(ran)] \in Run
        BY <4>1
      <4> QED
        BY <4>2 DEF Run
    <3> QED
      BY <2>12, <2>0, <2>00, <3>1
      DEF Conclude, PlanIsOver, TypeButDepth, StackIsSound, DraftIsOfCrew, params, plan
  <2> QED
    BY <1>2, <2>1, <2>2, <2>3, <2>4, <2>5, <2>6, <2>7, <2>8, <2>9, <2>10, <2>11, <2>12 DEF Next
<1> QED
  BY <1>1, <1>2

LEMMA TypedImplies ==
  ASSUME TeamAssumption, Typed
  PROVE  TypeOK
<1>1. Len(stack) <= Cardinality(Names) + 1
  BY DepthBound DEF Typed, TypeButDepth
<1> QED
  BY <1>1 DEF Typed, TypeButDepth, TypeOK

\* The variables keep their types, and visit never recurses deeper than there are
\* names, whatever cycles the dependencies have.
THEOREM TypeCorrect == Spec => []TypeOK
<1>1. Init => Typed
  BY TypedInit, TeamAssumption
<1>2. Typed /\ [Next]_vars => Typed'
  BY TypedStep, TeamAssumption
<1>3. Typed => TypeOK
  BY TypedImplies, TeamAssumption
<1> QED
  BY <1>1, <1>2, <1>3, PTL DEF Spec

-----------------------------------------------------------------------------
(* Sequences without repetition.                                           *)

Distinct(s) == \A i, j \in DOMAIN s : s[i] = s[j] => i = j

LEMMA AppendDistinct ==
  ASSUME NEW S, NEW s \in Seq(S), NEW e \in S
  PROVE  /\ Range(Append(s, e)) = Range(s) \cup {e}
         /\ Distinct(s) /\ e \notin Range(s) => Distinct(Append(s, e))
<1>1. /\ DOMAIN s = 1..Len(s) /\ Len(s) \in Nat
      /\ DOMAIN Append(s, e) = 1..(Len(s) + 1)
      /\ \A i \in 1..Len(s) : Append(s, e)[i] = s[i]
      /\ Append(s, e)[Len(s) + 1] = e
  OBVIOUS
<1>2. Range(Append(s, e)) = Range(s) \cup {e}
  BY <1>1 DEF Range
<1>3. Distinct(s) /\ e \notin Range(s) => Distinct(Append(s, e))
  BY <1>1 DEF Range, Distinct
<1> QED
  BY <1>2, <1>3

LEMMA TailDistinct ==
  ASSUME NEW S, NEW s \in Seq(S), s # <<>>, Distinct(s)
  PROVE  /\ Range(s) = Range(Tail(s)) \cup {Head(s)}
         /\ Head(s) \notin Range(Tail(s))
         /\ Distinct(Tail(s))
<1>1. /\ DOMAIN s = 1..Len(s) /\ Len(s) \in Nat /\ Len(s) > 0 /\ Head(s) = s[1]
      /\ Tail(s) \in Seq(S) /\ Len(Tail(s)) = Len(s) - 1
      /\ DOMAIN Tail(s) = 1..(Len(s) - 1)
      /\ \A i \in 1..(Len(s) - 1) : Tail(s)[i] = s[i + 1]
  OBVIOUS
<1>2. Range(Tail(s)) = {s[i] : i \in 2..Len(s)}
  <2>1. \A i \in 2..Len(s) : i - 1 \in DOMAIN Tail(s) /\ Tail(s)[i - 1] = s[i]
    BY <1>1
  <2>2. \A i \in DOMAIN Tail(s) : i + 1 \in 2..Len(s) /\ Tail(s)[i] = s[i + 1]
    BY <1>1
  <2>3. ASSUME NEW x \in Range(Tail(s)) PROVE \E i \in 2..Len(s) : x = s[i]
    <3>1. PICK i \in DOMAIN Tail(s) : x = Tail(s)[i]
      BY DEF Range
    <3> QED
      BY <2>2, <3>1
  <2>4. ASSUME NEW i \in 2..Len(s) PROVE s[i] \in Range(Tail(s))
    BY <2>1 DEF Range
  <2> QED
    BY <2>3, <2>4
<1>3. Range(s) = Range(Tail(s)) \cup {Head(s)}
  <2>1. 1..Len(s) = 2..Len(s) \cup {1}
    BY <1>1
  <2> QED
    BY <1>1, <1>2, <2>1 DEF Range
<1>4. Head(s) \notin Range(Tail(s))
  BY <1>1, <1>2 DEF Distinct
<1>5. Distinct(Tail(s))
  BY <1>1 DEF Distinct
<1> QED
  BY <1>3, <1>4, <1>5

LEMMA ConcatParts ==
  ASSUME NEW S, NEW s \in Seq(S), NEW t \in Seq(S)
  PROVE  /\ Len(s) \in Nat /\ Len(t) \in Nat
         /\ Len(s \o t) = Len(s) + Len(t)
         /\ DOMAIN (s \o t) = 1..(Len(s) + Len(t))
         /\ \A i \in 1..Len(s) : (s \o t)[i] = s[i]
         /\ \A i \in (Len(s) + 1)..(Len(s) + Len(t)) : (s \o t)[i] = t[i - Len(s)]
OBVIOUS

LEMMA ConcatDistinct ==
  ASSUME NEW S, NEW s \in Seq(S), NEW t \in Seq(S)
  PROVE  /\ Range(s \o t) = Range(s) \cup Range(t)
         /\ Distinct(s) /\ Distinct(t) /\ Range(s) \cap Range(t) = {} => Distinct(s \o t)
<1>1. /\ DOMAIN s = 1..Len(s) /\ Len(s) \in Nat
      /\ DOMAIN t = 1..Len(t) /\ Len(t) \in Nat
      /\ DOMAIN (s \o t) = 1..(Len(s) + Len(t))
      /\ \A i \in 1..Len(s) : (s \o t)[i] = s[i]
      /\ \A i \in (Len(s) + 1)..(Len(s) + Len(t)) : (s \o t)[i] = t[i - Len(s)]
  OBVIOUS
<1>2. \A i \in 1..Len(t) : (s \o t)[Len(s) + i] = t[i]
  BY <1>1
<1>3. Range(s \o t) = Range(s) \cup Range(t)
  <2>1. ASSUME NEW x \in Range(s \o t) PROVE x \in Range(s) \cup Range(t)
    <3>1. PICK i \in 1..(Len(s) + Len(t)) : x = (s \o t)[i]
      BY <1>1 DEF Range
    <3>2. CASE i <= Len(s)
      BY <1>1, <3>1, <3>2 DEF Range
    <3>3. CASE i > Len(s)
      <4>1. i - Len(s) \in DOMAIN t /\ x = t[i - Len(s)]
        BY <1>1, <3>1, <3>3
      <4> QED
        BY <4>1 DEF Range
    <3> QED
      BY <1>1, <3>2, <3>3
  <2>2. Range(s) \subseteq Range(s \o t)
    <3>1. \A i \in DOMAIN s : i \in DOMAIN (s \o t) /\ (s \o t)[i] = s[i]
      BY <1>1
    <3> QED
      BY <3>1 DEF Range
  <2>3. Range(t) \subseteq Range(s \o t)
    <3>1. \A i \in DOMAIN t : Len(s) + i \in DOMAIN (s \o t) /\ (s \o t)[Len(s) + i] = t[i]
      BY <1>1, <1>2
    <3> QED
      BY <3>1 DEF Range
  <2> QED
    BY <2>1, <2>2, <2>3
<1>4. ASSUME Distinct(s), Distinct(t), Range(s) \cap Range(t) = {}
      PROVE  Distinct(s \o t)
  <2> SUFFICES ASSUME NEW i \in 1..(Len(s) + Len(t)), NEW j \in 1..(Len(s) + Len(t)),
                      (s \o t)[i] = (s \o t)[j]
               PROVE  i = j
    BY <1>1 DEF Distinct
  <2>1. \A k \in 1..Len(s) : (s \o t)[k] \in Range(s)
    BY <1>1 DEF Range
  <2>2. \A k \in (Len(s) + 1)..(Len(s) + Len(t)) : (s \o t)[k] \in Range(t)
    <3> TAKE k \in (Len(s) + 1)..(Len(s) + Len(t))
    <3>1. k - Len(s) \in DOMAIN t /\ (s \o t)[k] = t[k - Len(s)]
      BY <1>1
    <3> QED
      BY <3>1 DEF Range
  <2>3. CASE i <= Len(s) /\ j <= Len(s)
    BY <1>1, <1>4, <2>3 DEF Distinct
  <2>4. CASE i > Len(s) /\ j > Len(s)
    <3>1. i - Len(s) \in DOMAIN t /\ j - Len(s) \in DOMAIN t /\ t[i - Len(s)] = t[j - Len(s)]
      BY <1>1, <2>4
    <3>2. i - Len(s) = j - Len(s)
      BY <1>4, <3>1 DEF Distinct
    <3> QED
      BY <1>1, <3>2
  <2>5. i <= Len(s) <=> j <= Len(s)
    BY <1>1, <1>4, <2>1, <2>2
  <2> QED
    BY <1>1, <2>3, <2>4, <2>5
<1> QED
  BY <1>3, <1>4

LEMMA RangeInSet ==
  ASSUME NEW S, NEW s \in Seq(S)
  PROVE  Range(s) \subseteq S
BY DEF Range

\* What Tail does to a queue.
LEMMA TailParts ==
  ASSUME NEW S, NEW s \in Seq(S), s # <<>>
  PROVE  /\ DOMAIN s = 1..Len(s) /\ Len(s) \in Nat \ {0} /\ Head(s) = s[1]
         /\ Tail(s) \in Seq(S)
         /\ DOMAIN Tail(s) = 1..(Len(s) - 1) /\ Len(Tail(s)) = Len(s) - 1
         /\ \A i \in 1..(Len(s) - 1) : Tail(s)[i] = s[i + 1]
         /\ Tail(s) = <<>> <=> Len(s) = 1
<1>1. /\ DOMAIN s = 1..Len(s) /\ Len(s) \in Nat \ {0} /\ Head(s) = s[1]
      /\ Tail(s) \in Seq(S)
      /\ DOMAIN Tail(s) = 1..(Len(s) - 1) /\ Len(Tail(s)) = Len(s) - 1
      /\ \A i \in 1..(Len(s) - 1) : Tail(s)[i] = s[i + 1]
  OBVIOUS
<1>2. Tail(s) = <<>> <=> Len(Tail(s)) = 0
  <2> DEFINE t == Tail(s)
  <2>1. t \in Seq(S)
    BY <1>1
  <2> HIDE DEF t
  <2>2. t = <<>> <=> Len(t) = 0
    BY <2>1
  <2> QED
    BY <2>2 DEF t
<1> QED
  BY <1>1, <1>2

LEMMA TailCovers ==
  ASSUME NEW S, NEW s \in Seq(S), s # <<>>
  PROVE  Range(s) \subseteq Range(Tail(s)) \cup {Head(s)}
<1> SUFFICES ASSUME NEW i \in DOMAIN s, i # 1 PROVE s[i] \in Range(Tail(s))
  BY TailParts DEF Range
<1>1. i - 1 \in DOMAIN Tail(s) /\ Tail(s)[i - 1] = s[i]
  BY TailParts
<1> QED
  BY <1>1 DEF Range

LEMMA AppendRun ==
  ASSUME ran \in Seq(Run), NEW r \in Run
  PROVE  LET after == Append(ran, r)
         IN  /\ DOMAIN ran = 1..Len(ran) /\ Len(ran) \in Nat
             /\ DOMAIN after = 1..(Len(ran) + 1) /\ Len(after) = Len(ran) + 1
             /\ \A i \in 1..Len(ran) : after[i] = ran[i]
             /\ after[Len(ran) + 1] = r
OBVIOUS

-----------------------------------------------------------------------------
(* After a halt.                                                           *)

Halting == {"blocked", "needs_review"}

NoneHalted ==
  /\ pause = NoAgent /\ error = NoAgent
  /\ \A i \in DOMAIN ran : ran[i].status \notin Halting

HaltInv ==
  /\ ~strict /\ pc \notin {"finalize", "done"} => NoneHalted
  /\ HaltStops

LEMMA HaltStep ==
  ASSUME TeamAssumption, Typed, HaltInv, [Next]_vars
  PROVE  HaltInv'
<1>1. CASE UNCHANGED <<strict, ran, pause, error>> /\ (pc' = pc \/ pc \notin {"finalize", "done"})
  BY <1>1 DEF HaltInv, NoneHalted, HaltStops
<1>2. CASE Dispatch
  <2>1. PICK s \in Status, v \in Outputs :
          /\ ran' = Append(ran, [agent |-> Head(queue), status |-> s, out |-> v, by |-> "plan"])
          /\ pause' = IF s = "needs_review" /\ pause = NoAgent THEN Head(queue) ELSE pause
          /\ error' = IF s = "blocked" /\ error = NoAgent THEN Head(queue) ELSE error
          /\ pc' = IF Halts(s) THEN "finalize" ELSE IF MayRevise THEN "revise" ELSE "dispatch"
    BY <1>2 DEF Dispatch
  <2> DEFINE r == [agent |-> Head(queue), status |-> s, out |-> v, by |-> "plan"]
  <2>2. r \in Run /\ ran \in Seq(Run) /\ ran' = Append(ran, r) /\ r.status = s
    BY <1>2, <2>1 DEF Dispatch, Typed, TypeButDepth, Run
  <2>3. /\ DOMAIN ran = 1..Len(ran) /\ Len(ran) \in Nat
        /\ DOMAIN ran' = 1..(Len(ran) + 1)
        /\ \A i \in 1..Len(ran) : ran'[i] = ran[i]
        /\ ran'[Len(ran) + 1] = r
    BY <2>2, AppendRun
  <2>4. strict' = strict
    BY <1>2 DEF Dispatch, params
  <2> HIDE DEF r
  <2>5. CASE strict
    BY <2>4, <2>5 DEF HaltInv, HaltStops
  <2>6. CASE ~strict
    <3>1. NoneHalted
      BY <1>2, <2>6 DEF Dispatch, HaltInv
    <3>2. Halts(s) <=> s \in Halting
      BY <2>6, <3>1 DEF Halts, NoneHalted, Halting
    <3>3. pc' \notin {"finalize", "done"} => NoneHalted'
      BY <2>1, <2>2, <2>3, <3>1, <3>2 DEF NoneHalted, Halting
    <3>4. HaltStops'
      BY <2>3, <3>1 DEF HaltStops, NoneHalted, Halting
    <3> QED
      BY <3>3, <3>4 DEF HaltInv
  <2> QED
    BY <2>5, <2>6
<1>3. CASE Synthesize
  <2>1. PICK i \in Idle, s \in Status, v \in Outputs :
          ran' = Append(ran, [agent |-> team[i].name, status |-> s, out |-> v, by |-> "finalizer"])
    BY <1>3 DEF Synthesize
  <2> DEFINE r == [agent |-> team[i].name, status |-> s, out |-> v, by |-> "finalizer"]
  <2>2. team[i].name \in Names
    BY <2>1, TeamFacts DEF Idle, Typed, TypeButDepth
  <2>3. r \in Run /\ ran \in Seq(Run) /\ ran' = Append(ran, r) /\ r.by = "finalizer"
    BY <2>1, <2>2 DEF Typed, TypeButDepth, Run
  <2>4. /\ DOMAIN ran = 1..Len(ran) /\ Len(ran) \in Nat
        /\ DOMAIN ran' = 1..(Len(ran) + 1)
        /\ \A k \in 1..Len(ran) : ran'[k] = ran[k]
        /\ ran'[Len(ran) + 1] = r
    BY <2>3, AppendRun
  <2>5. strict' = strict /\ pc' = "done"
    BY <1>3 DEF Synthesize, params
  <2> QED
    BY <2>3, <2>4, <2>5 DEF HaltInv, HaltStops
<1>4. CASE Conclude
  BY <1>4 DEF Conclude, params, HaltInv, HaltStops
<1> QED
  BY <1>1, <1>2, <1>3, <1>4
  DEF Next, Visit, Leave, Ordered, Propose, FallBack, EndOfPlan, AddOmitted, Adopt, Keep,
    Revise, ReviseRaises, params, plan, results, vars

\* A run that is not strict stops at the first agent that is blocked or awaits a
\* review: only the finalizer's synthesis runs after it.
THEOREM HaltsStopTheRun == Spec => []HaltStops
<1>1. Init => Typed /\ HaltInv
  BY TypedInit, TeamAssumption DEF Init, HaltInv, NoneHalted, HaltStops
<1>2. Typed /\ HaltInv /\ [Next]_vars => Typed' /\ HaltInv'
  BY TypedStep, HaltStep, TeamAssumption
<1>3. HaltInv => HaltStops
  BY DEF HaltInv
<1> QED
  BY <1>1, <1>2, <1>3, PTL DEF Spec

-----------------------------------------------------------------------------
(* No agent twice: what was executed, what is queued and what is drafted   *)
(* stay apart.                                                             *)

Apart ==
  /\ Distinct(queue) /\ Distinct(draft.main) /\ Distinct(draft.synth)
  /\ Range(draft.main) \cap Range(draft.synth) = {}
  /\ Drafted \cap Executed = {}
  /\ pc # "done" => Range(queue) \cap Executed = {}
  /\ pc \in {"plan", "fill", "order"} => ran = <<>>
  /\ pc \notin {"plan", "fill", "revise"} => draft = Empty

OnceInv == RunsOnce /\ Apart

LEMMA EmptyDraft ==
  /\ Distinct(<<>>) /\ Range(<<>>) = {}
  /\ draft = Empty => Drafted = {}
  /\ draft' = Empty => Drafted' = {}
BY DEF Distinct, Range, Drafted, Empty

LEMMA PlacedApart ==
  ASSUME TeamAssumption, Typed, Apart, NEW a \in Crew, a \notin Drafted, draft' = Placed(a)
  PROVE  /\ Distinct(draft'.main) /\ Distinct(draft'.synth)
         /\ Range(draft'.main) \cap Range(draft'.synth) = {}
         /\ Drafted' = Drafted \cup {a}
<1>1. draft.main \in Seq(Crew) /\ draft.synth \in Seq(Crew)
  BY DEF Typed, DraftIsOfCrew
<1>2. draft \in [main : Seq(Names), synth : Seq(Names)]
  BY DEF Typed, TypeButDepth
<1>3. a \notin Range(draft.main) /\ a \notin Range(draft.synth)
  BY DEF Drafted
<1>4. CASE Get(a).synth
  <2>1. draft'.main = draft.main /\ draft'.synth = Append(draft.synth, a)
    BY <1>2, <1>4 DEF Placed
  <2>2. /\ Distinct(draft'.synth)
        /\ Range(draft'.synth) = Range(draft.synth) \cup {a}
    BY <1>1, <1>3, <2>1, AppendDistinct DEF Apart
  <2> QED
    BY <1>3, <2>1, <2>2 DEF Apart, Drafted
<1>5. CASE ~Get(a).synth
  <2>1. draft'.synth = draft.synth /\ draft'.main = Append(draft.main, a)
    BY <1>2, <1>5 DEF Placed
  <2>2. /\ Distinct(draft'.main)
        /\ Range(draft'.main) = Range(draft.main) \cup {a}
    BY <1>1, <1>3, <2>1, AppendDistinct DEF Apart
  <2> QED
    BY <1>3, <2>1, <2>2 DEF Apart, Drafted
<1> QED
  BY <1>4, <1>5

LEMMA StepsApart ==
  ASSUME Typed, Apart
  PROVE  Distinct(Steps) /\ Range(Steps) = Drafted
<1>1. draft.main \in Seq(Crew) /\ draft.synth \in Seq(Crew)
  BY DEF Typed, DraftIsOfCrew
<1> QED
  BY <1>1, ConcatDistinct DEF Steps, Drafted, Apart

\* One more run.
LEMMA OneMore ==
  ASSUME ran \in Seq(Run), RunsOnce, NEW r \in Run, r.agent \notin Executed,
         ran' = Append(ran, r)
  PROVE  RunsOnce' /\ Executed' = Executed \cup {r.agent}
<1>1. /\ DOMAIN ran = 1..Len(ran) /\ Len(ran) \in Nat
      /\ DOMAIN ran' = 1..(Len(ran) + 1)
      /\ \A i \in 1..Len(ran) : ran'[i] = ran[i]
      /\ ran'[Len(ran) + 1] = r
  BY AppendRun
<1>2. \A i \in 1..Len(ran) : ran[i].agent # r.agent
  BY <1>1 DEF Executed
<1>3. RunsOnce'
  BY <1>1, <1>2 DEF RunsOnce
<1>4. Executed' = Executed \cup {r.agent}
  <2>1. \A i \in DOMAIN ran : i \in DOMAIN ran' /\ ran'[i].agent = ran[i].agent
    BY <1>1
  <2>2. Len(ran) + 1 \in DOMAIN ran' /\ ran'[Len(ran) + 1].agent = r.agent
    BY <1>1
  <2>3. \A i \in DOMAIN ran' : i \in DOMAIN ran \/ i = Len(ran) + 1
    BY <1>1
  <2> QED
    BY <2>1, <2>2, <2>3 DEF Executed
<1> QED
  BY <1>3, <1>4

LEMMA OnceStep ==
  ASSUME TeamAssumption, Typed, OnceInv, [Next]_vars
  PROVE  OnceInv'
<1> USE DEF OnceInv
<1>1. UNCHANGED ran => RunsOnce' /\ Executed' = Executed
  BY DEF RunsOnce, Executed
<1>2. UNCHANGED draft => Drafted' = Drafted
  BY DEF Drafted
<1>3. CASE UNCHANGED vars
  BY <1>1, <1>2, <1>3 DEF vars, results, plan, Apart
<1>4. CASE Visit
  BY <1>1, <1>2, <1>4 DEF Visit, results, Apart
<1>5. CASE Leave
  <2>1. stack' \in Seq(Frame) /\ Called(Top.name) # {} /\ team \in Teams
    BY <1>5, LeaveStack DEF Typed, TypeButDepth
  <2> DEFINE a == ByName(Top.name).name
  <2>2. a \in Crew /\ queue \in Seq(Crew)
    BY <2>1, ByNameMember DEF Typed, DraftIsOfCrew
  <2>3. queue' = IF a \in Range(queue) THEN queue ELSE Append(queue, a)
    BY <1>5 DEF Leave
  <2> HIDE DEF a
  <2>4. Distinct(queue')
    BY <2>2, <2>3, AppendDistinct DEF Apart
  <2>5. Executed = {}
    BY <1>5 DEF Leave, Apart, Executed
  <2> QED
    BY <1>1, <1>2, <1>5, <2>4, <2>5 DEF Leave, results, Apart
<1>6. CASE Ordered \/ EndOfPlan
  BY <1>1, <1>2, <1>6 DEF Ordered, EndOfPlan, plan, results, Apart
<1>14. CASE ReviseRaises
  <2>1. draft' = Empty /\ Drafted' = {} /\ draft'.main = <<>> /\ draft'.synth = <<>>
    BY <1>14, EmptyDraft DEF ReviseRaises, Empty
  <2>2. UNCHANGED <<ran, queue>> /\ pc' = "raised" /\ pc = "revise"
    BY <1>14 DEF ReviseRaises, results
  <2> QED
    BY <1>1, <1>2, <2>1, <2>2, EmptyDraft DEF Apart
<1>7. CASE Propose
  <2>1. PICK a \in Proposable : draft' = Placed(a)
    BY <1>7 DEF Propose
  <2>2. a \in Crew /\ a \notin Drafted /\ a \notin Executed
    BY <2>1 DEF Proposable
  <2>3. /\ Distinct(draft'.main) /\ Distinct(draft'.synth)
        /\ Range(draft'.main) \cap Range(draft'.synth) = {}
        /\ Drafted' = Drafted \cup {a}
    BY <2>1, <2>2, PlacedApart
  <2> QED
    BY <1>1, <1>7, <2>2, <2>3 DEF Propose, results, Apart
<1>8. CASE FallBack
  <2>1. draft' = Empty /\ Drafted' = {} /\ draft'.main = <<>> /\ draft'.synth = <<>>
    BY <1>8, EmptyDraft DEF FallBack, Empty
  <2> QED
    BY <1>1, <1>8, <2>1, EmptyDraft DEF FallBack, results, Apart
<1>9. CASE AddOmitted
  <2>1. PICK i \in Omitted : draft' = Placed(team[i].name)
    BY <1>9 DEF AddOmitted
  <2>2. team[i].name \in Crew /\ team[i].name \notin Drafted
    BY <2>1, TeamFacts DEF Omitted, Typed, TypeButDepth
  <2>3. /\ Distinct(draft'.main) /\ Distinct(draft'.synth)
        /\ Range(draft'.main) \cap Range(draft'.synth) = {}
    BY <2>1, <2>2, PlacedApart
  <2>4. Executed = {}
    BY <1>9 DEF AddOmitted, Apart, Executed
  <2> QED
    BY <1>1, <1>9, <2>3, <2>4 DEF AddOmitted, results, Apart
<1>10. CASE Adopt \/ Keep \/ Revise
  <2>1. draft' = Empty /\ Drafted' = {} /\ draft'.main = <<>> /\ draft'.synth = <<>>
    BY <1>10, EmptyDraft DEF Adopt, Keep, Revise, Empty
  <2>2. Distinct(queue') /\ Range(queue') \cap Executed = {}
    BY <1>10, StepsApart DEF Adopt, Keep, Revise, Apart
  <2> QED
    BY <1>1, <1>10, <2>1, <2>2, EmptyDraft DEF Adopt, Keep, Revise, results, Apart
<1>11. CASE Dispatch
  <2>1. PICK s \in Status, v \in Outputs :
          ran' = Append(ran, [agent |-> Head(queue), status |-> s, out |-> v, by |-> "plan"])
    BY <1>11 DEF Dispatch
  <2> DEFINE r == [agent |-> Head(queue), status |-> s, out |-> v, by |-> "plan"]
  <2>2. /\ r \in Run /\ ran \in Seq(Run) /\ queue \in Seq(Names) /\ queue # <<>>
        /\ r.agent = Head(queue)
    BY <1>11 DEF Dispatch, Typed, TypeButDepth, Run
  <2>3. /\ Range(queue) = Range(Tail(queue)) \cup {Head(queue)}
        /\ Head(queue) \notin Range(Tail(queue))
        /\ Distinct(Tail(queue))
    BY <2>2, TailDistinct DEF Apart
  <2>4. Head(queue) \notin Executed
    BY <1>11, <2>3 DEF Dispatch, Apart
  <2>5. RunsOnce' /\ Executed' = Executed \cup {Head(queue)}
    BY <2>1, <2>2, <2>4, OneMore
  <2>6. draft' = draft /\ draft = Empty /\ Drafted' = {}
    BY <1>11, EmptyDraft DEF Dispatch, Apart
  <2>7. queue' = Tail(queue) /\ Range(queue') \cap Executed' = {} /\ Distinct(queue')
    BY <1>11, <2>3, <2>5 DEF Dispatch, Apart
  <2>8. pc' \notin {"plan", "fill", "order"}
    BY <1>11 DEF Dispatch
  <2> QED
    BY <2>5, <2>6, <2>7, <2>8 DEF Apart
<1>12. CASE Synthesize
  <2>1. PICK i \in Idle, s \in Status, v \in Outputs :
          ran' = Append(ran, [agent |-> team[i].name, status |-> s, out |-> v, by |-> "finalizer"])
    BY <1>12 DEF Synthesize
  <2> DEFINE r == [agent |-> team[i].name, status |-> s, out |-> v, by |-> "finalizer"]
  <2>2. team[i].name \in Names /\ team[i].name \notin Executed
    BY <2>1, TeamFacts DEF Idle, Typed, TypeButDepth
  <2>3. r \in Run /\ ran \in Seq(Run) /\ r.agent = team[i].name
    BY <2>1, <2>2 DEF Typed, TypeButDepth, Run
  <2>4. RunsOnce'
    BY <2>1, <2>2, <2>3, OneMore
  <2>5. draft' = draft /\ draft = Empty /\ Drafted' = {} /\ queue' = queue /\ pc' = "done"
    BY <1>12, EmptyDraft DEF Synthesize, PlanIsOver, plan, Apart
  <2> QED
    BY <2>4, <2>5 DEF Apart
<1>13. CASE Conclude
  BY <1>1, <1>2, <1>13 DEF Conclude, PlanIsOver, plan, Apart
<1> QED
  BY <1>3, <1>4, <1>5, <1>6, <1>7, <1>8, <1>9, <1>10, <1>11, <1>12, <1>13, <1>14 DEF Next

\* For any team, plan, revisions and results, no agent runs twice.
THEOREM AgentsRunOnce == Spec => []RunsOnce
<1>1. Init => Typed /\ OnceInv
  <2> SUFFICES ASSUME Init PROVE OnceInv
    BY TypedInit, TeamAssumption
  <2>1. draft.main = <<>> /\ draft.synth = <<>> /\ Drafted = {}
    BY EmptyDraft DEF Init, Empty
  <2> QED
    BY <2>1, EmptyDraft DEF Init, OnceInv, RunsOnce, Apart, Executed
<1>2. Typed /\ OnceInv /\ [Next]_vars => Typed' /\ OnceInv'
  BY TypedStep, OnceStep, TeamAssumption
<1>3. OnceInv => RunsOnce
  BY DEF OnceInv
<1> QED
  BY <1>1, <1>2, <1>3, PTL DEF Spec

-----------------------------------------------------------------------------
(* The synthesis agent of a plan of the model comes last.                  *)

SynthRan == \E i \in DOMAIN ran : Get(ran[i].agent).synth

SynthInv ==
  /\ \A a \in Range(draft.main) : ~Get(a).synth
  /\ \A a \in Range(draft.synth) : Get(a).synth
  /\ SynthRan => final # NoAgent
  /\ pc = "revise" => queue # <<>>
  /\ pc = "order" => mode = "dependency"
  /\ mode = "llm" /\ OneSynthesis =>
       /\ \A i \in DOMAIN queue : Get(queue[i]).synth => i = Len(queue)
       /\ SynthRan /\ pc # "done" => queue = <<>>
  /\ SynthesisLast

LEMMA PlacedSorted ==
  ASSUME Typed, SynthInv, NEW a \in Crew, draft' = Placed(a)
  PROVE  /\ \A b \in Range(draft'.main) : ~Get(b).synth
         /\ \A b \in Range(draft'.synth) : Get(b).synth
<1>1. /\ draft.main \in Seq(Crew) /\ draft.synth \in Seq(Crew)
      /\ draft \in [main : Seq(Names), synth : Seq(Names)]
  BY DEF Typed, DraftIsOfCrew, TypeButDepth
<1>2. CASE Get(a).synth
  <2>1. draft'.main = draft.main /\ draft'.synth = Append(draft.synth, a)
    BY <1>1, <1>2 DEF Placed
  <2>2. Range(draft'.synth) = Range(draft.synth) \cup {a}
    BY <1>1, <2>1, AppendDistinct
  <2> QED
    BY <1>2, <2>1, <2>2 DEF SynthInv
<1>3. CASE ~Get(a).synth
  <2>1. draft'.synth = draft.synth /\ draft'.main = Append(draft.main, a)
    BY <1>1, <1>3 DEF Placed
  <2>2. Range(draft'.main) = Range(draft.main) \cup {a}
    BY <1>1, <2>1, AppendDistinct
  <2> QED
    BY <1>3, <2>1, <2>2 DEF SynthInv
<1> QED
  BY <1>2, <1>3

\* A sequence without members of A, followed by members of A, of which there is
\* one at most.
LEMMA OnlyOneLast ==
  ASSUME NEW S, NEW s \in Seq(S), NEW t \in Seq(S), NEW A,
         Range(s) \cap A = {}, Range(t) \subseteq A, \A x, y \in A : x = y,
         Distinct(s \o t)
  PROVE  \A i \in DOMAIN (s \o t) : (s \o t)[i] \in A => i = Len(s \o t)
<1>1. /\ Len(s) \in Nat /\ Len(t) \in Nat
      /\ Len(s \o t) = Len(s) + Len(t)
      /\ DOMAIN (s \o t) = 1..(Len(s) + Len(t))
      /\ \A i \in 1..Len(s) : (s \o t)[i] = s[i]
      /\ \A i \in (Len(s) + 1)..(Len(s) + Len(t)) : (s \o t)[i] = t[i - Len(s)]
  BY ConcatParts
<1>2. \A i \in 1..Len(s) : s[i] \notin A
  BY DEF Range
<1>3. \A i \in 1..Len(t) : t[i] \in A
  BY DEF Range
<1> SUFFICES ASSUME NEW i \in 1..(Len(s) + Len(t)), (s \o t)[i] \in A
             PROVE  i = Len(s) + Len(t)
  BY <1>1
<1>4. i > Len(s)
  BY <1>1, <1>2
<1>5. (s \o t)[Len(s) + Len(t)] \in A
  <2>1. (s \o t)[Len(s) + Len(t)] = t[Len(t)]
    BY <1>1, <1>4
  <2>2. Len(t) \in 1..Len(t)
    BY <1>1, <1>4
  <2> QED
    BY <1>3, <2>1, <2>2
<1>6. (s \o t)[Len(s) + Len(t)] = (s \o t)[i]
  BY <1>5
<1>7. Len(s) + Len(t) \in 1..(Len(s) + Len(t))
  BY <1>1, <1>4
<1> QED
  BY <1>1, <1>6, <1>7 DEF Distinct

LEMMA StepsSorted ==
  ASSUME TeamAssumption, Typed, Apart, SynthInv, OneSynthesis
  PROVE  \A i \in DOMAIN Steps : Get(Steps[i]).synth => i = Len(Steps)
<1> DEFINE A == {a \in Crew : Get(a).synth}
<1>1. /\ draft.main \in Seq(Crew) /\ draft.synth \in Seq(Crew) /\ Steps \in Seq(Crew)
      /\ team \in Teams
  BY StepsType DEF Typed, DraftIsOfCrew, TypeButDepth
<1>2. Range(draft.main) \subseteq Crew /\ Range(draft.synth) \subseteq Crew
  BY <1>1, RangeInSet
<1>3. Range(draft.main) \cap A = {}
  BY DEF SynthInv
<1>4. Range(draft.synth) \subseteq A
  BY <1>2 DEF SynthInv
<1>5. \A a, b \in A : a = b
  <2> SUFFICES ASSUME NEW a \in A, NEW b \in A PROVE a = b
    OBVIOUS
  <2>1. Get(a) = Get(b)
    BY <1>1, TeamFacts DEF OneSynthesis
  <2> QED
    BY <1>1, <2>1, TeamFacts
<1>6. Distinct(draft.main \o draft.synth)
  BY StepsApart DEF Steps
<1> HIDE DEF A
<1>7. \A i \in DOMAIN Steps : Steps[i] \in A => i = Len(Steps)
  BY <1>1, <1>3, <1>4, <1>5, <1>6, OnlyOneLast DEF Steps
<1>8. \A i \in DOMAIN Steps : Steps[i] \in Crew
  BY <1>1
<1> QED
  BY <1>7, <1>8 DEF A

LEMMA SynthStep ==
  ASSUME TeamAssumption, Typed, Apart, SynthInv, [Next]_vars
  PROVE  SynthInv'
<1>0. team' = team /\ strict' = strict
  BY DEF Next, Visit, Leave, Ordered, Propose, FallBack, EndOfPlan, AddOmitted, Adopt, Keep,
    Revise, ReviseRaises, Dispatch, Synthesize, Conclude, params, vars
<1>1. (\A a : Get(a)' = Get(a)) /\ (OneSynthesis' <=> OneSynthesis)
  BY <1>0, TeamFixed
<1>2. UNCHANGED ran => (SynthRan' <=> SynthRan) /\ (mode' = mode => (SynthesisLast' <=> SynthesisLast))
  BY <1>1 DEF SynthRan, SynthesisLast
<1>3. CASE UNCHANGED vars
  BY <1>1, <1>2, <1>3 DEF vars, results, plan, SynthInv
<1>4. CASE Visit \/ Leave
  BY <1>1, <1>2, <1>4 DEF Visit, Leave, results, SynthInv
<1>5. CASE Ordered \/ EndOfPlan
  BY <1>1, <1>2, <1>5 DEF Ordered, EndOfPlan, plan, results, SynthInv
<1>12. CASE ReviseRaises
  <2>1. Range(draft'.main) = {} /\ Range(draft'.synth) = {}
    BY <1>12, EmptyDraft DEF ReviseRaises, Empty
  <2> QED
    BY <1>1, <1>2, <1>12, <2>1 DEF ReviseRaises, results, SynthInv
<1>6. CASE Propose \/ AddOmitted
  <2>1. \E a \in Crew : draft' = Placed(a)
    BY <1>6, TeamFacts DEF Propose, AddOmitted, Proposable, Omitted, Typed, TypeButDepth
  <2>2. /\ \A b \in Range(draft'.main) : ~Get(b).synth
        /\ \A b \in Range(draft'.synth) : Get(b).synth
    BY <2>1, PlacedSorted
  <2> QED
    BY <1>1, <1>2, <1>6, <2>2 DEF Propose, AddOmitted, results, SynthInv
<1>7. CASE FallBack
  <2>1. Range(draft'.main) = {} /\ Range(draft'.synth) = {}
    BY <1>7, EmptyDraft DEF FallBack, Empty
  <2> QED
    BY <1>1, <1>2, <1>7, <2>1 DEF FallBack, results, SynthInv, SynthesisLast
<1>8. CASE Adopt \/ Keep \/ Revise
  <2>1. Range(draft'.main) = {} /\ Range(draft'.synth) = {}
    BY <1>8, EmptyDraft DEF Adopt, Keep, Revise, Empty
  <2>2. UNCHANGED <<ran, mode, final>> /\ pc' = "dispatch"
    BY <1>8 DEF Adopt, Keep, Revise, results
  <2>3. ASSUME mode = "llm", OneSynthesis
        PROVE  /\ \A i \in DOMAIN queue' : Get(queue'[i]).synth => i = Len(queue')
               /\ ~SynthRan \/ queue' = <<>>
    <3>1. CASE Adopt
      <4>1. ~SynthRan
        BY <3>1 DEF Adopt, SynthRan, Apart
      <4> QED
        BY <2>3, <3>1, <4>1, StepsSorted DEF Adopt
    <3>2. CASE Keep
      BY <2>3, <3>2 DEF Keep, SynthInv
    <3>3. CASE Revise
      <4>1. ~SynthRan
        BY <2>3, <3>3 DEF Revise, SynthInv
      <4> QED
        BY <2>3, <3>3, <4>1, StepsSorted DEF Revise
    <3> QED
      BY <1>8, <3>1, <3>2, <3>3
  <2> QED
    BY <1>1, <1>2, <2>1, <2>2, <2>3 DEF SynthInv
<1>9. CASE Dispatch
  <2>1. PICK s \in Status, v \in Outputs :
          /\ ran' = Append(ran, [agent |-> Head(queue), status |-> s, out |-> v, by |-> "plan"])
          /\ final' = IF Get(Head(queue)).synth THEN Head(queue) ELSE final
          /\ pc' = IF Halts(s) THEN "finalize" ELSE IF MayRevise THEN "revise" ELSE "dispatch"
    BY <1>9 DEF Dispatch
  <2> DEFINE r == [agent |-> Head(queue), status |-> s, out |-> v, by |-> "plan"]
  <2>2. /\ r \in Run /\ ran \in Seq(Run) /\ queue \in Seq(Names) /\ queue # <<>>
        /\ r.agent = Head(queue) /\ Head(queue) \in Names /\ ran' = Append(ran, r)
    BY <1>9, <2>1 DEF Dispatch, Typed, TypeButDepth, Run
  <2>3. /\ DOMAIN ran = 1..Len(ran) /\ Len(ran) \in Nat
        /\ DOMAIN ran' = 1..(Len(ran) + 1) /\ Len(ran') = Len(ran) + 1
        /\ \A i \in 1..Len(ran) : ran'[i] = ran[i]
        /\ ran'[Len(ran) + 1].agent = Head(queue)
    BY <2>2, AppendRun
  <2>4. /\ DOMAIN queue = 1..Len(queue) /\ Len(queue) \in Nat \ {0} /\ Head(queue) = queue[1]
        /\ DOMAIN Tail(queue) = 1..(Len(queue) - 1) /\ Len(Tail(queue)) = Len(queue) - 1
        /\ \A i \in 1..(Len(queue) - 1) : Tail(queue)[i] = queue[i + 1]
        /\ Tail(queue) = <<>> <=> Len(queue) = 1
    BY <2>2, TailParts
  <2>5. mode' = mode /\ draft' = draft /\ queue' = Tail(queue)
    BY <1>9 DEF Dispatch
  <2>6. SynthRan' => SynthRan \/ Get(Head(queue)).synth
    BY <1>1, <2>3 DEF SynthRan
  <2>7. SynthRan' => final' # NoAgent
    BY <2>1, <2>2, <2>6 DEF SynthInv, TeamAssumption
  <2>8. pc' = "revise" => queue' # <<>>
    BY <2>1, <2>4, <2>5 DEF MayRevise
  <2>9. pc' # "order" /\ pc # "done"
    BY <1>9, <2>1 DEF Dispatch
  <2>10. ASSUME mode = "llm", OneSynthesis
         PROVE  /\ \A i \in DOMAIN queue' : Get(queue'[i]).synth => i = Len(queue')
                /\ SynthRan' => queue' = <<>>
                /\ \A i \in DOMAIN ran' : Get(ran'[i].agent).synth => i = Len(ran')
    <3>1. \A i \in DOMAIN queue : Get(queue[i]).synth => i = Len(queue)
      BY <2>10 DEF SynthInv
    <3>2. ~SynthRan
      BY <2>2, <2>9, <2>10 DEF SynthInv
    <3>3. \A i \in DOMAIN queue' : Get(queue'[i]).synth => i = Len(queue')
      BY <2>4, <2>5, <3>1
    <3>4. SynthRan' => queue' = <<>>
      BY <2>4, <2>5, <2>6, <3>1, <3>2
    <3>5. \A i \in DOMAIN ran' : Get(ran'[i].agent).synth => i = Len(ran')
      BY <2>3, <3>2 DEF SynthRan
    <3> QED
      BY <3>3, <3>4, <3>5
  <2> QED
    BY <1>1, <2>5, <2>7, <2>8, <2>9, <2>10 DEF SynthInv, SynthesisLast
<1>10. CASE Synthesize
  <2>1. PICK i \in Idle, s \in Status, v \in Outputs :
          /\ ran' = Append(ran, [agent |-> team[i].name, status |-> s, out |-> v,
                                 by |-> "finalizer"])
          /\ final' = team[i].name
    BY <1>10 DEF Synthesize
  <2> DEFINE r == [agent |-> team[i].name, status |-> s, out |-> v, by |-> "finalizer"]
  <2>2. team[i].name \in Names
    BY <2>1, TeamFacts DEF Idle, Typed, TypeButDepth
  <2>3. r \in Run /\ ran \in Seq(Run) /\ ran' = Append(ran, r)
    BY <2>1, <2>2 DEF Typed, TypeButDepth, Run
  <2>4. /\ DOMAIN ran = 1..Len(ran) /\ Len(ran) \in Nat
        /\ DOMAIN ran' = 1..(Len(ran) + 1) /\ Len(ran') = Len(ran) + 1
        /\ \A k \in 1..Len(ran) : ran'[k] = ran[k]
    BY <2>3, AppendRun
  <2>5. ~SynthRan
    BY <1>10 DEF Synthesize, SynthInv
  <2>6. \A k \in DOMAIN ran' : Get(ran'[k].agent).synth => k = Len(ran')
    BY <2>4, <2>5 DEF SynthRan
  <2>7. final' # NoAgent
    BY <2>1, <2>2 DEF TeamAssumption
  <2> QED
    BY <1>1, <1>10, <2>6, <2>7 DEF Synthesize, plan, SynthInv, SynthesisLast
<1>11. CASE Conclude
  <2>1. SynthRan' => final' # NoAgent
    BY <1>2, <1>11 DEF Conclude, SynthInv
  <2> QED
    BY <1>1, <1>2, <1>11, <2>1 DEF Conclude, plan, SynthInv
<1> QED
  BY <1>3, <1>4, <1>5, <1>6, <1>7, <1>8, <1>9, <1>10, <1>11, <1>12 DEF Next

\* Whatever the model proposes and revises, the only synthesis agent of a team
\* runs last under its plan.
THEOREM SynthesisRunsLast == Spec => []SynthesisLast
<1>1. Init => Typed /\ OnceInv /\ SynthInv
  <2> SUFFICES ASSUME Init PROVE OnceInv /\ SynthInv
    BY TypedInit, TeamAssumption
  <2>1. draft.main = <<>> /\ draft.synth = <<>> /\ Drafted = {}
    BY EmptyDraft DEF Init, Empty
  <2>2. OnceInv
    BY <2>1, EmptyDraft DEF Init, OnceInv, RunsOnce, Apart, Executed
  <2>3. ~SynthRan
    BY DEF Init, SynthRan
  <2> QED
    BY <2>1, <2>2, <2>3, EmptyDraft DEF Init, SynthInv, SynthesisLast
<1>2. Typed /\ OnceInv /\ SynthInv /\ [Next]_vars => Typed' /\ OnceInv' /\ SynthInv'
  BY TypedStep, OnceStep, SynthStep, TeamAssumption DEF OnceInv
<1>3. SynthInv => SynthesisLast
  BY DEF SynthInv
<1> QED
  BY <1>1, <1>2, <1>3, PTL DEF Spec

-----------------------------------------------------------------------------
(* strict: nobody is lost on the way from the team to what was executed.   *)

Unshadowed == mode = "llm" \/ Unambiguous

\* In plan(), an agent is ordered, being visited, or still to be visited.
StrictInv ==
  /\ Executed \subseteq Crew
  /\ pc = "order" => mode = "dependency"
  /\ strict => pc \notin {"revise", "raised", "finalize"}
  /\ pc = "order" /\ Unambiguous =>
       Crew \subseteq Range(queue) \cup OnStack \cup Range(stack[1].todo)
  /\ strict /\ Unshadowed =>
       /\ pc = "dispatch" => Crew \subseteq Executed \cup Range(queue)
       /\ pc = "done" => Crew \subseteq Executed

LEMMA RootCovers ==
  ASSUME TeamAssumption, team \in Teams, NEW f, f = <<RootFrame(team)>>
  PROVE  Range(f[1].todo) = Crew
<1>1. f[1].todo = [i \in DOMAIN team |-> team[i].name]
  BY DEF RootFrame
<1> QED
  BY <1>1 DEF Range, Crew, Members

LEMMA OwnName ==
  ASSUME TeamAssumption, team \in Teams, Unambiguous, NEW a \in Crew
  PROVE  Called(a) # {} /\ ByName(a).name = a
<1>1. PICK i \in DOMAIN team : team[i].name = a
  BY DEF Crew, Members, Range
<1>2. i \in Called(a)
  BY <1>1 DEF Called
<1>3. PICK j \in Called(a) : ByName(a) = team[j]
  BY <1>2, ByNameFacts
<1>4. team[i] \in Members /\ team[j] \in Members
  BY <1>3, TeamFacts DEF Called
<1>5. CASE team[j].template = a
  BY <1>1, <1>3, <1>4, <1>5 DEF Unambiguous
<1>6. CASE team[j].name = a
  BY <1>3, <1>6
<1> QED
  BY <1>2, <1>3, <1>5, <1>6 DEF Called

\* What a call of visit does to the stack: the caller's frame moves on, and a fresh
\* name gets a frame of its own.
LEMMA VisitParts ==
  ASSUME TeamAssumption, Typed, Visit, NEW n, n = Head(Top.todo)
  PROVE  /\ Len(stack) \in Nat \ {0} /\ Top = stack[Len(stack)]
         /\ n \in Names /\ n \in Range(Top.todo)
         /\ Top.todo \in Seq(Names) /\ Top.todo # <<>>
         /\ stack' \in Seq(Frame)
         /\ \A i \in 1..(Len(stack) - 1) : stack'[i] = stack[i]
         /\ stack'[Len(stack)].name = Top.name /\ stack'[Len(stack)].todo = Tail(Top.todo)
         /\ Fresh(n) => Len(stack') = Len(stack) + 1 /\ stack'[Len(stack) + 1] = FrameOf(n)
         /\ ~Fresh(n) => Len(stack') = Len(stack)
<1> DEFINE top == [Top EXCEPT !.todo = Tail(@)]
           rest == Append(Below, top)
<1>0. pc = "order" /\ team \in Teams /\ stack \in Seq(Frame) /\ StackIsSound /\ Top.todo # <<>>
  BY DEF Visit, Typed, TypeButDepth
<1>1. /\ Len(stack) \in Nat \ {0}
      /\ Top \in Frame /\ Top.todo \in Seq(Names)
      /\ Below \in Seq(Frame) /\ Len(Below) = Len(stack) - 1
      /\ \A i \in 1..(Len(stack) - 1) : Below[i] = stack[i]
  BY <1>0, StackParts
<1>2. Tail(Top.todo) \in Seq(Names) /\ n \in Names /\ n \in Range(Top.todo)
  <2>1. n = Top.todo[1] /\ 1 \in DOMAIN Top.todo
    BY <1>0, <1>1
  <2> QED
    BY <1>0, <1>1, <2>1 DEF Range
<1>3. top \in Frame /\ top.name = Top.name /\ top.todo = Tail(Top.todo)
  BY <1>1, <1>2 DEF Frame
<1>4. /\ rest \in Seq(Frame) /\ Len(rest) = Len(stack)
      /\ \A i \in 1..(Len(stack) - 1) : rest[i] = stack[i]
      /\ rest[Len(stack)] = top
  BY <1>1, <1>3
<1>5. stack' = IF Fresh(n) THEN Append(rest, FrameOf(n)) ELSE rest
  BY DEF Visit
<1>6. Fresh(n) => FrameOf(n) \in Frame
  BY <1>0, <1>2, ByNameMember DEF Fresh, FrameOf, Frame
<1> HIDE DEF top, rest
<1>7. /\ stack' \in Seq(Frame)
      /\ \A i \in 1..Len(stack) : stack'[i] = rest[i]
      /\ Fresh(n) => Len(stack') = Len(stack) + 1 /\ stack'[Len(stack) + 1] = FrameOf(n)
      /\ ~Fresh(n) => Len(stack') = Len(stack)
  BY <1>1, <1>4, <1>5, <1>6
<1>8. \A i \in 1..(Len(stack) - 1) : stack'[i] = stack[i]
  BY <1>1, <1>4, <1>7
<1>9. stack'[Len(stack)] = top
  BY <1>1, <1>4, <1>7
<1> QED
  BY <1>0, <1>1, <1>2, <1>3, <1>7, <1>8, <1>9 DEF Top

LEMMA VisitCovers ==
  ASSUME TeamAssumption, Typed, Visit, Unambiguous,
         Crew \subseteq Range(queue) \cup OnStack \cup Range(stack[1].todo)
  PROVE  Crew \subseteq Range(queue) \cup OnStack' \cup Range(stack'[1].todo)
<1> DEFINE n == Head(Top.todo)
<1>0. team \in Teams /\ stack \in Seq(Frame)
  BY DEF Typed, TypeButDepth
<1>1. /\ Len(stack) \in Nat \ {0} /\ Top = stack[Len(stack)]
      /\ Top.todo \in Seq(Names) /\ Top.todo # <<>>
      /\ stack' \in Seq(Frame)
      /\ \A i \in 1..(Len(stack) - 1) : stack'[i] = stack[i]
      /\ stack'[Len(stack)].name = Top.name /\ stack'[Len(stack)].todo = Tail(Top.todo)
      /\ Fresh(n) => Len(stack') = Len(stack) + 1 /\ stack'[Len(stack) + 1] = FrameOf(n)
      /\ ~Fresh(n) => Len(stack') = Len(stack)
  BY VisitParts
<1> HIDE DEF n
<1>2. OnStack \subseteq OnStack'
  <2>1. \A i \in 1..Len(stack) : i \in DOMAIN stack' /\ stack'[i].name = stack[i].name
    BY <1>1
  <2> QED
    BY <1>0, <1>1, <2>1 DEF OnStack
<1>3. Fresh(n) => n \in OnStack'
  <2>1. FrameOf(n).name = n
    BY DEF FrameOf
  <2> QED
    BY <1>1, <2>1 DEF OnStack
<1>4. n \in Crew => n \in Range(queue) \cup OnStack'
  <2>1. n \in Crew => Called(n) # {}
    BY <1>0, OwnName
  <2> QED
    BY <1>2, <1>3, <2>1 DEF Fresh
<1>5. Range(stack[1].todo) \subseteq Range(stack'[1].todo) \cup {n}
  <2>1. CASE Len(stack) = 1
    <3>1. Range(Top.todo) \subseteq Range(Tail(Top.todo)) \cup {n}
      BY <1>1, TailCovers DEF n
    <3>2. stack[1].todo = Top.todo /\ stack'[1].todo = Tail(Top.todo)
      BY <1>1, <2>1
    <3> QED
      BY <3>1, <3>2
  <2>2. CASE Len(stack) # 1
    <3> DEFINE k == Len(stack)
    <3>1. k \in Nat \ {0} /\ k # 1
      BY <1>1, <2>2
    <3> HIDE DEF k
    <3>2. 1 \in 1..(k - 1)
      BY <3>1
    <3>3. stack'[1] = stack[1]
      BY <1>1, <3>2 DEF k
    <3> QED
      BY <3>3
  <2> QED
    BY <2>1, <2>2
<1> QED
  BY <1>2, <1>4, <1>5

LEMMA LeaveCovers ==
  ASSUME TeamAssumption, Typed, Leave, Unambiguous,
         Crew \subseteq Range(queue) \cup OnStack \cup Range(stack[1].todo)
  PROVE  Crew \subseteq Range(queue') \cup OnStack' \cup Range(stack'[1].todo)
<1>0. /\ pc = "order" /\ team \in Teams /\ stack \in Seq(Frame) /\ StackIsSound
      /\ stack' = Below /\ queue \in Seq(Crew)
  BY DEF Leave, Typed, TypeButDepth, DraftIsOfCrew
<1>1. /\ Len(stack) \in Nat \ {0}
      /\ Below \in Seq(Frame) /\ Len(Below) = Len(stack) - 1
      /\ \A i \in 1..(Len(stack) - 1) : Below[i] = stack[i]
      /\ OnStack = {stack[i].name : i \in 1..Len(stack)}
  BY <1>0, StackParts
<1>2. Len(stack) > 1 /\ Called(Top.name) # {}
  BY <1>0, LeaveStack
<1>3. stack'[1] = stack[1]
  BY <1>0, <1>1, <1>2
<1>4. OnStack \subseteq OnStack' \cup {Top.name}
  <2>1. \A i \in 1..(Len(stack) - 1) : i \in DOMAIN stack' /\ stack'[i] = stack[i]
    BY <1>0, <1>1
  <2> QED
    BY <1>1, <2>1 DEF OnStack, Top
<1> DEFINE a == ByName(Top.name).name
<1>5. a \in Crew /\ queue' = IF a \in Range(queue) THEN queue ELSE Append(queue, a)
  BY <1>0, <1>2, ByNameMember DEF Leave
<1>6. Top.name \in Crew => a = Top.name
  BY <1>0, OwnName
<1> HIDE DEF a
<1>7. Range(queue') = Range(queue) \cup {a}
  BY <1>0, <1>5, AppendDistinct
<1> QED
  BY <1>3, <1>4, <1>6, <1>7

LEMMA StrictStep ==
  ASSUME TeamAssumption, Typed, OnceInv, StrictInv, [Next]_vars
  PROVE  StrictInv'
<1>0. team' = team /\ strict' = strict /\ team \in Teams
  BY DEF Next, Visit, Leave, Ordered, Propose, FallBack, EndOfPlan, AddOmitted, Adopt, Keep,
    Revise, ReviseRaises, Dispatch, Synthesize, Conclude, params, vars, Typed, TypeButDepth
<1>1. Crew' = Crew /\ (Unambiguous' <=> Unambiguous)
  BY <1>0, TeamFixed
<1>2. UNCHANGED ran => Executed' = Executed
  BY DEF Executed
<1>3. UNCHANGED stack => OnStack' = OnStack
  BY DEF OnStack
<1>4. CASE UNCHANGED vars
  BY <1>0, <1>1, <1>2, <1>3, <1>4 DEF vars, results, plan, StrictInv, Unshadowed
<1>5. CASE Visit
  <2>1. pc' = pc /\ pc = "order" /\ UNCHANGED <<ran, queue, mode>>
    BY <1>5 DEF Visit, results
  <2>2. Unambiguous => Crew \subseteq Range(queue) \cup OnStack' \cup Range(stack'[1].todo)
    BY <1>5, <2>1, VisitCovers DEF StrictInv
  <2> QED
    BY <1>1, <1>2, <2>1, <2>2 DEF StrictInv
<1>6. CASE Leave
  <2>1. pc' = pc /\ pc = "order" /\ UNCHANGED <<ran, mode>>
    BY <1>6 DEF Leave, results
  <2>2. Unambiguous => Crew \subseteq Range(queue') \cup OnStack' \cup Range(stack'[1].todo)
    BY <1>6, <2>1, LeaveCovers DEF StrictInv
  <2> QED
    BY <1>1, <1>2, <2>1, <2>2 DEF StrictInv
<1>7. CASE Ordered
  <2>1. /\ pc = "order" /\ pc' = "dispatch" /\ UNCHANGED <<ran, mode, queue>>
        /\ Top.todo = <<>> /\ Top.name = NoAgent
    BY <1>7 DEF Ordered, results
  <2>2. /\ Len(stack) \in Nat \ {0} /\ DOMAIN stack = 1..Len(stack)
        /\ OnStack = {stack[i].name : i \in 1..Len(stack)}
        /\ StackIsSound
    BY <2>1, StackParts DEF Typed, TypeButDepth
  <2>3. Len(stack) = 1
    BY <2>1, <2>2 DEF Top, StackIsSound
  <2>4. OnStack = {NoAgent} /\ Range(stack[1].todo) = {}
    BY <2>1, <2>2, <2>3, EmptyDraft DEF Top
  <2>5. NoAgent \notin Crew
    BY <1>0, TeamFacts DEF TeamAssumption
  <2>6. Unambiguous => Crew \subseteq Range(queue)
    BY <2>1, <2>4, <2>5 DEF StrictInv
  <2>7. mode = "dependency"
    BY <2>1 DEF StrictInv
  <2> QED
    BY <1>1, <1>2, <2>1, <2>6, <2>7 DEF StrictInv, Unshadowed
<1>8. CASE Propose \/ EndOfPlan \/ AddOmitted
  BY <1>0, <1>1, <1>2, <1>3, <1>8
  DEF Propose, EndOfPlan, AddOmitted, plan, results, StrictInv, Unshadowed
<1>9. CASE FallBack
  <2>1. Range(stack'[1].todo) = Crew
    BY <1>0, <1>9, RootCovers DEF FallBack
  <2> QED
    BY <1>0, <1>1, <1>2, <1>9, <2>1 DEF FallBack, results, StrictInv
<1>10. CASE Adopt
  <2>1. Range(queue') = Drafted
    BY <1>10, StepsApart DEF Adopt, OnceInv
  <2>2. strict => Crew \subseteq Drafted
    BY <1>10 DEF Adopt, Omitted, Crew, Members, Range
  <2> QED
    BY <1>0, <1>1, <1>2, <1>10, <2>1, <2>2 DEF Adopt, results, StrictInv
<1>11. CASE Keep \/ Revise \/ ReviseRaises
  BY <1>0, <1>1, <1>2, <1>11 DEF Keep, Revise, ReviseRaises, plan, results, StrictInv
<1>12. CASE Dispatch
  <2>1. PICK s \in Status, v \in Outputs :
          /\ ran' = Append(ran, [agent |-> Head(queue), status |-> s, out |-> v, by |-> "plan"])
          /\ pc' = IF Halts(s) THEN "finalize" ELSE IF MayRevise THEN "revise" ELSE "dispatch"
    BY <1>12 DEF Dispatch
  <2> DEFINE r == [agent |-> Head(queue), status |-> s, out |-> v, by |-> "plan"]
  <2>2. /\ r \in Run /\ ran \in Seq(Run) /\ queue \in Seq(Crew) /\ queue # <<>>
        /\ r.agent = Head(queue) /\ Head(queue) \in Crew
    BY <1>12 DEF Dispatch, Typed, TypeButDepth, DraftIsOfCrew, Run
  <2>3. Range(queue) = Range(Tail(queue)) \cup {Head(queue)}
    BY <2>2, TailDistinct DEF OnceInv, Apart
  <2>4. Head(queue) \notin Executed
    BY <1>12, <2>3 DEF Dispatch, OnceInv, Apart
  <2>5. Executed' = Executed \cup {Head(queue)}
    BY <2>1, <2>2, <2>4, OneMore DEF OnceInv
  <2>6. strict => pc' = "dispatch"
    BY <2>1 DEF Halts, MayRevise
  <2>7. queue' = Tail(queue) /\ mode' = mode /\ pc = "dispatch" /\ pc' \notin {"order", "done"}
    BY <1>12, <2>1 DEF Dispatch
  <2> QED
    BY <1>0, <1>1, <2>2, <2>3, <2>5, <2>6, <2>7 DEF StrictInv, Unshadowed
<1>13. PlanIsOver /\ strict /\ Unshadowed => Crew \subseteq Executed
  BY EmptyDraft DEF PlanIsOver, StrictInv
<1>14. CASE Synthesize
  <2>1. PICK i \in Idle, s \in Status, v \in Outputs :
          ran' = Append(ran, [agent |-> team[i].name, status |-> s, out |-> v, by |-> "finalizer"])
    BY <1>14 DEF Synthesize
  <2> DEFINE r == [agent |-> team[i].name, status |-> s, out |-> v, by |-> "finalizer"]
  <2>2. team[i].name \in Names /\ team[i].name \in Crew /\ team[i].name \notin Executed
    BY <1>0, <2>1, TeamFacts DEF Idle
  <2>3. r \in Run /\ ran \in Seq(Run) /\ r.agent = team[i].name
    BY <2>1, <2>2 DEF Typed, TypeButDepth, Run
  <2>4. Executed' = Executed \cup {team[i].name}
    BY <2>1, <2>2, <2>3, OneMore DEF OnceInv
  <2>5. PlanIsOver /\ pc' = "done" /\ mode' = mode
    BY <1>14 DEF Synthesize, plan
  <2> QED
    BY <1>0, <1>1, <1>13, <2>2, <2>4, <2>5 DEF StrictInv, Unshadowed
<1>15. CASE Conclude
  BY <1>0, <1>1, <1>2, <1>13, <1>15 DEF Conclude, plan, StrictInv, Unshadowed
<1> QED
  BY <1>4, <1>5, <1>6, <1>7, <1>8, <1>9, <1>10, <1>11, <1>12, <1>14, <1>15 DEF Next

LEMMA StrictInit ==
  ASSUME TeamAssumption, Init
  PROVE  Typed /\ OnceInv /\ StrictInv
<1>1. draft.main = <<>> /\ draft.synth = <<>> /\ Drafted = {} /\ Executed = {}
  BY EmptyDraft DEF Init, Empty, Executed
<1>2. OnceInv
  BY <1>1, EmptyDraft DEF Init, OnceInv, RunsOnce, Apart
<1>3. pc = "order" => Range(stack[1].todo) = Crew
  BY RootCovers DEF Init
<1>4. StrictInv
  BY <1>1, <1>3 DEF Init, StrictInv
<1> QED
  BY <1>2, <1>4, TypedInit

LEMMA StrictHolds == Spec => []StrictInv
<1>1. Init => Typed /\ OnceInv /\ StrictInv
  BY StrictInit, TeamAssumption
<1>2. Typed /\ OnceInv /\ StrictInv /\ [Next]_vars => Typed' /\ OnceInv' /\ StrictInv'
  BY TypedStep, OnceStep, StrictStep, TeamAssumption
<1> QED
  BY <1>1, <1>2, PTL DEF Spec

\* strict=True runs the whole team, with any plan of the model, and in the dependency
\* order, cycles included, if no name stands for two agents.
THEOREM StrictRunsTheTeam == Spec => []StrictRunsUnshadowed
<1>1. StrictInv => StrictRunsUnshadowed
  BY DEF StrictInv, Unshadowed, StrictRunsUnshadowed, StrictRunsAll
<1> QED
  BY <1>1, StrictHolds, PTL

-----------------------------------------------------------------------------
(* The dependency order.                                                   *)

\* The names that call somebody of the team, whom they call, and what that agent
\* asks for in the team.
Callable == {n \in Names : Called(n) # {}}
resolved == [n \in Callable |-> ByName(n).name]
asked == [n \in Callable |-> Range(ByName(n).deps) \cap Callable]

\* The stratifications of the dependencies.
Strata ==
  {rank \in [Crew -> Nat] :
    \A n \in Callable : \A d \in asked[n] : rank[resolved[d]] < rank[resolved[n]]}

\* The calls of visit under way go down the strata, so a dependency that is not yet
\* ordered is never taken for one that is being visited.
Descends ==
  \A rank \in Strata : \A i, j \in 2..Len(stack) :
    i < j => rank[resolved[stack[j].name]] < rank[resolved[stack[i].name]]

TodoIsAsked ==
  \A i \in 2..Len(stack) : Range(stack[i].todo) \cap Callable \subseteq asked[stack[i].name]

\* A dependency of an agent being visited is still to be visited, or ordered, or it
\* is the one visited now.
Followed ==
  \A i \in 2..Len(stack) : \A d \in asked[stack[i].name] :
    \/ d \in Range(stack[i].todo)
    \/ resolved[d] \in Range(queue)
    \/ i < Len(stack) /\ stack[i + 1].name = d

QueueIsClosed ==
  \A i \in DOMAIN queue : \A d \in asked[queue[i]] :
    resolved[d] \in Executed \/ \E j \in 1..(i - 1) : queue[j] = resolved[d]

RanIsClosed ==
  \A i \in DOMAIN ran : ran[i].by = "plan" =>
    \A d \in asked[ran[i].agent] : \E j \in 1..(i - 1) : ran[j].agent = resolved[d]

\* Before anything is dispatched.
Fore ==
  /\ pc \in {"plan", "fill", "revise"} => mode = "llm"
  /\ pc \in {"plan", "fill"} => queue = <<>>
  /\ pc \in {"plan", "fill", "order"} => ran = <<>>
  /\ pc = "order" => mode = "dependency"

Layered == Unambiguous /\ Strata # {}

OrderInv ==
  Layered /\ mode = "dependency" =>
    /\ pc = "order" => Descends /\ TodoIsAsked /\ Followed
    /\ QueueIsClosed /\ RanIsClosed

LEMMA CallFacts ==
  ASSUME TeamAssumption, team \in Teams
  PROVE  /\ Callable \subseteq Names
         /\ \A n \in Callable : Called(n) # {} /\ resolved[n] = ByName(n).name /\ resolved[n] \in Crew
         /\ \A n \in Callable : asked[n] = Range(ByName(n).deps) \cap Callable
         /\ Unambiguous => \A a \in Crew : a \in Callable /\ resolved[a] = a
         /\ \A n \in Callable : Get(resolved[n]) = ByName(n)
<1>1. \A n \in Callable : Called(n) # {} /\ resolved[n] = ByName(n).name
  BY DEF Callable, resolved
<1>2. \A n \in Callable : ByName(n) \in Members /\ ByName(n).name \in Crew
  BY <1>1, ByNameMember
<1>3. \A n \in Callable : asked[n] = Range(ByName(n).deps) \cap Callable
  BY DEF asked
<1>4. ASSUME Unambiguous, NEW a \in Crew PROVE a \in Callable /\ resolved[a] = a
  <2>1. Called(a) # {} /\ ByName(a).name = a
    BY <1>4, OwnName
  <2>2. a \in Names
    BY TeamFacts
  <2>3. a \in Callable
    BY <2>1, <2>2 DEF Callable
  <2> QED
    BY <1>1, <2>1, <2>3
<1>5. \A n \in Callable : Get(resolved[n]) = ByName(n)
  BY <1>1, <1>2, TeamFacts
<1> QED
  BY <1>1, <1>2, <1>3, <1>4, <1>5 DEF Callable

LEMMA CallsFixed ==
  ASSUME team' = team
  PROVE  /\ Callable' = Callable /\ resolved' = resolved /\ asked' = asked
         /\ Strata' = Strata /\ Layered' = Layered
<1>1. /\ Crew' = Crew /\ Unambiguous' = Unambiguous
      /\ \A n : Called(n)' = Called(n)
      /\ \A n : ByName(n)' = ByName(n)
  BY TeamFixed
<1>2. Callable' = Callable
  BY <1>1 DEF Callable
<1>3. resolved' = resolved /\ asked' = asked
  BY <1>1, <1>2 DEF resolved, asked
<1> QED
  BY <1>1, <1>2, <1>3 DEF Strata, Layered

\* A team whose dependencies have no cycle is stratified.
LEMMA AcyclicIsLayered ==
  ASSUME TeamAssumption, team \in Teams, Acyclic
  PROVE  Strata # {}
<1>1. Len(team) \in Nat
  BY TeamFacts
<1>2. PICK rank \in [Crew -> 1..Len(team)] :
        \A m \in Members : \A d \in Range(m.deps) :
          Called(d) # {} => rank[ByName(d).name] < rank[m.name]
  BY DEF Acyclic
<1>3. rank \in [Crew -> Nat]
  BY <1>1
<1>4. ASSUME NEW n \in Callable, NEW d \in asked[n]
      PROVE  rank[resolved[d]] < rank[resolved[n]]
  <2>1. d \in Callable /\ d \in Range(ByName(n).deps) /\ Called(d) # {} /\ Called(n) # {}
    BY <1>4, CallFacts
  <2>2. ByName(n) \in Members
    BY <2>1, ByNameMember
  <2>3. resolved[n] = ByName(n).name /\ resolved[d] = ByName(d).name
    BY <2>1, CallFacts
  <2> QED
    BY <1>2, <2>1, <2>2, <2>3
<1> QED
  BY <1>3, <1>4 DEF Strata

LEMMA StackIsCallable ==
  ASSUME TeamAssumption, Typed
  PROVE  \A i \in 2..Len(stack) : i \in DOMAIN stack /\ stack[i].name \in Callable
<1> SUFFICES ASSUME NEW i \in 2..Len(stack)
             PROVE  i \in DOMAIN stack /\ stack[i].name \in Callable
  OBVIOUS
<1>1. stack \in Seq(Frame) /\ StackIsSound
  BY DEF Typed, TypeButDepth
<1>2. i \in DOMAIN stack /\ i > 1 /\ i # 1 /\ stack[i] \in Frame
  BY <1>1
<1>3. stack[i].name \in Names
  BY <1>1, <1>2 DEF StackIsSound, Frame
<1> QED
  BY <1>1, <1>2, <1>3 DEF StackIsSound, Callable

\* What is called next lies below all that is being visited.
LEMMA NextIsBelow ==
  ASSUME TeamAssumption, Typed, pc = "order", Layered, Descends, TodoIsAsked,
         Len(stack) > 1, NEW n \in Range(Top.todo) \cap Callable
  PROVE  /\ n \in asked[Top.name]
         /\ \A rank \in Strata : \A i \in 2..Len(stack) :
              rank[resolved[n]] < rank[resolved[stack[i].name]]
         /\ n \notin OnStack
<1>1. /\ stack \in Seq(Frame) /\ StackIsSound /\ team \in Teams
      /\ Len(stack) \in Nat \ {0} /\ Top = stack[Len(stack)]
      /\ OnStack = {stack[i].name : i \in 1..Len(stack)}
  BY StackParts DEF Typed, TypeButDepth, Top
<1>2. Len(stack) \in 2..Len(stack)
  BY <1>1
<1>3. n \in asked[Top.name]
  BY <1>1, <1>2 DEF TodoIsAsked
<1>4. Top.name \in Callable /\ \A i \in 2..Len(stack) : stack[i].name \in Callable
  BY <1>1, <1>2, StackIsCallable
<1>5. ASSUME NEW rank \in Strata, NEW i \in 2..Len(stack)
      PROVE  rank[resolved[n]] < rank[resolved[stack[i].name]]
  <2>1. rank \in [Crew -> Nat] /\ rank[resolved[n]] < rank[resolved[Top.name]]
    BY <1>3, <1>4 DEF Strata
  <2>2. resolved[n] \in Crew /\ resolved[Top.name] \in Crew /\ resolved[stack[i].name] \in Crew
    BY <1>1, <1>4, CallFacts
  <2>3. CASE i = Len(stack)
    BY <1>1, <2>1, <2>3
  <2>4. CASE i # Len(stack)
    <3>1. i < Len(stack)
      BY <1>1, <2>4
    <3>2. rank[resolved[Top.name]] < rank[resolved[stack[i].name]]
      BY <1>1, <1>2, <3>1 DEF Descends
    <3> DEFINE a == rank[resolved[n]]
               b == rank[resolved[Top.name]]
               c == rank[resolved[stack[i].name]]
    <3>3. a \in Nat /\ b \in Nat /\ c \in Nat /\ a < b /\ b < c
      BY <2>1, <2>2, <3>2
    <3> HIDE DEF a, b, c
    <3>4. a < c
      BY <3>3
    <3> QED
      BY <3>4 DEF a, c
  <2> QED
    BY <2>3, <2>4
<1>6. ASSUME n \in OnStack PROVE FALSE
  <2>1. PICK i \in 1..Len(stack) : n = stack[i].name
    BY <1>1, <1>6
  <2>2. n # NoAgent
    BY DEF Callable, TeamAssumption
  <2>3. i \in DOMAIN stack /\ i # 1
    BY <1>1, <2>1, <2>2 DEF StackIsSound
  <2>4. i \in 2..Len(stack)
    BY <1>1, <2>3
  <2>5. PICK rank \in Strata : TRUE
    BY DEF Layered
  <2>6. rank \in [Crew -> Nat] /\ resolved[n] \in Crew
    BY <1>1, CallFacts DEF Strata
  <2> DEFINE a == rank[resolved[n]]
  <2>7. a \in Nat /\ a < a
    BY <1>5, <2>1, <2>4, <2>6
  <2> HIDE DEF a
  <2> QED
    BY <2>7
<1> QED
  BY <1>3, <1>5, <1>6

LEMMA VisitOrders ==
  ASSUME TeamAssumption, Typed, Visit, Layered, Descends, TodoIsAsked, Followed
  PROVE  Descends' /\ TodoIsAsked' /\ Followed'
<1> DEFINE n == Head(Top.todo)
           L == Len(stack)
<1>0. /\ team' = team /\ team \in Teams /\ queue' = queue /\ pc = "order"
      /\ stack \in Seq(Frame) /\ StackIsSound /\ queue \in Seq(Crew)
  BY DEF Visit, params, Typed, TypeButDepth, DraftIsOfCrew
<1>1. Strata' = Strata /\ asked' = asked /\ resolved' = resolved /\ Callable' = Callable
  BY <1>0, CallsFixed
<1>2. /\ L \in Nat \ {0} /\ Top = stack[L]
      /\ n \in Names /\ n \in Range(Top.todo)
      /\ Top.todo \in Seq(Names) /\ Top.todo # <<>>
      /\ \A i \in 1..(L - 1) : stack'[i] = stack[i]
      /\ stack'[L].name = Top.name /\ stack'[L].todo = Tail(Top.todo)
      /\ Fresh(n) => Len(stack') = L + 1 /\ stack'[L + 1] = FrameOf(n)
      /\ ~Fresh(n) => Len(stack') = L
  BY VisitParts
<1>3. Range(Top.todo) \subseteq Range(Tail(Top.todo)) \cup {n}
      /\ Range(Tail(Top.todo)) \subseteq Range(Top.todo)
  <2>1. \A i \in DOMAIN Tail(Top.todo) : i + 1 \in DOMAIN Top.todo /\ Tail(Top.todo)[i] = Top.todo[i + 1]
    BY <1>2, TailParts
  <2>2. Range(Tail(Top.todo)) \subseteq Range(Top.todo)
    BY <2>1 DEF Range
  <2>3. Range(Top.todo) \subseteq Range(Tail(Top.todo)) \cup {n}
    BY <1>2, TailCovers
  <2> QED
    BY <2>2, <2>3
<1>4. \A i \in 2..L : stack[i].name \in Callable
  BY StackIsCallable
<1>5. L > 1 /\ n \in Callable =>
        /\ n \in asked[Top.name] /\ n \notin OnStack
        /\ \A rank \in Strata : \A i \in 2..L :
             rank[resolved[n]] < rank[resolved[stack[i].name]]
  BY <1>0, <1>2, NextIsBelow
<1>6. Fresh(n) => n \in Callable /\ FrameOf(n).name = n /\ FrameOf(n).todo = ByName(n).deps
  BY <1>2 DEF Fresh, FrameOf, Callable
<1>7. n \in Range(queue) /\ n \in Callable => resolved[n] \in Range(queue)
  <2>1. Range(queue) \subseteq Crew
    BY <1>0, RangeInSet
  <2> QED
    BY <1>0, <2>1, CallFacts DEF Layered
<1>8. ~Fresh(n) /\ n \in Callable /\ L > 1 => resolved[n] \in Range(queue)
  BY <1>5, <1>7 DEF Fresh, Callable
<1>9. \A i \in 1..L : stack'[i].name = stack[i].name
  BY <1>2
<1> HIDE DEF n, L
<1>10. \A i \in 2..Len(stack') : i \in 2..L \/ (i = L + 1 /\ Fresh(n))
  BY <1>2
<1>11. Descends'
  <2> SUFFICES ASSUME NEW rank \in Strata, NEW i \in 2..Len(stack'), NEW j \in 2..Len(stack'), i < j
               PROVE  rank[resolved[stack'[j].name]] < rank[resolved[stack'[i].name]]
    BY <1>1 DEF Descends
  <2>1. i \in 2..L
    BY <1>2, <1>10
  <2>2. CASE j \in 2..L
    <3>1. stack'[i].name = stack[i].name /\ stack'[j].name = stack[j].name
      BY <1>2, <1>9, <2>1, <2>2
    <3>2. rank[resolved[stack[j].name]] < rank[resolved[stack[i].name]]
      BY <2>1, <2>2 DEF Descends, L
    <3> QED
      BY <3>1, <3>2
  <2>3. CASE j = L + 1 /\ Fresh(n)
    <3>1. stack'[i].name = stack[i].name /\ stack'[j].name = n
      BY <1>2, <1>6, <1>9, <2>1, <2>3
    <3>2. L > 1
      BY <1>2, <2>1
    <3>3. rank[resolved[n]] < rank[resolved[stack[i].name]]
      BY <1>5, <1>6, <2>1, <2>3, <3>2
    <3> QED
      BY <3>1, <3>3
  <2> QED
    BY <1>10, <2>2, <2>3
<1>12. TodoIsAsked'
  <2> SUFFICES ASSUME NEW i \in 2..Len(stack')
               PROVE  Range(stack'[i].todo) \cap Callable \subseteq asked[stack'[i].name]
    BY <1>1 DEF TodoIsAsked
  <2>1. CASE i \in 2..L
    <3>1. Range(stack[i].todo) \cap Callable \subseteq asked[stack[i].name]
      BY <2>1 DEF TodoIsAsked, L
    <3>2. stack'[i].name = stack[i].name
      BY <1>2, <1>9, <2>1
    <3>3. Range(stack'[i].todo) \subseteq Range(stack[i].todo)
      <4>1. CASE i = L
        BY <1>2, <1>3, <4>1
      <4>2. CASE i # L
        <5>1. stack'[i] = stack[i]
          BY <1>2, <2>1, <4>2
        <5> QED
          BY <5>1
      <4> QED
        BY <4>1, <4>2
    <3> QED
      BY <3>1, <3>2, <3>3
  <2>2. CASE i = L + 1 /\ Fresh(n)
    BY <1>0, <1>2, <1>6, <2>2, CallFacts
  <2> QED
    BY <1>10, <2>1, <2>2
<1>13. Followed'
  <2> SUFFICES ASSUME NEW i \in 2..Len(stack'), NEW d \in asked[stack'[i].name]
               PROVE  \/ d \in Range(stack'[i].todo)
                      \/ resolved[d] \in Range(queue)
                      \/ i < Len(stack') /\ stack'[i + 1].name = d
    BY <1>0, <1>1 DEF Followed
  <2>1. CASE i \in 2..L
    <3>1. \/ d \in Range(stack[i].todo)
          \/ resolved[d] \in Range(queue)
          \/ i < L /\ stack[i + 1].name = d
      BY <1>2, <1>9, <2>1 DEF Followed, L
    <3>2. i < L => stack'[i] = stack[i] /\ stack'[i + 1].name = stack[i + 1].name /\ i < Len(stack')
      BY <1>2, <1>9, <2>1
    <3>3. CASE i < L
      BY <3>1, <3>2, <3>3
    <3>4. CASE i = L
      <4>1. stack[i].todo = Top.todo /\ stack'[i].todo = Tail(Top.todo)
        BY <1>2, <3>4
      <4>2. d \in Range(stack'[i].todo) \/ d = n \/ resolved[d] \in Range(queue)
        BY <1>2, <1>3, <3>1, <3>4, <4>1
      <4>3. d \in Callable
        <5>1. stack[i].name \in Callable /\ stack'[i].name = stack[i].name
          BY <1>2, <1>4, <1>9, <2>1
        <5>2. asked[stack'[i].name] = Range(ByName(stack'[i].name).deps) \cap Callable
          BY <1>0, <5>1, CallFacts
        <5> QED
          BY <5>2
      <4>4. L > 1
        BY <1>2, <2>1, <3>4
      <4>5. CASE Fresh(n)
        BY <1>2, <1>6, <3>4, <4>2, <4>5
      <4>6. CASE ~Fresh(n)
        BY <1>8, <4>2, <4>3, <4>4, <4>6
      <4> QED
        BY <4>5, <4>6
    <3>5. i < L \/ i = L
      BY <1>2, <2>1
    <3> QED
      BY <3>3, <3>4, <3>5
  <2>2. CASE i = L + 1 /\ Fresh(n)
    <3>1. stack'[i].name = n /\ stack'[i].todo = ByName(n).deps
      BY <1>2, <1>6, <2>2
    <3> QED
      BY <1>0, <1>6, <2>2, <3>1, CallFacts
  <2> QED
    BY <1>10, <2>1, <2>2
<1> QED
  BY <1>11, <1>12, <1>13

LEMMA ResolvedAsksAlike ==
  ASSUME TeamAssumption, team \in Teams, Unambiguous, NEW n \in Callable
  PROVE  resolved[n] \in Callable /\ asked[resolved[n]] = asked[n]
<1>1. resolved[n] \in Crew /\ Get(resolved[n]) = ByName(n)
  BY CallFacts
<1>2. resolved[n] \in Callable /\ resolved[resolved[n]] = resolved[n]
  BY <1>1, CallFacts
<1>3. ByName(resolved[n]) = ByName(n)
  BY <1>1, <1>2, CallFacts
<1> QED
  BY <1>2, <1>3, CallFacts

LEMMA LeaveOrders ==
  ASSUME TeamAssumption, Typed, Leave, Layered, Descends, TodoIsAsked, Followed, QueueIsClosed
  PROVE  Descends' /\ TodoIsAsked' /\ Followed' /\ QueueIsClosed'
<1> DEFINE L == Len(stack)
           a == resolved[Top.name]
<1>0. /\ team' = team /\ team \in Teams /\ ran' = ran /\ pc = "order"
      /\ stack \in Seq(Frame) /\ StackIsSound /\ queue \in Seq(Crew)
      /\ stack' = Below /\ Top.todo = <<>>
  BY DEF Leave, params, results, Typed, TypeButDepth, DraftIsOfCrew
<1>1. Strata' = Strata /\ asked' = asked /\ resolved' = resolved /\ Callable' = Callable
  BY <1>0, CallsFixed
<1>2. /\ L \in Nat \ {0} /\ Top = stack[L]
      /\ Len(stack') = L - 1 /\ \A i \in 1..(L - 1) : stack'[i] = stack[i]
  BY <1>0, StackParts DEF Top
<1>3. L > 1
  BY <1>0, LeaveStack
<1>4. Top.name \in Callable
  BY <1>2, <1>3, StackIsCallable
<1>5. a \in Crew /\ a = ByName(Top.name).name
  BY <1>0, <1>4, CallFacts
<1>6. queue' = IF a \in Range(queue) THEN queue ELSE Append(queue, a)
  BY <1>5 DEF Leave
<1>7. Range(queue') = Range(queue) \cup {a}
  BY <1>0, <1>5, <1>6, AppendDistinct
<1>8. asked[a] = asked[Top.name]
  BY <1>0, <1>4, ResolvedAsksAlike DEF Layered
<1>9. \A d \in asked[Top.name] : resolved[d] \in Range(queue)
  <2>1. L \in 2..L
    BY <1>2, <1>3
  <2>2. Range(stack[L].todo) = {}
    BY <1>0, <1>2, EmptyDraft
  <2>3. \A d \in asked[Top.name] : resolved[d] \in Range(queue) \/ L < L
    BY <1>2, <2>1, <2>2 DEF Followed
  <2> QED
    BY <1>2, <2>3
<1> HIDE DEF L, a
<1>10. \A i \in 2..Len(stack') : i \in 2..L /\ i < L /\ stack'[i] = stack[i]
  BY <1>2, <1>3
<1>11. Descends'
  <2>1. \A rank \in Strata : \A i, j \in 2..Len(stack') :
          i < j => rank[resolved[stack[j].name]] < rank[resolved[stack[i].name]]
    BY <1>10 DEF Descends, L
  <2> SUFFICES ASSUME NEW rank \in Strata, NEW i \in 2..Len(stack'), NEW j \in 2..Len(stack'), i < j
               PROVE  rank[resolved[stack'[j].name]] < rank[resolved[stack'[i].name]]
    BY <1>1 DEF Descends
  <2>2. stack'[i] = stack[i] /\ stack'[j] = stack[j]
    BY <1>10
  <2>3. rank[resolved[stack[j].name]] < rank[resolved[stack[i].name]]
    BY <2>1
  <2> QED
    BY <2>2, <2>3
<1>12. TodoIsAsked'
  <2> SUFFICES ASSUME NEW i \in 2..Len(stack')
               PROVE  Range(stack'[i].todo) \cap Callable \subseteq asked[stack'[i].name]
    BY <1>1 DEF TodoIsAsked
  <2>1. Range(stack[i].todo) \cap Callable \subseteq asked[stack[i].name]
    BY <1>10 DEF TodoIsAsked, L
  <2>2. stack'[i] = stack[i]
    BY <1>10
  <2> QED
    BY <2>1, <2>2
<1>13. Followed'
  <2> SUFFICES ASSUME NEW i \in 2..Len(stack'), NEW d \in asked[stack'[i].name]
               PROVE  \/ d \in Range(stack'[i].todo)
                      \/ resolved[d] \in Range(queue')
                      \/ i < Len(stack') /\ stack'[i + 1].name = d
    BY <1>1 DEF Followed
  <2>1. stack'[i] = stack[i] /\ i \in 2..L /\ i < L
    BY <1>10
  <2>2. \/ d \in Range(stack[i].todo)
        \/ resolved[d] \in Range(queue)
        \/ i < L /\ stack[i + 1].name = d
    BY <2>1 DEF Followed, L
  <2>3. CASE i + 1 = L /\ stack[i + 1].name = d
    BY <1>2, <1>7, <2>3 DEF a
  <2>4. CASE i + 1 # L /\ stack[i + 1].name = d
    <3>1. i + 1 \in 1..(L - 1) /\ i < Len(stack')
      BY <1>2, <2>1, <2>4
    <3>2. stack'[i + 1] = stack[i + 1]
      BY <1>2, <3>1
    <3> QED
      BY <2>4, <3>1, <3>2
  <2> QED
    BY <1>7, <2>1, <2>2, <2>3, <2>4
<1>14. QueueIsClosed'
  <2>1. Executed' = Executed
    BY <1>0 DEF Executed
  <2>2. CASE a \in Range(queue)
    <3>1. queue' = queue
      BY <1>6, <2>2
    <3> QED
      BY <1>1, <2>1, <3>1 DEF QueueIsClosed
  <2>3. CASE a \notin Range(queue)
    <3> DEFINE K == Len(queue)
    <3>1. /\ K \in Nat /\ DOMAIN queue = 1..K /\ DOMAIN queue' = 1..(K + 1)
          /\ \A i \in 1..K : queue'[i] = queue[i]
          /\ queue'[K + 1] = a
      BY <1>0, <1>5, <1>6, <2>3
    <3> HIDE DEF K
    <3> SUFFICES ASSUME NEW i \in 1..(K + 1), NEW d \in asked[queue'[i]], resolved[d] \notin Executed
                 PROVE  \E j \in 1..(i - 1) : queue'[j] = resolved[d]
      BY <1>1, <2>1, <3>1 DEF QueueIsClosed
    <3>2. CASE i \in 1..K
      <4>1. d \in asked[queue[i]]
        BY <3>1, <3>2
      <4>2. PICK j \in 1..(i - 1) : queue[j] = resolved[d]
        BY <3>1, <3>2, <4>1 DEF QueueIsClosed
      <4>3. j \in 1..K
        BY <3>1, <3>2
      <4> QED
        BY <3>1, <4>2, <4>3
    <3>3. CASE i = K + 1
      <4>1. resolved[d] \in Range(queue)
        BY <1>8, <1>9, <3>1, <3>3
      <4>2. PICK j \in 1..K : queue[j] = resolved[d]
        BY <3>1, <4>1 DEF Range
      <4>3. j \in 1..(i - 1)
        BY <3>1, <3>3
      <4> QED
        BY <3>1, <4>2, <4>3
    <3> QED
      BY <3>1, <3>2, <3>3
  <2> QED
    BY <2>2, <2>3
<1> QED
  BY <1>11, <1>12, <1>13, <1>14

\* Who runs next finds its dependencies among those that ran.
LEMMA DispatchOrders ==
  ASSUME TeamAssumption, Typed, Dispatch, QueueIsClosed, RanIsClosed
  PROVE  QueueIsClosed' /\ RanIsClosed'
<1>0. /\ team' = team /\ ran \in Seq(Run) /\ queue \in Seq(Crew) /\ queue # <<>> /\ queue' = Tail(queue)
      /\ Head(queue) \in Crew /\ Crew \subseteq Names
  BY TeamFacts DEF Dispatch, params, Typed, TypeButDepth, DraftIsOfCrew
<1>1. asked' = asked /\ resolved' = resolved
  BY <1>0, CallsFixed
<1>2. PICK r \in Run : r.agent = Head(queue) /\ r.by = "plan" /\ ran' = Append(ran, r)
  <2>1. PICK s \in Status, v \in Outputs :
          ran' = Append(ran, [agent |-> Head(queue), status |-> s, out |-> v, by |-> "plan"])
    BY DEF Dispatch
  <2> DEFINE r == [agent |-> Head(queue), status |-> s, out |-> v, by |-> "plan"]
  <2>2. r \in Run /\ r.agent = Head(queue) /\ r.by = "plan" /\ ran' = Append(ran, r)
    BY <1>0, <2>1 DEF Run
  <2> QED
    BY <2>2
<1> DEFINE N == Len(ran)
           K == Len(queue)
<1>3. /\ DOMAIN ran = 1..N /\ N \in Nat /\ DOMAIN ran' = 1..(N + 1)
      /\ \A i \in 1..N : ran'[i] = ran[i]
      /\ ran'[N + 1] = r
  BY <1>0, <1>2, AppendRun
<1>4. /\ K \in Nat \ {0} /\ DOMAIN queue = 1..K /\ DOMAIN queue' = 1..(K - 1)
      /\ queue[1] = Head(queue) /\ \A i \in 1..(K - 1) : queue'[i] = queue[i + 1]
  BY <1>0, TailParts
<1> HIDE DEF N, K
<1>5. \A a : a \in Executed \/ a = Head(queue) => a \in Executed'
  <2>1. Executed = {ran[i].agent : i \in 1..N}
    BY <1>3 DEF Executed
  <2>2. Executed' = {ran'[i].agent : i \in 1..(N + 1)}
    BY <1>3 DEF Executed
  <2>3. N + 1 \in 1..(N + 1) /\ \A i \in 1..N : i \in 1..(N + 1)
    BY <1>3
  <2> QED
    BY <1>2, <1>3, <2>1, <2>2, <2>3
<1>6. QueueIsClosed'
  <2> SUFFICES ASSUME NEW i \in 1..(K - 1), NEW d \in asked[queue'[i]], resolved[d] \notin Executed'
               PROVE  \E j \in 1..(i - 1) : queue'[j] = resolved[d]
    BY <1>1, <1>4 DEF QueueIsClosed
  <2>1. i + 1 \in DOMAIN queue /\ queue'[i] = queue[i + 1] /\ (i + 1) - 1 = i
    BY <1>4
  <2>2. resolved[d] \notin Executed /\ resolved[d] # Head(queue)
    BY <1>5
  <2>3. PICK j \in 1..((i + 1) - 1) : queue[j] = resolved[d]
    BY <2>1, <2>2 DEF QueueIsClosed
  <2>4. j # 1
    BY <1>4, <2>2, <2>3
  <2>5. j - 1 \in 1..(i - 1) /\ j - 1 \in 1..(K - 1) /\ (j - 1) + 1 = j
    BY <1>4, <2>1, <2>3, <2>4
  <2>6. queue'[j - 1] = queue[j]
    BY <1>4, <2>5
  <2> QED
    BY <2>3, <2>5, <2>6
<1>7. RanIsClosed'
  <2> SUFFICES ASSUME NEW i \in 1..(N + 1), ran'[i].by = "plan", NEW d \in asked[ran'[i].agent]
               PROVE  \E j \in 1..(i - 1) : ran'[j].agent = resolved[d]
    BY <1>1, <1>3 DEF RanIsClosed
  <2>1. CASE i \in 1..N
    <3>1. ran'[i] = ran[i]
      BY <1>3, <2>1
    <3>2. PICK j \in 1..(i - 1) : ran[j].agent = resolved[d]
      BY <1>3, <2>1, <3>1 DEF RanIsClosed
    <3>3. j \in 1..N
      BY <1>3, <2>1
    <3> QED
      BY <1>3, <3>2, <3>3
  <2>2. CASE i = N + 1
    <3>1. d \in asked[queue[1]] /\ 1 \in DOMAIN queue
      BY <1>2, <1>3, <1>4, <2>2
    <3>2. ~ \E j \in 1..(1 - 1) : queue[j] = resolved[d]
      OBVIOUS
    <3>3. resolved[d] \in Executed
      BY <3>1, <3>2 DEF QueueIsClosed
    <3>4. PICK j \in 1..N : ran[j].agent = resolved[d]
      BY <1>3, <3>3 DEF Executed
    <3>5. j \in 1..(i - 1)
      BY <1>3, <2>2
    <3> QED
      BY <1>3, <3>4, <3>5
  <2> QED
    BY <1>3, <2>1, <2>2
<1> QED
  BY <1>6, <1>7

LEMMA ForeStep ==
  ASSUME TeamAssumption, Typed, Fore, [Next]_vars
  PROVE  Fore'
<1>1. CASE UNCHANGED vars
  BY <1>1 DEF vars, plan, results, Fore
<1>2. CASE Visit \/ Leave \/ Ordered
  BY <1>2 DEF Visit, Leave, Ordered, params, plan, results, Fore
<1>3. CASE Propose \/ FallBack \/ EndOfPlan \/ AddOmitted \/ Adopt
  BY <1>3 DEF Propose, FallBack, EndOfPlan, AddOmitted, Adopt, params, plan, results, Fore
<1>4. CASE Keep \/ Revise \/ ReviseRaises
  BY <1>4 DEF Keep, Revise, ReviseRaises, params, plan, results, Fore
<1>5. CASE Dispatch
  BY <1>5 DEF Dispatch, MayRevise, Fore
<1>6. CASE Synthesize \/ Conclude
  BY <1>6 DEF Synthesize, Conclude, Fore
<1> QED
  BY <1>1, <1>2, <1>3, <1>4, <1>5, <1>6 DEF Next

\* A toposort starts with nobody on the stack but the loop over the team.
LEMMA StartOrders ==
  ASSUME queue = <<>>, ran = <<>>, Len(stack) = 1
  PROVE  Descends /\ TodoIsAsked /\ Followed /\ QueueIsClosed /\ RanIsClosed
<1>1. 2..Len(stack) = {} /\ DOMAIN queue = {} /\ DOMAIN ran = {}
  OBVIOUS
<1> QED
  BY <1>1 DEF Descends, TodoIsAsked, Followed, QueueIsClosed, RanIsClosed

LEMMA OrderStep ==
  ASSUME TeamAssumption, Typed, Fore, OrderInv, [Next]_vars
  PROVE  OrderInv'
<1>0. team' = team /\ team \in Teams
  BY DEF Next, Visit, Leave, Ordered, Propose, FallBack, EndOfPlan, AddOmitted, Adopt, Keep,
    Revise, ReviseRaises, Dispatch, Synthesize, Conclude, params, vars, Typed, TypeButDepth
<1>1. /\ Strata' = Strata /\ asked' = asked /\ resolved' = resolved /\ Callable' = Callable
      /\ Layered' = Layered
  BY <1>0, CallsFixed
<1>2. UNCHANGED <<queue, ran>> => (QueueIsClosed' <=> QueueIsClosed) /\ (RanIsClosed' <=> RanIsClosed)
  <2>1. UNCHANGED ran => Executed' = Executed
    BY DEF Executed
  <2> QED
    BY <1>1, <2>1 DEF QueueIsClosed, RanIsClosed
<1>3. UNCHANGED ran => (RanIsClosed' <=> RanIsClosed)
  BY <1>1 DEF RanIsClosed
<1>4. UNCHANGED <<stack, queue>> =>
        (Descends' <=> Descends) /\ (TodoIsAsked' <=> TodoIsAsked) /\ (Followed' <=> Followed)
  BY <1>1 DEF Descends, TodoIsAsked, Followed
<1>5. CASE UNCHANGED vars
  <2>1. UNCHANGED <<mode, pc, stack, queue, ran>>
    BY <1>5 DEF vars, plan, results
  <2> QED
    BY <1>1, <1>2, <1>4, <2>1 DEF OrderInv
<1>6. CASE Visit
  <2>1. pc = "order" /\ UNCHANGED <<mode, pc, queue, ran>>
    BY <1>6 DEF Visit, results
  <2>2. Layered /\ mode = "dependency" => Descends' /\ TodoIsAsked' /\ Followed'
    BY <1>6, <2>1, VisitOrders DEF OrderInv
  <2> QED
    BY <1>1, <1>2, <2>1, <2>2 DEF OrderInv
<1>7. CASE Leave
  <2>1. pc = "order" /\ UNCHANGED <<mode, pc, ran>>
    BY <1>7 DEF Leave, results
  <2>2. Layered /\ mode = "dependency" => Descends' /\ TodoIsAsked' /\ Followed' /\ QueueIsClosed'
    BY <1>7, <2>1, LeaveOrders DEF OrderInv
  <2> QED
    BY <1>1, <1>3, <2>1, <2>2 DEF OrderInv
<1>8. CASE Propose \/ EndOfPlan \/ AddOmitted \/ Keep \/ ReviseRaises \/ Ordered
  <2>1. UNCHANGED <<mode, queue, ran>> /\ (pc' = "order" => FALSE)
    BY <1>8 DEF Propose, EndOfPlan, AddOmitted, Keep, ReviseRaises, Ordered, plan, results
  <2> QED
    BY <1>1, <1>2, <2>1 DEF OrderInv
<1>9. CASE FallBack
  <2>1. queue' = <<>> /\ ran' = <<>> /\ stack' = <<RootFrame(team)>>
    BY <1>9 DEF FallBack, results, Fore
  <2>2. 2..Len(stack') = {} /\ DOMAIN queue' = {} /\ DOMAIN ran' = {}
    BY <2>1
  <2>3. Descends' /\ TodoIsAsked' /\ Followed' /\ QueueIsClosed' /\ RanIsClosed'
    BY <2>2 DEF Descends, TodoIsAsked, Followed, QueueIsClosed, RanIsClosed
  <2> QED
    BY <2>3 DEF OrderInv
<1>10. CASE Adopt \/ Revise
  <2>1. mode' = "llm"
    BY <1>10 DEF Adopt, Revise, Fore
  <2> QED
    BY <2>1 DEF OrderInv
<1>11. CASE Dispatch
  <2>1. UNCHANGED mode /\ pc' # "order"
    BY <1>11 DEF Dispatch
  <2>2. QueueIsClosed /\ RanIsClosed => QueueIsClosed' /\ RanIsClosed'
    BY <1>11, DispatchOrders
  <2> QED
    BY <1>1, <2>1, <2>2 DEF OrderInv
<1>12. CASE Synthesize
  <2>1. PICK i \in Idle, s \in Status, v \in Outputs :
          ran' = Append(ran, [agent |-> team[i].name, status |-> s, out |-> v, by |-> "finalizer"])
    BY <1>12 DEF Synthesize
  <2> DEFINE r == [agent |-> team[i].name, status |-> s, out |-> v, by |-> "finalizer"]
             N == Len(ran)
  <2>2. team[i].name \in Names
    BY <1>0, <2>1, TeamFacts DEF Idle
  <2>3. r \in Run /\ ran \in Seq(Run) /\ r.by = "finalizer" /\ ran' = Append(ran, r)
    BY <2>1, <2>2 DEF Typed, TypeButDepth, Run
  <2>4. /\ DOMAIN ran = 1..N /\ N \in Nat /\ DOMAIN ran' = 1..(N + 1)
        /\ \A k \in 1..N : ran'[k] = ran[k]
        /\ ran'[N + 1].by = "finalizer"
    BY <2>3, AppendRun
  <2>5. UNCHANGED <<mode, queue>> /\ pc' # "order"
    BY <1>12 DEF Synthesize, plan
  <2> HIDE DEF r, N
  <2>6. RanIsClosed => RanIsClosed'
    <3> SUFFICES ASSUME RanIsClosed, NEW k \in 1..(N + 1), ran'[k].by = "plan", NEW d \in asked[ran'[k].agent]
                 PROVE  \E j \in 1..(k - 1) : ran'[j].agent = resolved[d]
      BY <1>1, <2>4 DEF RanIsClosed
    <3>1. k \in 1..N
      BY <2>4
    <3>2. ran'[k] = ran[k]
      BY <2>4, <3>1
    <3>3. PICK j \in 1..(k - 1) : ran[j].agent = resolved[d]
      BY <2>4, <3>1, <3>2 DEF RanIsClosed
    <3>4. j \in 1..N
      BY <2>4, <3>1
    <3> QED
      BY <2>4, <3>3, <3>4
  <2>7. QueueIsClosed => QueueIsClosed'
    <3>1. Executed \subseteq Executed'
      BY <2>4 DEF Executed
    <3> QED
      BY <1>1, <2>5, <3>1 DEF QueueIsClosed
  <2> QED
    BY <1>1, <2>5, <2>6, <2>7 DEF OrderInv
<1>13. CASE Conclude
  <2>1. UNCHANGED <<mode, queue, ran>> /\ pc' # "order"
    BY <1>13 DEF Conclude, plan
  <2> QED
    BY <1>1, <1>2, <2>1 DEF OrderInv
<1> QED
  BY <1>5, <1>6, <1>7, <1>8, <1>9, <1>10, <1>11, <1>12, <1>13 DEF Next

LEMMA OrderImplies ==
  ASSUME TeamAssumption, Typed, StrictInv, OrderInv
  PROVE  DependenciesFirst
<1>0. team \in Teams /\ ran \in Seq(Run)
  BY DEF Typed, TypeButDepth
<1> SUFFICES ASSUME mode = "dependency", Acyclic, Unambiguous,
                    NEW i \in DOMAIN ran, ran[i].by = "plan",
                    NEW d \in Range(Get(ran[i].agent).deps), Called(d) # {}
             PROVE  \E j \in 1..(i - 1) : ran[j].agent = ByName(d).name
  BY DEF DependenciesFirst
<1>1. RanIsClosed
  BY <1>0, AcyclicIsLayered DEF OrderInv, Layered
<1>2. d \in asked[ran[i].agent] /\ resolved[d] = ByName(d).name
  <2> DEFINE a == ran[i].agent
  <2>1. a \in Crew
    BY DEF StrictInv, Executed
  <2>2. a \in Callable /\ Get(a) = ByName(a)
    BY <1>0, <2>1, CallFacts
  <2>3. ByName(a).deps \in Seq(Names)
    BY <1>0, <2>2, ByNameMember, CallFacts
  <2>4. d \in Range(ByName(a).deps) /\ d \in Names
    BY <2>2, <2>3, RangeInSet
  <2>5. d \in Callable
    BY <2>4 DEF Callable
  <2> HIDE DEF a
  <2>6. d \in asked[a] /\ resolved[d] = ByName(d).name
    BY <1>0, <2>2, <2>4, <2>5, CallFacts
  <2> QED
    BY <2>6 DEF a
<1> QED
  BY <1>1, <1>2 DEF RanIsClosed

\* The dependency order is one: whoever depends on an agent of the team runs after it,
\* in every team without a cycle where no name stands for two agents, however the
\* team was selected and whichever names the dependencies use.
THEOREM DependenciesRunFirst == Spec => []DependenciesFirst
<1>1. Init => Typed /\ Fore /\ OrderInv
  <2> SUFFICES ASSUME Init PROVE Fore /\ OrderInv
    BY TypedInit, TeamAssumption
  <2>1. queue = <<>> /\ ran = <<>> /\ (pc = "order" => Len(stack) = 1)
    BY DEF Init
  <2>2. Fore
    BY DEF Init, Fore
  <2>3. pc = "order" \/ mode = "llm"
    BY DEF Init
  <2> QED
    BY <2>1, <2>2, <2>3, StartOrders DEF OrderInv
<1>2. Typed /\ Fore /\ OrderInv /\ [Next]_vars => Typed' /\ Fore' /\ OrderInv'
  BY TypedStep, ForeStep, OrderStep, TeamAssumption
<1>3. Typed /\ StrictInv /\ OrderInv => DependenciesFirst
  BY OrderImplies, TeamAssumption
<1>4. Spec => []StrictInv
  BY StrictHolds
<1> QED
  BY <1>1, <1>2, <1>3, <1>4, PTL DEF Spec

-----------------------------------------------------------------------------
(* The blackboard: what a reader finds at a key two agents share.          *)

writers ==
  [k \in Keys |-> {i \in DOMAIN ran : /\ ran[i].by = "plan"
                                     /\ Get(ran[i].agent).key = k
                                     /\ Get(ran[i].agent).granted}]

holders == [k \in Keys |-> {m \in Members : m.key = k /\ m.granted}]

Current(k) ==
  \A i \in writers[k] : (\A j \in writers[k] : j <= i) =>
    board[k] # <<>> /\ board[k][Len(board[k])] = ran[i].out

BoardInv ==
  \A k \in Keys :
    /\ Range(board[k]) \subseteq {ran[i].out : i \in writers[k]}
    /\ Cardinality(holders[k]) <= 2 => Current(k)

LEMMA AtMostTwo ==
  ASSUME NEW S, IsFiniteSet(S), Cardinality(S) <= 2,
         NEW a \in S, NEW b \in S, NEW c \in S, c # a, c # b
  PROVE  a = b
<1> SUFFICES ASSUME a # b PROVE FALSE
  OBVIOUS
<1> DEFINE One == {a}
           Two == One \cup {b}
           Three == Two \cup {c}
<1>1. IsFiniteSet(One) /\ Cardinality(One) = 1
  BY FS_Singleton
<1>2. b \notin One /\ c \notin Two /\ Three \in SUBSET S
  OBVIOUS
<1> HIDE DEF One
<1>3. IsFiniteSet(Two) /\ Cardinality(Two) = 2
  BY <1>1, <1>2, FS_AddElement
<1> HIDE DEF Two
<1>4. Cardinality(Three) = 3
  BY <1>2, <1>3, FS_AddElement
<1> HIDE DEF Three
<1>5. Cardinality(Three) <= Cardinality(S)
  BY <1>2, FS_Subset
<1>6. Cardinality(S) \in Nat
  BY FS_CardinalityType
<1> QED
  BY <1>4, <1>5, <1>6

LEMMA HoldersFacts ==
  ASSUME TeamAssumption, team \in Teams, NEW k \in Keys
  PROVE  IsFiniteSet(holders[k]) /\ holders[k] = {m \in Members : m.key = k /\ m.granted}
<1>1. IsFiniteSet(Crew)
  BY TeamFacts, FS_Subset DEF TeamAssumption
<1> DEFINE f == [a \in Crew |-> Get(a)]
<1>2. f \in Surjection(Crew, Members)
  <2>1. f \in [Crew -> Members]
    BY TeamFacts
  <2>2. \A m \in Members : m.name \in Crew /\ f[m.name] = m
    BY TeamFacts DEF Crew
  <2> QED
    BY <2>1, <2>2 DEF Surjection
<1>3. IsFiniteSet(Members)
  BY <1>1, <1>2, FS_Surjection
<1>4. holders[k] = {m \in Members : m.key = k /\ m.granted}
  BY DEF holders
<1>5. holders[k] \in SUBSET Members
  BY <1>4
<1> QED
  BY <1>3, <1>4, <1>5, FS_Subset

LEMMA WritersFacts ==
  ASSUME NEW k \in Keys
  PROVE  writers[k] = {i \in DOMAIN ran : /\ ran[i].by = "plan"
                                         /\ Get(ran[i].agent).key = k
                                         /\ Get(ran[i].agent).granted}
BY DEF writers

\* Who wrote before, of two who may: only the other one, and once.
LEMMA OneOtherWriter ==
  ASSUME TeamAssumption, Typed, RunsOnce, Executed \subseteq Crew,
         NEW k \in Keys, Cardinality(holders[k]) <= 2,
         NEW m \in holders[k], m.name \notin Executed,
         NEW i \in writers[k], NEW j \in writers[k]
  PROVE  i = j
<1>0. team \in Teams
  BY DEF Typed, TypeButDepth
<1>1. \A w \in writers[k] : w \in DOMAIN ran /\ ran[w].agent \in Executed
  BY WritersFacts DEF Executed
<1>2. \A w \in writers[k] : Get(ran[w].agent) \in holders[k] /\ Get(ran[w].agent).name = ran[w].agent
  BY <1>0, <1>1, TeamFacts, WritersFacts, HoldersFacts
<1>3. \A w \in writers[k] : m # Get(ran[w].agent)
  BY <1>1, <1>2
<1>4. Get(ran[i].agent) = Get(ran[j].agent)
  BY <1>0, <1>2, <1>3, AtMostTwo, HoldersFacts
<1>5. ran[i].agent = ran[j].agent
  BY <1>2, <1>4
<1> QED
  BY <1>1, <1>5 DEF RunsOnce

LEMMA WriteKeeps ==
  ASSUME TeamAssumption, Typed, OnceInv, Executed \subseteq Crew, BoardInv, Dispatch
  PROVE  BoardInv'
<1> DEFINE a == Head(queue)
           m == Get(a)
           N == Len(ran)
<1>0. /\ team' = team /\ team \in Teams /\ ran \in Seq(Run) /\ queue \in Seq(Crew) /\ queue # <<>>
      /\ a \in Crew /\ Crew \subseteq Names /\ m \in Members /\ m.name = a /\ m \in Member
      /\ board \in [Keys -> Seq(Outputs)]
  BY TeamFacts DEF Dispatch, params, Typed, TypeButDepth, DraftIsOfCrew
<1>1. PICK r \in Run : r.agent = a /\ r.by = "plan" /\ ran' = Append(ran, r) /\ Write(m, r.out)
  <2>1. PICK s \in Status, v \in Outputs :
          /\ ran' = Append(ran, [agent |-> Head(queue), status |-> s, out |-> v, by |-> "plan"])
          /\ Write(Get(Head(queue)), v)
    BY DEF Dispatch
  <2> DEFINE r == [agent |-> a, status |-> s, out |-> v, by |-> "plan"]
  <2>2. r \in Run /\ r.agent = a /\ r.by = "plan" /\ r.out = v
    BY <1>0, <2>1 DEF Run
  <2> QED
    BY <2>1, <2>2
<1>2. /\ DOMAIN ran = 1..N /\ N \in Nat /\ DOMAIN ran' = 1..(N + 1)
      /\ \A i \in 1..N : ran'[i] = ran[i]
      /\ ran'[N + 1] = r
  BY <1>0, <1>1, AppendRun
<1>3. a \notin Executed
  <2>1. a \in Range(queue)
    BY <1>0, TailCovers, TailParts DEF Range
  <2> QED
    BY <2>1 DEF Dispatch, OnceInv, Apart
<1>4. (\A x : Get(x)' = Get(x)) /\ holders' = holders
  <2>1. Members' = Members
    BY <1>0, TeamFixed
  <2> QED
    BY <1>0, <2>1, TeamFixed DEF holders
<1>5. m.key \in Keys /\ m.granted \in BOOLEAN /\ r.out \in Outputs
  BY <1>0, <1>1 DEF Member, Run
<1>6. \A k \in Keys : \A i \in writers[k] : i \in 1..N
  BY <1>2, WritersFacts
<1>7. \A k \in Keys : writers'[k] = IF m.granted /\ m.key = k THEN writers[k] \cup {N + 1} ELSE writers[k]
  <2> SUFFICES ASSUME NEW k \in Keys
               PROVE  writers'[k] = IF m.granted /\ m.key = k THEN writers[k] \cup {N + 1} ELSE writers[k]
    OBVIOUS
  <2>1. writers'[k] = {i \in 1..(N + 1) : /\ ran'[i].by = "plan"
                                          /\ Get(ran'[i].agent).key = k
                                          /\ Get(ran'[i].agent).granted}
    BY <1>2, <1>4 DEF writers
  <2>2. writers[k] = {i \in 1..N : /\ ran[i].by = "plan"
                                   /\ Get(ran[i].agent).key = k
                                   /\ Get(ran[i].agent).granted}
    BY <1>2, WritersFacts
  <2> HIDE DEF N, m, a
  <2>3. \A i \in 1..N : i \in writers'[k] <=> i \in writers[k]
    BY <1>2, <2>1, <2>2
  <2>4. N + 1 \in writers'[k] <=> m.granted /\ m.key = k
    BY <1>1, <1>2, <2>1 DEF m
  <2>5. \A i \in writers'[k] : i \in 1..N \/ i = N + 1
    BY <1>2, <2>1
  <2>6. \A i \in writers[k] : i \in 1..N
    BY <2>2
  <2>7. CASE m.granted /\ m.key = k
    <3>1. \A i : i \in writers'[k] <=> i \in writers[k] \cup {N + 1}
      BY <2>3, <2>4, <2>5, <2>6, <2>7
    <3>2. writers'[k] = writers[k] \cup {N + 1}
      BY <3>1
    <3> QED
      BY <2>7, <3>2
  <2>8. CASE ~(m.granted /\ m.key = k)
    <3>1. \A i : i \in writers'[k] <=> i \in writers[k]
      BY <2>3, <2>4, <2>5, <2>6, <2>8
    <3>2. writers'[k] = writers[k]
      BY <3>1
    <3> QED
      BY <2>8, <3>2
  <2> QED
    BY <2>7, <2>8
<1> HIDE DEF N, m, a
<1> SUFFICES ASSUME NEW k \in Keys
             PROVE  /\ Range(board'[k]) \subseteq {ran'[i].out : i \in writers'[k]}
                    /\ Cardinality(holders[k]) <= 2 =>
                         \A i \in writers'[k] : (\A j \in writers'[k] : j <= i) =>
                           board'[k] # <<>> /\ board'[k][Len(board'[k])] = ran'[i].out
  BY <1>4 DEF BoardInv, Current
<1>8. /\ Range(board[k]) \subseteq {ran[i].out : i \in writers[k]}
      /\ Cardinality(holders[k]) <= 2 => Current(k)
  BY DEF BoardInv
<1>9. \A i \in writers[k] : ran'[i] = ran[i] /\ i <= N /\ i \in Nat
  BY <1>2, <1>6
<1>10. board' = IF m.granted /\ Unseen(m.key, r.out)
                THEN [board EXCEPT ![m.key] = Append(@, r.out)] ELSE board
  BY <1>1 DEF Write
<1>11. CASE ~(m.granted /\ m.key = k)
  <2>1. writers'[k] = writers[k]
    BY <1>7, <1>11
  <2>2. board'[k] = board[k]
    BY <1>0, <1>5, <1>10, <1>11
  <2> QED
    BY <1>8, <1>9, <2>1, <2>2 DEF Current
<1>12. CASE m.granted /\ m.key = k
  <2>1. writers'[k] = writers[k] \cup {N + 1}
    BY <1>7, <1>12
  <2>2. ran'[N + 1].out = r.out
    BY <1>2
  <2>3. {ran'[i].out : i \in writers'[k]} = {ran[i].out : i \in writers[k]} \cup {r.out}
    BY <1>9, <2>1, <2>2
  <2>4. \A i \in writers'[k] : (\A j \in writers'[k] : j <= i) => i = N + 1
    BY <1>2, <1>9, <2>1
  <2>5. board[k] \in Seq(Outputs)
    BY <1>0
  <2>6. CASE Unseen(m.key, r.out)
    <3>1. board'[k] = Append(board[k], r.out)
      BY <1>0, <1>5, <1>10, <1>12, <2>6
    <3>2. Range(board'[k]) = Range(board[k]) \cup {r.out}
      BY <1>5, <2>5, <3>1, AppendDistinct
    <3>3. board'[k] # <<>> /\ board'[k][Len(board'[k])] = r.out
      BY <1>5, <2>5, <3>1
    <3> QED
      BY <1>8, <2>2, <2>3, <2>4, <3>2, <3>3
  <2>7. CASE ~Unseen(m.key, r.out)
    <3>1. board'[k] = board[k]
      BY <1>10, <2>7
    <3>2. r.out \in Range(board[k])
      BY <1>12, <2>7 DEF Unseen
    <3> DEFINE L == Len(board[k])
    <3>3. L \in DOMAIN board[k] /\ board[k] # <<>>
      BY <2>5, <3>2 DEF Range
    <3>4. board[k][L] \in Range(board[k])
      BY <3>3 DEF Range
    <3>5. PICK i \in writers[k] : ran[i].out = r.out
      BY <1>8, <3>2
    <3>6. PICK j \in writers[k] : ran[j].out = board[k][L]
      BY <1>8, <3>4
    <3>7. Cardinality(holders[k]) <= 2 => i = j
      <4>1. m \in holders[k] /\ m.name \notin Executed
        BY <1>0, <1>3, <1>12, HoldersFacts
      <4> QED
        BY <4>1, OneOtherWriter DEF OnceInv
    <3>8. Cardinality(holders[k]) <= 2 => board[k][L] = r.out
      BY <3>5, <3>6, <3>7
    <3> QED
      BY <1>8, <2>2, <2>3, <2>4, <3>1, <3>3, <3>8
  <2> QED
    BY <2>6, <2>7
<1> QED
  BY <1>11, <1>12

LEMMA BoardStep ==
  ASSUME TeamAssumption, Typed, OnceInv, Executed \subseteq Crew, BoardInv, [Next]_vars
  PROVE  BoardInv'
<1>0. team' = team /\ team \in Teams
  BY DEF Next, Visit, Leave, Ordered, Propose, FallBack, EndOfPlan, AddOmitted, Adopt, Keep,
    Revise, ReviseRaises, Dispatch, Synthesize, Conclude, params, vars, Typed, TypeButDepth
<1>1. (\A x : Get(x)' = Get(x)) /\ Members' = Members
  BY <1>0, TeamFixed
<1>2. holders' = holders /\ (ran' = ran => writers' = writers)
  BY <1>1 DEF holders, writers
<1>3. CASE UNCHANGED <<ran, board>>
  BY <1>2, <1>3 DEF BoardInv, Current
<1>4. CASE Dispatch
  BY <1>4, WriteKeeps
<1>5. CASE Synthesize
  <2>1. PICK i \in Idle, s \in Status, v \in Outputs :
          ran' = Append(ran, [agent |-> team[i].name, status |-> s, out |-> v, by |-> "finalizer"])
    BY <1>5 DEF Synthesize
  <2> DEFINE r == [agent |-> team[i].name, status |-> s, out |-> v, by |-> "finalizer"]
             N == Len(ran)
  <2>2. team[i].name \in Names
    BY <1>0, <2>1, TeamFacts DEF Idle
  <2>3. r \in Run /\ ran \in Seq(Run) /\ r.by = "finalizer" /\ ran' = Append(ran, r)
    BY <2>1, <2>2 DEF Typed, TypeButDepth, Run
  <2>4. /\ DOMAIN ran = 1..N /\ N \in Nat /\ DOMAIN ran' = 1..(N + 1)
        /\ \A k \in 1..N : ran'[k] = ran[k]
        /\ ran'[N + 1].by = "finalizer"
    BY <2>3, AppendRun
  <2>5. board' = board
    BY <1>5 DEF Synthesize
  <2> HIDE DEF r, N
  <2>6. \A k \in Keys : writers'[k] = writers[k] /\ \A w \in writers[k] : ran'[w] = ran[w]
    <3> SUFFICES ASSUME NEW k \in Keys
                 PROVE  writers'[k] = writers[k] /\ \A w \in writers[k] : ran'[w] = ran[w]
      OBVIOUS
    <3>1. writers'[k] = {w \in 1..(N + 1) : /\ ran'[w].by = "plan"
                                            /\ Get(ran'[w].agent).key = k
                                            /\ Get(ran'[w].agent).granted}
      BY <1>1, <2>4 DEF writers
    <3>2. writers[k] = {w \in 1..N : /\ ran[w].by = "plan"
                                     /\ Get(ran[w].agent).key = k
                                     /\ Get(ran[w].agent).granted}
      BY <2>4, WritersFacts
    <3>3. \A w \in writers'[k] : w \in 1..N
      BY <2>4, <3>1
    <3> QED
      BY <2>4, <3>1, <3>2, <3>3
  <2> SUFFICES ASSUME NEW k \in Keys
               PROVE  /\ Range(board[k]) \subseteq {ran'[w].out : w \in writers[k]}
                      /\ Cardinality(holders[k]) <= 2 =>
                           \A w \in writers[k] : (\A j \in writers[k] : j <= w) =>
                             board[k] # <<>> /\ board[k][Len(board[k])] = ran'[w].out
    BY <1>2, <2>5, <2>6 DEF BoardInv, Current
  <2> QED
    BY <2>6 DEF BoardInv, Current
<1> QED
  BY <1>3, <1>4, <1>5 DEF Next, Visit, Leave, Ordered, Propose, FallBack, EndOfPlan, AddOmitted,
    Adopt, Keep, Revise, ReviseRaises, Conclude, results, vars

LEMMA BoardImplies ==
  ASSUME TeamAssumption, Typed, Executed \subseteq Crew, BoardInv
  PROVE  BoardIsCurrent
<1>0. team \in Teams /\ ran \in Seq(Run)
  BY DEF Typed, TypeButDepth
<1> SUFFICES ASSUME NEW i \in DOMAIN ran, NEW k, k = Get(ran[i].agent).key,
                    ran[i].by = "plan", Get(ran[i].agent).granted,
                    \A j \in DOMAIN ran : j > i =>
                      ~ (ran[j].by = "plan" /\ Get(ran[j].agent).key = k /\ Get(ran[j].agent).granted),
                    Cardinality({m \in Members : m.key = k /\ m.granted}) <= 2
             PROVE  board[k] # <<>> /\ board[k][Len(board[k])] = ran[i].out
  BY DEF BoardIsCurrent
<1>1. k \in Keys
  <2>1. ran[i].agent \in Crew
    BY DEF Executed
  <2>2. Get(ran[i].agent) \in Member
    BY <1>0, <2>1, TeamFacts
  <2> QED
    BY <2>2 DEF Member
<1>2. i \in writers[k]
  BY <1>1, WritersFacts
<1>3. \A j \in writers[k] : j <= i
  <2> SUFFICES ASSUME NEW j \in writers[k], ~(j <= i) PROVE FALSE
    OBVIOUS
  <2>1. j \in DOMAIN ran /\ j > i
    BY <1>0, <1>1, WritersFacts
  <2> QED
    BY <1>1, <2>1, WritersFacts
<1>4. Cardinality(holders[k]) <= 2
  BY <1>0, <1>1, HoldersFacts
<1> QED
  BY <1>1, <1>2, <1>3, <1>4 DEF BoardInv, Current

\* However the outputs repeat, a reader of a key that at most two agents write finds
\* there what the last of them wrote.
THEOREM BoardStaysCurrent == Spec => []BoardIsCurrent
<1>1. Init => Typed /\ OnceInv /\ StrictInv /\ BoardInv
  <2> SUFFICES ASSUME Init PROVE BoardInv
    BY StrictInit, TeamAssumption
  <2>1. ran = <<>> /\ \A k \in Keys : board[k] = <<>>
    BY DEF Init
  <2>2. \A k \in Keys : writers[k] = {} /\ Range(board[k]) = {}
    BY <2>1, EmptyDraft, WritersFacts
  <2> QED
    BY <2>2 DEF BoardInv, Current
<1>2. Typed /\ OnceInv /\ StrictInv /\ BoardInv /\ [Next]_vars
        => Typed' /\ OnceInv' /\ StrictInv' /\ BoardInv'
  BY TypedStep, OnceStep, StrictStep, BoardStep, TeamAssumption DEF StrictInv
<1>3. Typed /\ StrictInv /\ BoardInv => BoardIsCurrent
  BY BoardImplies, TeamAssumption DEF StrictInv
<1> QED
  BY <1>1, <1>2, <1>3, PTL DEF Spec

=============================================================================
