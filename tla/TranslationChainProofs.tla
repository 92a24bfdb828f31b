----------------------- MODULE TranslationChainProofs -----------------------
(***************************************************************************)
(* Proofs about TranslationChain, for every graph, start and depth: the     *)
(* steps are a path, no element is exited twice, the earliest edge is taken *)
(* wherever the chain goes on, and the breaks account for all it is not.    *)
(***************************************************************************)
EXTENDS TranslationChain, TLAPS, FiniteSetTheorems, FunctionTheorems, WellFoundedInduction

\* A set of naturals has a least element.
LEMMA LeastNatural ==
    ASSUME NEW T \in SUBSET Nat, T # {}
    PROVE  \E m \in T : \A n \in T : m =< n
<1> DEFINE R == OpToRel(<, Nat)
<1>1. IsWellFoundedOn(R, Nat)
  BY NatLessThanWellFounded
<1> HIDE DEF R
<1>2. PICK m \in T : \A n \in T : ~ (<<n, m>> \in R)
  BY <1>1, WFMin
<1>3. \A n \in T : <<n, m>> \in R <=> n < m
  BY DEF R, OpToRel
<1>4. \A n \in T : m =< n
  <2> TAKE n \in T
  <2>1. n \in Nat /\ m \in Nat
    OBVIOUS
  <2>2. ~(n < m)
    BY <1>2, <1>3
  <2> QED
    BY <2>1, <2>2
<1> QED
  BY <1>4

\* The sides of an edge are sequences of nodes.
LEMMA SidesType ==
    ASSUME TypeOK, NEW i \in DOMAIN graph.edges
    PROVE  /\ Tails(graph.edges[i]) \in Seq(Names(graph))
           /\ Heads(graph.edges[i]) \in Seq(Names(graph))
           /\ DOMAIN graph.edges = 1..Len(graph.edges)
           /\ Len(graph.edges) \in Nat
<1>1. graph.edges \in Seq(EdgesOf(graph))
  BY GraphAssumption DEF TypeOK
<1>2. graph.edges[i] \in EdgesOf(graph)
  BY <1>1
<1>3. /\ graph.edges[i].source \in Seq(Names(graph))
      /\ graph.edges[i].target \in Seq(Names(graph))
  BY <1>2, GraphAssumption DEF TypeOK
<1> QED
  BY <1>1, <1>3 DEF Tails, Heads

\* What makes an entry of x.
LEMMA EntryDef ==
    ASSUME NEW x
    PROVE  \A i, j, k : <<i, j, k>> \in Entries(x)
              <=> /\ i \in DOMAIN graph.edges
                  /\ j \in DOMAIN Tails(graph.edges[i])
                  /\ Tails(graph.edges[i])[j] = x
                  /\ k \in DOMAIN Heads(graph.edges[i])
  BY DEF Entries

\* An element of Entries is a triple.
LEMMA EntryTriple ==
    ASSUME NEW x, NEW n \in Entries(x)
    PROVE  n = <<n[1], n[2], n[3]>>
  BY DEF Entries

\* The edge First picks leads away from x, to a node, and no edge before it
\* does.
LEMMA FirstFacts ==
    ASSUME TypeOK, NEW x, Entries(x) # {}
    PROVE  /\ First(x) \in DOMAIN graph.edges
           /\ \E j \in DOMAIN Tails(graph.edges[First(x)]) :
                 Tails(graph.edges[First(x)])[j] = x
           /\ 1 \in DOMAIN Heads(graph.edges[First(x)])
           /\ Heads(graph.edges[First(x)])[1] \in Names(graph)
           /\ \A k \in 1..(First(x) - 1) :
                 x \in Range(Tails(graph.edges[k])) => Heads(graph.edges[k]) = <<>>
<1> DEFINE T == { n[1] : n \in Entries(x) }
<1>1. \A i \in T : i \in DOMAIN graph.edges
  BY EntryDef, EntryTriple
<1>2. T \in SUBSET Nat
  BY <1>1, SidesType
<1>3. T # {}
  OBVIOUS
<1>4. First(x) \in T /\ \A n \in T : First(x) =< n
  <2>1. \E m \in T : \A n \in Entries(x) : m =< n[1]
    <3>1. \A n \in Entries(x) : n[1] \in T
      OBVIOUS
    <3>2. \E m \in T : \A k \in T : m =< k
      <4> HIDE DEF T
      <4> QED
        BY <1>2, <1>3, LeastNatural
    <3> QED
      BY <3>1, <3>2
  <2>2. PICK m \in T : \A n \in Entries(x) : m =< n[1]
    BY <2>1
  <2>3. First(x) \in T /\ \A n \in Entries(x) : First(x) =< n[1]
    BY <2>2 DEF First
  <2> QED
    BY <2>3
<1>5. PICK n \in Entries(x) : First(x) = n[1]
  BY <1>4
<1>6. /\ First(x) \in DOMAIN graph.edges
      /\ n[2] \in DOMAIN Tails(graph.edges[First(x)])
      /\ Tails(graph.edges[First(x)])[n[2]] = x
      /\ n[3] \in DOMAIN Heads(graph.edges[First(x)])
  BY <1>5, EntryDef, EntryTriple
<1>7. /\ 1 \in DOMAIN Heads(graph.edges[First(x)])
      /\ Heads(graph.edges[First(x)])[1] \in Names(graph)
  BY <1>6, SidesType
<1>8. ASSUME NEW k \in 1..(First(x) - 1), x \in Range(Tails(graph.edges[k])),
             Heads(graph.edges[k]) # <<>>
      PROVE  FALSE
  <2>1. k \in DOMAIN graph.edges /\ k < First(x) /\ k \in Nat
    BY <1>6, SidesType
  <2>2. 1 \in DOMAIN Heads(graph.edges[k])
    BY <2>1, <1>8, SidesType
  <2>3. PICK j \in DOMAIN Tails(graph.edges[k]) : Tails(graph.edges[k])[j] = x
    BY <1>8 DEF Range
  <2>4. <<k, j, 1>> \in Entries(x)
    BY <2>1, <2>2, <2>3, EntryDef
  <2>5. k \in T
    BY <2>4
  <2>6. First(x) =< k
    BY <2>5, <1>4
  <2> QED
    BY <2>1, <2>6, <1>6, SidesType
<1> QED
  BY <1>6, <1>7, <1>8

----------------------------------------------------------------------------
(* The inductive invariant: while the chain walks, every element exited is   *)
(* a visited one other than the current one, so that what Follow exits next  *)
(* is new.                                                                   *)

ExitedOnce == \A m, n \in DOMAIN steps : steps[m].exited = steps[n].exited => m = n

Position ==
    /\ pc = "start" => steps = <<>> /\ current = from
    /\ pc = "walk" => /\ current = LastElement
                      /\ \A n \in DOMAIN steps : steps[n].exited \in visited \ {current}

IInv ==
    /\ TypeOK
    /\ ChainIsAPath
    /\ EarliestEdgeIsTaken
    /\ ExitedOnce
    /\ Position

\* What Follow and CloseCycle do to the steps keeps everything said of them.
LEMMA CrossKeeps ==
    ASSUME IInv, NEW entered, Cross(entered), UNCHANGED args
    PROVE  /\ entered \in Names(graph)
           /\ steps' \in Seq([edge : DOMAIN graph.edges, exited : Names(graph),
                              entered : Names(graph)])
           /\ ChainIsAPath'
           /\ EarliestEdgeIsTaken'
           /\ ExitedOnce'
           /\ Len(steps') = Len(steps) + 1
           /\ DOMAIN steps' = DOMAIN steps \cup {Len(steps')}
           /\ \A n \in DOMAIN steps : steps'[n] = steps[n]
           /\ steps'[Len(steps')].exited = current
           /\ steps'[Len(steps')].entered = entered
<1> DEFINE Step == [edge : DOMAIN graph.edges, exited : Names(graph), entered : Names(graph)]
           s == [edge |-> First(current), exited |-> current, entered |-> entered]
           N == Len(steps) + 1
<1>1. /\ pc = "walk" /\ Entries(current) # {}
      /\ entered = Heads(graph.edges[First(current)])[1]
      /\ steps' = Append(steps, s)
  BY DEF Cross
<1>2. /\ current \in Names(graph) /\ steps \in Seq(Step) /\ TypeOK
  BY <1>1 DEF IInv, TypeOK
<1>3. entered \in Names(graph) /\ s \in Step
  BY <1>1, <1>2, FirstFacts
<1>4. /\ steps' \in Seq(Step)
      /\ Len(steps') = N
      /\ DOMAIN steps = 1..Len(steps) /\ Len(steps) \in Nat
      /\ DOMAIN steps' = DOMAIN steps \cup {N}
      /\ \A n \in DOMAIN steps : steps'[n] = steps[n]
      /\ steps'[N] = s
  BY <1>1, <1>2, <1>3
<1> HIDE DEF Step
<1>5. ChainIsAPath'
  <2>1. current = IF N = 1 THEN from ELSE steps[N - 1].entered
    BY <1>1, <1>4 DEF IInv, Position, LastElement
  <2>2. ASSUME NEW n \in DOMAIN steps'
        PROVE  steps'[n].exited = IF n = 1 THEN from ELSE steps'[n - 1].entered
    <3>1. CASE n = N
      BY <3>1, <2>1, <1>4
    <3>2. CASE n \in DOMAIN steps
      BY <3>2, <1>4 DEF IInv, ChainIsAPath
    <3> QED
      BY <3>1, <3>2, <1>4
  <2>3. /\ \E i \in DOMAIN Tails(graph.edges[s.edge]) : Tails(graph.edges[s.edge])[i] = s.exited
        /\ \E i \in DOMAIN Heads(graph.edges[s.edge]) : Heads(graph.edges[s.edge])[i] = s.entered
    BY <1>1, <1>2, FirstFacts
  <2>4. ASSUME NEW n \in DOMAIN steps'
        PROVE  /\ \E i \in DOMAIN Tails(graph.edges[steps'[n].edge]) :
                     Tails(graph.edges[steps'[n].edge])[i] = steps'[n].exited
               /\ \E i \in DOMAIN Heads(graph.edges[steps'[n].edge]) :
                     Heads(graph.edges[steps'[n].edge])[i] = steps'[n].entered
    <3>1. CASE n = N
      BY <3>1, <2>3, <1>4
    <3>2. CASE n \in DOMAIN steps
      <4>1. steps'[n] = steps[n]
        BY <3>2, <1>4
      <4>2. /\ \E i \in DOMAIN Tails(graph.edges[steps[n].edge]) :
                  Tails(graph.edges[steps[n].edge])[i] = steps[n].exited
            /\ \E i \in DOMAIN Heads(graph.edges[steps[n].edge]) :
                  Heads(graph.edges[steps[n].edge])[i] = steps[n].entered
        BY <3>2, Zenon DEF IInv, ChainIsAPath
      <4> QED
        BY <4>1, <4>2, Zenon
    <3> QED
      BY <3>1, <3>2, <1>4
  <2> QED
    BY <2>2, <2>4 DEF ChainIsAPath, Tails, Heads, args
<1>6. EarliestEdgeIsTaken'
  <2>1. ASSUME NEW n \in DOMAIN steps', NEW i \in 1..(steps'[n].edge - 1),
               steps'[n].exited \in Range(Tails(graph.edges[i]))
        PROVE  Heads(graph.edges[i]) = <<>>
    <3>1. CASE n = N
      BY <3>1, <2>1, <1>1, <1>2, <1>4, FirstFacts
    <3>2. CASE n \in DOMAIN steps
      BY <3>2, <2>1, <1>4 DEF IInv, EarliestEdgeIsTaken
    <3> QED
      BY <3>1, <3>2, <1>4
  <2> QED
    BY <2>1 DEF EarliestEdgeIsTaken, Tails, Heads, args
<1>7. ExitedOnce'
  BY <1>1, <1>4 DEF IInv, ExitedOnce, Position
<1> QED
  BY <1>3, <1>4, <1>5, <1>6, <1>7 DEF Step

\* What stops the chain changes no step.
LEMMA StopKeeps ==
    ASSUME IInv, NEW why, Stop(why)
    PROVE  IInv'
  BY DEF Stop, IInv, TypeOK, ChainIsAPath, EarliestEdgeIsTaken, ExitedOnce, Position,
         args, Tails, Heads

\* The inductive invariant holds in every reachable state.
THEOREM Inductive == Spec => []IInv
<1>1. Init => IInv
  BY DEF Init, IInv, TypeOK, ChainIsAPath, EarliestEdgeIsTaken, ExitedOnce, Position
<1>2. IInv /\ [Next]_vars => IInv'
  <2> SUFFICES ASSUME IInv, [Next]_vars
               PROVE  IInv'
    OBVIOUS
  <2>1. CASE NotInGraph
    BY <2>1, StopKeeps DEF NotInGraph
  <2>2. CASE Enter
    BY <2>2 DEF Enter, IInv, TypeOK, ChainIsAPath, EarliestEdgeIsTaken, ExitedOnce,
                Position, LastElement, args, Tails, Heads
  <2>3. CASE DepthLimit
    BY <2>3, StopKeeps DEF DepthLimit
  <2>4. CASE DeadEnd
    BY <2>4, StopKeeps DEF DeadEnd
  <2>5. CASE Follow
    <3>1. PICK entered \in Names(graph) \ visited :
            /\ Cross(entered)
            /\ visited' = visited \cup {entered}
            /\ current' = entered
            /\ UNCHANGED <<args, pc>>
      BY <2>5 DEF Follow
    <3>2. pc = "walk" /\ current \in visited
      BY <3>1 DEF Cross, IInv, TypeOK
    <3>3. TypeOK'
      BY <3>1, <3>2, CrossKeeps DEF IInv, TypeOK, args
    <3>4. Position'
      <4>1. Len(steps) \in Nat
        BY DEF IInv, TypeOK
      <4>2. current' = LastElement'
        BY <3>1, <4>1, CrossKeeps DEF LastElement
      <4>3. \A n \in DOMAIN steps' : steps'[n].exited \in visited' \ {current'}
        BY <3>1, <3>2, CrossKeeps DEF IInv, Position
      <4> QED
        BY <3>1, <3>2, <4>2, <4>3 DEF Position
    <3> QED
      BY <3>1, <3>3, <3>4, CrossKeeps DEF IInv
  <2>6. CASE CloseCycle
    <3>1. PICK entered \in visited :
            Cross(entered) /\ pc' = "done" /\ UNCHANGED <<args, current, visited>>
      BY <2>6 DEF CloseCycle
    <3>2. TypeOK'
      BY <3>1, CrossKeeps DEF IInv, TypeOK, args
    <3> QED
      BY <3>1, <3>2, CrossKeeps DEF IInv, Position
  <2>7. CASE UNCHANGED vars
    BY <2>7 DEF vars, args, IInv, TypeOK, ChainIsAPath, EarliestEdgeIsTaken, ExitedOnce,
                Position, LastElement, Tails, Heads
  <2> QED
    BY <2>1, <2>2, <2>3, <2>4, <2>5, <2>6, <2>7 DEF Next
<1> QED
  BY <1>1, <1>2, PTL DEF Spec

\* The steps are a path of the graph in the direction asked for, whatever the
\* graph and the arguments.
THEOREM Path == Spec => []ChainIsAPath
<1>1. IInv => ChainIsAPath
  BY DEF IInv
<1> QED
  BY <1>1, Inductive, PTL

\* The chain follows the data's order, whatever the graph and the arguments.
THEOREM Deterministic == Spec => []EarliestEdgeIsTaken
<1>1. IInv => EarliestEdgeIsTaken
  BY DEF IInv
<1> QED
  BY <1>1, Inductive, PTL

\* No element is exited twice and no chain is longer than its graph has
\* elements: what makes the loop end without a depth limit.
THEOREM Bounded == Spec => []NothingExitedTwice
<1>1. IInv => NothingExitedTwice
  <2> SUFFICES ASSUME IInv PROVE NothingExitedTwice
    OBVIOUS
  <2> DEFINE f == [n \in 1..Len(steps) |-> steps[n].exited]
  <2>1. Len(steps) \in Nat /\ DOMAIN steps = 1..Len(steps)
    BY DEF IInv, TypeOK
  <2>2. f \in Injection(1..Len(steps), Names(graph))
    <3>1. \A n \in DOMAIN steps : steps[n].exited \in Names(graph)
      <4> DEFINE Step == [edge : DOMAIN graph.edges, exited : Names(graph),
                          entered : Names(graph)]
      <4>1. steps \in Seq(Step)
        BY DEF IInv, TypeOK
      <4>2. \A n \in DOMAIN steps : steps[n] \in Step
        <5> HIDE DEF Step
        <5> QED
          BY <4>1
      <4>3. \A t \in Step : t.exited \in Names(graph)
        OBVIOUS
      <4> QED
        BY <4>2, <4>3
    <3>2. f \in [1..Len(steps) -> Names(graph)]
      BY <3>1, <2>1
    <3>3. \A m, n \in 1..Len(steps) : f[m] = f[n] => m = n
      BY <2>1 DEF IInv, ExitedOnce
    <3> QED
      BY <3>2, <3>3, Fun_IsInj
  <2>3. IsFiniteSet(Names(graph))
    BY GraphAssumption DEF IInv, TypeOK
  <2> HIDE DEF f
  <2>4. Cardinality(1..Len(steps)) =< Cardinality(Names(graph))
    BY <2>2, <2>3, FS_Injection
  <2>5. Cardinality(1..Len(steps)) = Len(steps)
    <3>1. Cardinality(1..Len(steps)) = IF 1 > Len(steps) THEN 0 ELSE Len(steps) - 1 + 1
      BY <2>1, FS_Interval
    <3> QED
      BY <2>1, <3>1
  <2> QED
    BY <2>4, <2>5 DEF IInv, ExitedOnce, NothingExitedTwice
<1> QED
  BY <1>1, Inductive, PTL

----------------------------------------------------------------------------
(* The breaks.                                                              *)

\* An element has finitely many ways on.
LEMMA EntriesFinite ==
    ASSUME TypeOK, NEW x
    PROVE  IsFiniteSet(Entries(x)) /\ Cardinality(Entries(x)) \in Nat
<1> DEFINE J(i) == { j \in DOMAIN Tails(graph.edges[i]) : Tails(graph.edges[i])[j] = x }
           H(i) == DOMAIN Heads(graph.edges[i])
           T(i) == {i} \X J(i) \X H(i)
           D == DOMAIN graph.edges
<1>1. IsFiniteSet(D)
  <2>1. graph.edges \in Seq(EdgesOf(graph))
    BY GraphAssumption DEF TypeOK
  <2>2. D = 1..Len(graph.edges) /\ Len(graph.edges) \in Nat
    BY <2>1
  <2> QED
    BY <2>2, FS_Interval
<1>2. ASSUME NEW i \in D PROVE IsFiniteSet(T(i))
  <2>1. IsFiniteSet(DOMAIN Tails(graph.edges[i])) /\ IsFiniteSet(H(i))
    <3>1. /\ Tails(graph.edges[i]) \in Seq(Names(graph))
          /\ Heads(graph.edges[i]) \in Seq(Names(graph))
      BY SidesType
    <3> DEFINE a == Tails(graph.edges[i])
               b == Heads(graph.edges[i])
    <3> HIDE DEF a, b
    <3>2. DOMAIN a = 1..Len(a) /\ Len(a) \in Nat /\ DOMAIN b = 1..Len(b) /\ Len(b) \in Nat
      BY <3>1 DEF a, b
    <3>3. IsFiniteSet(DOMAIN a) /\ IsFiniteSet(DOMAIN b)
      BY <3>2, FS_Interval
    <3> QED
      BY <3>3 DEF a, b
  <2>2. IsFiniteSet(J(i))
    BY <2>1, FS_Subset
  <2>3. IsFiniteSet(J(i) \X H(i))
    <3> HIDE DEF J, H
    <3> QED
      BY <2>1, <2>2, FS_Product
  <2> DEFINE f == [p \in J(i) \X H(i) |-> <<i, p[1], p[2]>>]
  <2>4. f \in Surjection(J(i) \X H(i), T(i))
    <3> HIDE DEF J, H
    <3>1. \A p \in J(i) \X H(i) : f[p] \in T(i)
      OBVIOUS
    <3>2. ASSUME NEW t \in T(i) PROVE \E p \in J(i) \X H(i) : f[p] = t
      <4>1. <<t[2], t[3]>> \in J(i) \X H(i) /\ f[<<t[2], t[3]>>] = t
        OBVIOUS
      <4> QED
        BY <4>1
    <3> HIDE DEF T
    <3>3. f \in [J(i) \X H(i) -> T(i)]
      BY <3>1
    <3> QED
      BY <3>2, <3>3, Fun_IsSurj
  <2> HIDE DEF f, J, H, T
  <2> QED
    BY <2>3, <2>4, FS_Surjection
<1> DEFINE g == [i \in D |-> T(i)]
           S == { T(i) : i \in D }
<1>3. g \in Surjection(D, S)
  <2> HIDE DEF T
  <2>1. g \in [D -> S] /\ \A t \in S : \E i \in D : g[i] = t
    OBVIOUS
  <2> QED
    BY <2>1, Fun_IsSurj
<1>4. IsFiniteSet(S)
  <2> HIDE DEF g, S
  <2> QED
    BY <1>1, <1>3, FS_Surjection
<1>5. \A t \in S : IsFiniteSet(t)
  BY <1>2
<1>6. Entries(x) = UNION S
  BY DEF Entries
<1> HIDE DEF S
<1> QED
  BY <1>4, <1>5, <1>6, FS_UNION, FS_CardinalityType

\* Where x stands in a sequence.
At(s, x) == { n \in DOMAIN s : s[n] = x }

\* Writing r at the end of s a number of times adds so many places of r.
LEMMA CountAppended ==
    ASSUME NEW S, NEW s \in Seq(S), NEW m \in Nat, NEW r \in S, NEW x,
           NEW t, t = [n \in 1..m |-> r]
    PROVE  /\ s \o t \in Seq(S)
           /\ Len(s \o t) = Len(s) + m
           /\ \A n \in DOMAIN s : (s \o t)[n] = s[n]
           /\ \A n \in DOMAIN (s \o t) : n \in DOMAIN s \/ (s \o t)[n] = r
           /\ IsFiniteSet(At(s, x)) /\ Cardinality(At(s, x)) \in Nat
           /\ Cardinality(At(s \o t, x)) = Cardinality(At(s, x)) + (IF x = r THEN m ELSE 0)
<1> DEFINE u == s \o t
           B == IF x = r THEN (Len(s) + 1)..(Len(s) + m) ELSE {}
<1>1. t \in Seq(S) /\ Len(t) = m
  OBVIOUS
<1>2. /\ u \in Seq(S) /\ Len(u) = Len(s) + m /\ Len(s) \in Nat
      /\ DOMAIN s = 1..Len(s) /\ DOMAIN u = 1..(Len(s) + m)
      /\ \A n \in 1..Len(s) : u[n] = s[n]
      /\ \A n \in (Len(s) + 1)..(Len(s) + m) : u[n] = r
  BY <1>1
<1> HIDE DEF u
<1>3. At(u, x) = At(s, x) \cup B /\ At(s, x) \cap B = {}
  BY <1>2 DEF At
<1>4. IsFiniteSet(At(s, x)) /\ Cardinality(At(s, x)) \in Nat
  <2>1. IsFiniteSet(DOMAIN s) /\ At(s, x) \in SUBSET DOMAIN s
    BY <1>2, FS_Interval DEF At
  <2> QED
    BY <2>1, FS_Subset, FS_CardinalityType
<1>5. IsFiniteSet(B) /\ Cardinality(B) = IF x = r THEN m ELSE 0
  <2>1. CASE x = r
    <3> DEFINE a == Len(s) + 1
               b == Len(s) + m
    <3>1. a \in Int /\ b \in Int /\ b - a + 1 = m /\ (a > b => m = 0)
      BY <1>2
    <3> HIDE DEF a, b
    <3>2. IsFiniteSet(a..b) /\ Cardinality(a..b) = IF a > b THEN 0 ELSE b - a + 1
      BY <3>1, FS_Interval
    <3>3. IsFiniteSet(a..b) /\ Cardinality(a..b) = m
      BY <3>1, <3>2
    <3> QED
      BY <2>1, <3>3 DEF a, b
  <2>2. CASE x # r
    BY <2>2, FS_EmptySet
  <2> QED
    BY <2>1, <2>2
<1> HIDE DEF B
<1>6. Cardinality(At(u, x)) = Cardinality(At(s, x)) + Cardinality(B) - Cardinality({})
  BY <1>3, <1>4, <1>5, FS_Union
<1>7. Cardinality(At(u, x)) = Cardinality(At(s, x)) + (IF x = r THEN m ELSE 0)
  BY <1>4, <1>5, <1>6, FS_EmptySet
<1>8. \A n \in DOMAIN u : n \in DOMAIN s \/ u[n] = r
  BY <1>2
<1>9. \A n \in DOMAIN s : u[n] = s[n]
  BY <1>2
<1> QED
  BY <1>2, <1>4, <1>7, <1>8, <1>9 DEF u

Reasons == { "branch-not-taken", "element-not-in-graph", "depth-limit", "cycle-detected",
             "no-outgoing-edges", "no-incoming-edges" }

Breaks == [at : Starts \cup Names(graph), reason : Reasons]

Passed(x) == [at |-> x, reason |-> "branch-not-taken"]

\* While the chain walks, what has been visited is what was exited and where it
\* is now: an element entered a second time is one that was exited.
BInv ==
    /\ breaks \in Seq(Breaks)
    /\ pc = "start" => breaks = <<>>
    /\ EveryBranchIsNamed
    /\ StopsForOneReason
    /\ maxDepth > 0 => Len(steps) =< maxDepth
    /\ pc = "walk" => \A v \in visited :
          v = current \/ \E n \in DOMAIN steps : steps[n].exited = v

\* Crossing an edge names the ways not taken at the element exited, once each,
\* whatever else (b) the step has put down that is not a way not taken.
LEMMA CrossNames ==
    ASSUME IInv, BInv, NEW entered, Cross(entered), UNCHANGED args,
           NEW b \in Seq(Breaks),
           \A x : Cardinality(At(b, Passed(x))) = Cardinality(At(breaks, Passed(x))),
           \A k \in DOMAIN b : b[k].reason = "branch-not-taken" =>
              \E n \in DOMAIN steps : steps[n].exited = b[k].at,
           breaks' = b \o NotTaken(current)
    PROVE  /\ breaks' \in Seq(Breaks)
           /\ Len(b) \in Nat /\ DOMAIN b = 1..Len(b)
           /\ \A k \in DOMAIN b : breaks'[k] = b[k]
           /\ \A k \in DOMAIN breaks' : k \in DOMAIN b \/ breaks'[k] = Passed(current)
           /\ DOMAIN b \subseteq DOMAIN breaks'
           /\ EveryBranchIsNamed'
<1> DEFINE m == Cardinality(Entries(current)) - 1
<1>1. pc = "walk" /\ Entries(current) # {} /\ TypeOK /\ current \in Names(graph)
  BY DEF Cross, IInv, TypeOK
<1>2. m \in Nat /\ m + 1 = Cardinality(Entries(current))
  <2>1. Cardinality(Entries(current)) \in Nat /\ Cardinality(Entries(current)) # 0
    BY <1>1, EntriesFinite, FS_EmptySet
  <2> QED
    BY <2>1
<1>3. NotTaken(current) = [n \in 1..m |-> Passed(current)]
  BY DEF NotTaken, Passed
<1>4. Passed(current) \in Breaks
  BY <1>1 DEF Passed, Breaks, Reasons
<1> HIDE DEF m
<1>5. ASSUME NEW x
      PROVE  /\ breaks' \in Seq(Breaks) /\ Len(breaks') = Len(b) + m
             /\ \A k \in DOMAIN b : breaks'[k] = b[k]
             /\ \A k \in DOMAIN breaks' : k \in DOMAIN b \/ breaks'[k] = Passed(current)
             /\ Cardinality(At(b, x)) \in Nat
             /\ Cardinality(At(breaks', x))
                   = Cardinality(At(b, x)) + (IF x = Passed(current) THEN m ELSE 0)
  <2> DEFINE t == [n \in 1..m |-> Passed(current)]
  <2>1. breaks' = b \o t
    BY <1>3
  <2>2. t = [n \in 1..m |-> Passed(current)]
    OBVIOUS
  <2> HIDE DEF t
  <2>3. /\ b \o t \in Seq(Breaks) /\ Len(b \o t) = Len(b) + m
        /\ \A k \in DOMAIN b : (b \o t)[k] = b[k]
        /\ \A k \in DOMAIN (b \o t) : k \in DOMAIN b \/ (b \o t)[k] = Passed(current)
        /\ Cardinality(At(b, x)) \in Nat
        /\ Cardinality(At(b \o t, x))
              = Cardinality(At(b, x)) + (IF x = Passed(current) THEN m ELSE 0)
    BY <1>2, <1>4, <2>2, CountAppended
  <2> QED
    BY <2>1, <2>3
<1>6. /\ Len(b) \in Nat /\ DOMAIN b = 1..Len(b)
      /\ DOMAIN b \subseteq DOMAIN breaks'
  <2>1. Len(b) \in Nat /\ DOMAIN b = 1..Len(b) /\ DOMAIN breaks' = 1..Len(breaks')
    BY <1>5
  <2> QED
    BY <1>2, <1>5, <2>1
<1>7. \A x : Entries(x)' = Entries(x)
  BY DEF args, Entries, Tails, Heads
<1>8. \A n \in DOMAIN steps' :
         Cardinality(At(breaks', Passed(steps'[n].exited))) + 1
            = Cardinality(Entries(steps'[n].exited))
  <2> SUFFICES ASSUME NEW n \in DOMAIN steps'
               PROVE  Cardinality(At(breaks', Passed(steps'[n].exited))) + 1
                         = Cardinality(Entries(steps'[n].exited))
    OBVIOUS
  <2>1. CASE n \in DOMAIN steps
    <3>1. steps'[n] = steps[n] /\ steps[n].exited # current
      BY <2>1, <1>1, CrossKeeps DEF IInv, Position
    <3>2. Passed(steps[n].exited) # Passed(current)
      BY <3>1 DEF Passed
    <3>3. Cardinality(At(breaks, Passed(steps[n].exited))) + 1
             = Cardinality(Entries(steps[n].exited))
      BY <2>1 DEF BInv, EveryBranchIsNamed, BreaksAt, At, Passed
    <3> QED
      BY <1>5, <3>1, <3>2, <3>3
  <2>2. CASE n = Len(steps')
    <3>1. steps'[n].exited = current
      BY <2>2, CrossKeeps
    <3>2. At(breaks, Passed(current)) = {}
      <4> SUFFICES ASSUME NEW k \in DOMAIN breaks, breaks[k] = Passed(current)
                   PROVE  FALSE
        BY DEF At
      <4>1. breaks[k].reason = "branch-not-taken" /\ breaks[k].at = current
        BY DEF Passed
      <4>2. PICK i \in DOMAIN steps : steps[i].exited = current
        BY <4>1 DEF BInv, EveryBranchIsNamed
      <4> QED
        BY <4>2, <1>1 DEF IInv, Position
    <3>3. Cardinality(At(b, Passed(current))) = 0
      <4>1. Cardinality(At(b, Passed(current))) = Cardinality(At(breaks, Passed(current)))
        OBVIOUS
      <4> QED
        BY <3>2, <4>1, FS_EmptySet
    <3>4. Cardinality(At(breaks', Passed(current))) = m
      BY <1>2, <1>5, <3>3
    <3> QED
      BY <1>2, <3>1, <3>4
  <2> QED
    BY <2>1, <2>2, CrossKeeps
<1>9. \A k \in DOMAIN breaks' : breaks'[k].reason = "branch-not-taken" =>
         \E n \in DOMAIN steps' : steps'[n].exited = breaks'[k].at
  <2> SUFFICES ASSUME NEW k \in DOMAIN breaks', breaks'[k].reason = "branch-not-taken"
               PROVE  \E n \in DOMAIN steps' : steps'[n].exited = breaks'[k].at
    OBVIOUS
  <2>1. CASE k \in DOMAIN b
    <3>1. breaks'[k] = b[k]
      BY <2>1, <1>5
    <3>2. PICK n \in DOMAIN steps : steps[n].exited = b[k].at
      BY <2>1, <3>1
    <3>3. n \in DOMAIN steps' /\ steps'[n] = steps[n]
      BY CrossKeeps
    <3> QED
      BY <3>1, <3>2, <3>3
  <2>2. CASE breaks'[k] = Passed(current)
    <3>1. breaks'[k].at = current
      BY <2>2 DEF Passed
    <3>2. Len(steps') \in DOMAIN steps' /\ steps'[Len(steps')].exited = current
      BY CrossKeeps
    <3> QED
      BY <3>1, <3>2
  <2> QED
    BY <1>5, <2>1, <2>2
<1>10. EveryBranchIsNamed'
  BY <1>7, <1>8, <1>9 DEF EveryBranchIsNamed, BreaksAt, At, Passed
<1> QED
  BY <1>5, <1>6, <1>10

\* Writing down anything but a way not taken leaves the ways not taken as they
\* are.
LEMMA OtherBreak ==
    ASSUME BInv, NEW x \in Starts \cup Names(graph), NEW why \in Reasons \ {"branch-not-taken"}
    PROVE  LET b == breaks \o Break(x, why) IN
           /\ b \in Seq(Breaks)
           /\ Len(breaks) \in Nat /\ DOMAIN breaks = 1..Len(breaks)
           /\ DOMAIN b = DOMAIN breaks \cup {Len(breaks) + 1}
           /\ b[Len(breaks) + 1] = [at |-> x, reason |-> why]
           /\ \A k \in DOMAIN breaks : b[k] = breaks[k]
           /\ \A y : Cardinality(At(b, Passed(y))) = Cardinality(At(breaks, Passed(y)))
<1> DEFINE r == [at |-> x, reason |-> why]
           t == Break(x, why)
<1>1. r \in Breaks
  BY DEF Breaks
<1>2. t = [n \in 1..1 |-> r]
  BY DEF Break
<1>3. breaks \in Seq(Breaks)
  BY DEF BInv
<1>4. ASSUME NEW y
      PROVE  Cardinality(At(breaks \o t, Passed(y))) = Cardinality(At(breaks, Passed(y)))
  <2>1. Passed(y) # r
    BY DEF Passed
  <2> DEFINE z == Passed(y)
             m == 1
  <2>2. m \in Nat /\ z # r /\ t = [n \in 1..m |-> r]
    BY <1>2, <2>1
  <2> HIDE DEF r, t, z, m
  <2>3. /\ Cardinality(At(breaks, z)) \in Nat
        /\ Cardinality(At(breaks \o t, z))
              = Cardinality(At(breaks, z)) + (IF z = r THEN m ELSE 0)
    BY <1>1, <1>3, <2>2, CountAppended
  <2> QED
    BY <2>2, <2>3 DEF z
<1>5. t = <<r>>
  BY DEF Break
<1> HIDE DEF r, t
<1>6. /\ breaks \o t \in Seq(Breaks)
      /\ Len(breaks) \in Nat /\ DOMAIN breaks = 1..Len(breaks)
      /\ DOMAIN (breaks \o t) = DOMAIN breaks \cup {Len(breaks) + 1}
      /\ (breaks \o t)[Len(breaks) + 1] = r
      /\ \A k \in DOMAIN breaks : (breaks \o t)[k] = breaks[k]
  BY <1>1, <1>3, <1>5
<1> QED
  BY <1>4, <1>6 DEF r, t

\* A chain that stops for a reason that is true, where it is, tells all.
LEMMA StopTells ==
    ASSUME IInv, BInv, pc # "done", NEW why \in Reasons \ {"branch-not-taken"},
           Stop(why), Explains(why)
    PROVE  BInv'
<1>1. current \in Starts \cup Names(graph) /\ current = LastElement
  BY DEF IInv, TypeOK, Position, LastElement
<1>2. /\ breaks' \in Seq(Breaks)
      /\ Len(breaks) \in Nat /\ DOMAIN breaks = 1..Len(breaks)
      /\ DOMAIN breaks' = DOMAIN breaks \cup {Len(breaks) + 1}
      /\ breaks'[Len(breaks) + 1] = [at |-> current, reason |-> why]
      /\ \A k \in DOMAIN breaks : breaks'[k] = breaks[k]
      /\ \A y : Cardinality(At(breaks', Passed(y))) = Cardinality(At(breaks, Passed(y)))
  BY <1>1, OtherBreak DEF Stop
<1>3. UNCHANGED <<args, current, visited, steps>> /\ pc' = "done"
  BY DEF Stop
<1>4. LastElement' = LastElement /\ Explains(why)'
  <2>1. LastElement' = LastElement
    BY <1>3 DEF args, LastElement
  <2>2. Entries(LastElement)' = Entries(LastElement)
    BY <1>3, <2>1 DEF args, Entries, Tails, Heads
  <2> QED
    BY <1>3, <2>1, <2>2 DEF args, Explains, Names
<1>5. \A k \in DOMAIN breaks : breaks[k].reason = "branch-not-taken"
  BY DEF BInv, StopsForOneReason
<1>6. StopsForOneReason'
  <2>1. { k \in DOMAIN breaks' : breaks'[k].reason # "branch-not-taken" } = {Len(breaks) + 1}
    BY <1>2, <1>5
  <2>2. Cardinality({Len(breaks) + 1}) = 1
    BY FS_Singleton
  <2>3. breaks'[Len(breaks) + 1].at = LastElement' /\ breaks'[Len(breaks) + 1].reason = why
    BY <1>1, <1>2, <1>4
  <2>4. \A k \in {Len(breaks) + 1} :
           (breaks[k].at = LastElement /\ Explains(breaks[k].reason))'
    BY <1>4, <2>3 DEF Explains
  <2> QED
    BY <1>3, <2>1, <2>2, <2>4 DEF StopsForOneReason
<1>7. EveryBranchIsNamed'
  <2>1. \A x : Entries(x)' = Entries(x)
    BY <1>3 DEF args, Entries, Tails, Heads
  <2>2. \A n \in DOMAIN steps :
           Cardinality(At(breaks', Passed(steps[n].exited))) + 1
              = Cardinality(Entries(steps[n].exited))
    BY <1>2 DEF BInv, EveryBranchIsNamed, BreaksAt, At, Passed
  <2>3. \A k \in DOMAIN breaks' : breaks'[k].reason = "branch-not-taken" =>
           \E n \in DOMAIN steps : steps[n].exited = breaks'[k].at
    BY <1>2 DEF BInv, EveryBranchIsNamed
  <2> QED
    BY <1>3, <2>1, <2>2, <2>3 DEF EveryBranchIsNamed, BreaksAt, At, Passed
<1>8. Breaks' = Breaks
  BY <1>3 DEF args, Breaks
<1> QED
  BY <1>2, <1>3, <1>6, <1>7, <1>8 DEF BInv, args

\* The breaks account for everything in every reachable state.
THEOREM BreaksInductive == Spec => [](IInv /\ BInv)
<1>1. Init => BInv
  <2> SUFFICES ASSUME Init PROVE BInv
    OBVIOUS
  <2>1. { k \in DOMAIN breaks : breaks[k].reason # "branch-not-taken" } = {}
    BY DEF Init
  <2>2. StopsForOneReason
    BY <2>1 DEF Init, StopsForOneReason
  <2>3. EveryBranchIsNamed
    BY DEF Init, EveryBranchIsNamed
  <2>4. GraphAssumption /\ steps = <<>> /\ breaks = <<>> /\ pc = "start"
    BY GraphAssumption DEF Init
  <2>5. maxDepth > 0 => Len(steps) =< maxDepth
    BY <2>4 DEF Init, GraphAssumption
  <2> QED
    BY <2>2, <2>3, <2>4, <2>5 DEF BInv
<1>2. IInv /\ IInv' /\ BInv /\ [Next]_vars => BInv'
  <2> SUFFICES ASSUME IInv, IInv', BInv, [Next]_vars
               PROVE  BInv'
    OBVIOUS
  <2>1. CASE NotInGraph
    <3>1. Explains("element-not-in-graph")
      BY <2>1 DEF NotInGraph, Explains, IInv, Position
    <3> QED
      BY <2>1, <3>1, StopTells DEF NotInGraph, Reasons
  <2>2. CASE Enter
    <3>1. breaks = <<>> /\ steps = <<>>
      BY <2>2 DEF Enter, BInv, IInv, Position
    <3>2. { k \in DOMAIN breaks : breaks[k].reason # "branch-not-taken" } = {}
      BY <3>1
    <3> QED
      BY <2>2, <3>1, <3>2 DEF Enter, args, BInv, IInv, Position, EveryBranchIsNamed,
            StopsForOneReason, Breaks
  <2>3. CASE DepthLimit
    <3>1. Explains("depth-limit")
      <4>1. maxDepth \in Int /\ Len(steps) \in Nat
        BY GraphAssumption DEF IInv, TypeOK
      <4>2. Len(steps) = maxDepth
        BY <2>3, <4>1 DEF DepthLimit, AtLimit, BInv
      <4> QED
        BY <4>2 DEF Explains
    <3> QED
      BY <2>3, <3>1, StopTells DEF DepthLimit, Reasons
  <2>4. CASE DeadEnd
    <3> DEFINE why == IF dir = "forward" THEN "no-outgoing-edges" ELSE "no-incoming-edges"
    <3>1. Explains(why)
      BY <2>4 DEF DeadEnd, Explains, IInv, Position
    <3>2. why \in Reasons \ {"branch-not-taken"}
      BY DEF Reasons
    <3>3. Stop(why) /\ pc = "walk"
      BY <2>4 DEF DeadEnd
    <3> HIDE DEF why
    <3> QED
      BY <3>1, <3>2, <3>3, StopTells
  <2>5. CASE Follow
    <3>1. PICK entered \in Names(graph) \ visited :
            /\ Cross(entered)
            /\ breaks' = breaks \o NotTaken(current)
            /\ visited' = visited \cup {entered}
            /\ current' = entered
            /\ UNCHANGED <<args, pc>>
      BY <2>5 DEF Follow
    <3>2. pc = "walk"
      BY <3>1 DEF Cross
    <3>3. /\ breaks' \in Seq(Breaks)
          /\ \A k \in DOMAIN breaks : breaks'[k] = breaks[k]
          /\ \A k \in DOMAIN breaks' : k \in DOMAIN breaks \/ breaks'[k] = Passed(current)
          /\ EveryBranchIsNamed'
      BY <3>1, CrossNames DEF BInv, EveryBranchIsNamed
    <3>4. \A k \in DOMAIN breaks' : breaks'[k].reason = "branch-not-taken"
      BY <3>2, <3>3 DEF Passed, BInv, StopsForOneReason
    <3>5. StopsForOneReason'
      BY <3>1, <3>2, <3>4 DEF StopsForOneReason
    <3>6. \A v \in visited' :
             v = current' \/ \E n \in DOMAIN steps' : steps'[n].exited = v
      BY <3>1, <3>2, CrossKeeps DEF BInv
    <3>7. maxDepth > 0 => Len(steps') =< maxDepth
      <4>1. maxDepth \in Int /\ Len(steps) \in Nat
        BY GraphAssumption DEF IInv, TypeOK
      <4> QED
        BY <3>1, <4>1, CrossKeeps DEF Cross, AtLimit
    <3> QED
      BY <3>1, <3>2, <3>3, <3>5, <3>6, <3>7 DEF BInv, args, Breaks
  <2>6. CASE CloseCycle
    <3>1. PICK entered \in visited :
            /\ Cross(entered)
            /\ breaks' = (breaks \o Break(entered, "cycle-detected")) \o NotTaken(current)
            /\ pc' = "done"
            /\ UNCHANGED <<args, current, visited>>
      BY <2>6 DEF CloseCycle
    <3> DEFINE b == breaks \o Break(entered, "cycle-detected")
               c == Len(breaks) + 1
    <3>2. pc = "walk" /\ entered \in Names(graph)
      BY <3>1, CrossKeeps DEF Cross
    <3>3. /\ b \in Seq(Breaks)
          /\ DOMAIN b = DOMAIN breaks \cup {c}
          /\ b[c] = [at |-> entered, reason |-> "cycle-detected"]
          /\ \A k \in DOMAIN breaks : b[k] = breaks[k]
          /\ \A y : Cardinality(At(b, Passed(y))) = Cardinality(At(breaks, Passed(y)))
      BY <3>2, OtherBreak DEF Reasons
    <3>4. breaks' = b \o NotTaken(current)
      BY <3>1
    <3> HIDE DEF b, c
    <3>5. \A k \in DOMAIN b : b[k].reason = "branch-not-taken" =>
             \E n \in DOMAIN steps : steps[n].exited = b[k].at
      BY <3>3 DEF BInv, EveryBranchIsNamed
    <3>6. /\ breaks' \in Seq(Breaks)
          /\ \A k \in DOMAIN b : breaks'[k] = b[k]
          /\ \A k \in DOMAIN breaks' : k \in DOMAIN b \/ breaks'[k] = Passed(current)
          /\ DOMAIN b \subseteq DOMAIN breaks'
          /\ EveryBranchIsNamed'
      BY <3>1, <3>3, <3>4, <3>5, CrossNames
    <3>7. { k \in DOMAIN breaks' : breaks'[k].reason # "branch-not-taken" } = {c}
      BY <3>2, <3>3, <3>6 DEF Passed, BInv, StopsForOneReason
    <3>8. LastElement' = entered
      <4>1. Len(steps) \in Nat
        BY DEF IInv, TypeOK
      <4> QED
        BY <3>1, <4>1, CrossKeeps DEF LastElement
    <3>9. \E n \in DOMAIN steps' : steps'[n].exited = entered
      <4>1. entered = current \/ \E n \in DOMAIN steps : steps[n].exited = entered
        BY <3>1, <3>2 DEF BInv
      <4> QED
        BY <3>1, <4>1, CrossKeeps
    <3>10. StopsForOneReason'
      <4>1. breaks'[c].at = entered /\ breaks'[c].reason = "cycle-detected"
        BY <3>3, <3>6
      <4>2. Explains("cycle-detected")'
        BY <3>8, <3>9 DEF Explains
      <4>3. Cardinality({c}) = 1
        BY FS_Singleton
      <4> QED
        BY <3>1, <3>7, <3>8, <4>1, <4>2, <4>3 DEF StopsForOneReason
    <3>11. maxDepth > 0 => Len(steps') =< maxDepth
      <4>1. maxDepth \in Int /\ Len(steps) \in Nat
        BY GraphAssumption DEF IInv, TypeOK
      <4> QED
        BY <3>1, <4>1, CrossKeeps DEF Cross, AtLimit
    <3> QED
      BY <3>1, <3>6, <3>10, <3>11 DEF BInv, args, Breaks
  <2>7. CASE UNCHANGED vars
    <3>1. /\ graph' = graph /\ from' = from /\ dir' = dir /\ maxDepth' = maxDepth
          /\ pc' = pc /\ current' = current /\ visited' = visited
          /\ steps' = steps /\ breaks' = breaks
      BY <2>7 DEF vars, args
    <3>2. \A x : Entries(x)' = Entries(x)
      BY <3>1 DEF Entries, Tails, Heads
    <3>3. EveryBranchIsNamed'
      BY <3>1, <3>2 DEF BInv, EveryBranchIsNamed, BreaksAt
    <3>4. LastElement' = LastElement
      BY <3>1 DEF LastElement
    <3>5. \A why : Explains(why)' = Explains(why)
      BY <3>1, <3>2, <3>4 DEF Explains
    <3>6. StopsForOneReason'
      BY <3>1, <3>4, <3>5 DEF BInv, StopsForOneReason
    <3> QED
      BY <3>1, <3>3, <3>6 DEF BInv, Breaks
  <2> QED
    BY <2>1, <2>2, <2>3, <2>4, <2>5, <2>6, <2>7 DEF Next
<1> QED
  BY <1>1, <1>2, Inductive, PTL DEF Spec

\* A chain is a simple path of the graph (FollowTranslation), whatever the graph
\* and the arguments.
THEOREM SimplePath == Spec => []ChainIsASimplePath
<1>1. ChainIsAPath /\ NothingExitedTwice => ChainIsASimplePath
  BY DEF ChainIsASimplePath
<1> QED
  BY <1>1, Path, Bounded, PTL

\* Every way not taken is named where it was passed by, as often as the graph
\* offers it, and every finished chain says once, truly, why it stopped.
THEOREM AllIsTold == Spec => []BreaksTellAll
<1>1. BInv => BreaksTellAll
  BY DEF BInv, BreaksTellAll
<1> QED
  BY <1>1, BreaksInductive, PTL

\* The state of the loop keeps its type.
THEOREM TypeCorrect == Spec => []TypeOK
<1>1. IInv => TypeOK
  BY DEF IInv
<1> QED
  BY <1>1, Inductive, PTL
=============================================================================
