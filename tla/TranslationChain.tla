-------------------------- MODULE TranslationChain --------------------------
(***************************************************************************)
(* FollowTranslation (meshant/graph/chain.go), one turn of its loop a step: *)
(* from an element of an articulated graph, along the first edge that       *)
(* leaves it, to the element entered, until something stops the chain.      *)
(***************************************************************************)
EXTENDS MeshGraph

CONSTANTS
    Graphs,       \* the graphs a chain may be followed through
    Starts,       \* the elements a caller may name, in the graph or not
    Depths        \* the depths a caller may ask for; below 1: unlimited

\* Articulate makes a node of every element an edge mentions.
ASSUME GraphAssumption ==
    /\ Depths \subseteq Int
    /\ \A g \in Graphs :
          /\ g.edges \in Seq(EdgesOf(g))
          /\ IsFiniteSet(Names(g))
          /\ \A e \in EdgesOf(g) :
                e.source \in Seq(Names(g)) /\ e.target \in Seq(Names(g))

VARIABLES
    graph, from, dir, maxDepth,  \* the arguments of the call
    pc,           \* "start", "walk" or "done"
    current,      \* the element the chain has come to
    visited,      \* the elements it has been at
    steps,        \* the edges crossed
    breaks        \* where it stopped or passed an alternative by, and why

args == <<graph, from, dir, maxDepth>>
vars == <<args, pc, current, visited, steps, breaks>>

Init ==
    /\ graph \in Graphs
    /\ from \in Starts
    /\ dir \in {"forward", "backward"}
    /\ maxDepth \in Depths
    /\ pc = "start"
    /\ current = from
    /\ visited = {}
    /\ steps = <<>>
    /\ breaks = <<>>

Tails(e) == IF dir = "forward" THEN e.source ELSE e.target
Heads(e) == IF dir = "forward" THEN e.target ELSE e.source

\* The adjacency list of x, as the positions <<edge, tail, head>> in it: an
\* entry for every place x has on one side of an edge and every place on its
\* other side, an element named twice counting twice.
Entries(x) ==
    UNION { {i} \X { j \in DOMAIN Tails(graph.edges[i]) : Tails(graph.edges[i])[j] = x }
                \X DOMAIN Heads(graph.edges[i]) : i \in DOMAIN graph.edges }

\* Its first entry: of the first edge in the order of the data, to the first
\* element on the far side.
First(x) == CHOOSE i \in { n[1] : n \in Entries(x) } : \A n \in Entries(x) : i =< n[1]

Break(x, why) == <<[at |-> x, reason |-> why]>>

NotTaken(x) == [n \in 1..(Cardinality(Entries(x)) - 1) |->
                   [at |-> x, reason |-> "branch-not-taken"]]

Stop(why) ==
    /\ breaks' = breaks \o Break(current, why)
    /\ pc' = "done"
    /\ UNCHANGED <<args, current, visited, steps>>

NotInGraph ==
    /\ pc = "start"
    /\ from \notin Names(graph)
    /\ Stop("element-not-in-graph")

\* The element the chain starts at is not remembered.
Enter_Mutant ==
    /\ pc = "start"
    /\ from \in Names(graph)
    /\ pc' = "walk"
    /\ UNCHANGED <<args, current, visited, steps, breaks>>

Enter ==
    /\ pc = "start"
    /\ from \in Names(graph)
    /\ visited' = {from}
    /\ pc' = "walk"
    /\ UNCHANGED <<args, current, steps, breaks>>

AtLimit == maxDepth > 0 /\ Len(steps) >= maxDepth

DepthLimit ==
    /\ pc = "walk"
    /\ AtLimit
    /\ Stop("depth-limit")

DeadEnd ==
    /\ pc = "walk"
    /\ ~AtLimit
    /\ Entries(current) = {}
    /\ Stop(IF dir = "forward" THEN "no-outgoing-edges" ELSE "no-incoming-edges")

\* What Follow and CloseCycle share: the step is recorded either way.
Cross(entered) ==
    /\ pc = "walk"
    /\ ~AtLimit
    /\ Entries(current) # {}
    /\ entered = Heads(graph.edges[First(current)])[1]
    /\ steps' = Append(steps, [edge |-> First(current), exited |-> current,
                               entered |-> entered])

\* The alternatives put down at the element entered.
Follow_Mutant ==
    \E entered \in Names(graph) \ visited :
        /\ Cross(entered)
        /\ breaks' = breaks \o NotTaken(entered)
        /\ visited' = visited \cup {entered}
        /\ current' = entered
        /\ UNCHANGED <<args, pc>>

\* What is entered is not remembered.
Follow_MutantForgets ==
    \E entered \in Names(graph) \ visited :
        /\ Cross(entered)
        /\ breaks' = breaks \o NotTaken(current)
        /\ current' = entered
        /\ UNCHANGED <<args, pc, visited>>

Follow ==
    \E entered \in Names(graph) \ visited :
        /\ Cross(entered)
        /\ breaks' = breaks \o NotTaken(current)
        /\ visited' = visited \cup {entered}
        /\ current' = entered
        /\ UNCHANGED <<args, pc>>

\* The loop goes on at an element it has been at, without a step.
CloseCycle_Mutant ==
    /\ pc = "walk"
    /\ ~AtLimit
    /\ Entries(current) # {}
    /\ Heads(graph.edges[First(current)])[1] \in visited
    /\ UNCHANGED vars

\* The chain ends at an element it has been at before the closing edge is a
\* step of it.
CloseCycle ==
    \E entered \in visited :
        /\ Cross(entered)
        /\ breaks' = (breaks \o Break(entered, "cycle-detected")) \o NotTaken(current)
        /\ pc' = "done"
        /\ UNCHANGED <<args, current, visited>>

Next ==
    \/ NotInGraph
    \/ Enter
    \/ DepthLimit
    \/ DeadEnd
    \/ Follow
    \/ CloseCycle

Spec == Init /\ [][Next]_vars

\* The loop runs until it breaks out.
FairSpec == Spec /\ WF_vars(Next)

----------------------------------------------------------------------------
(* Properties.                                                              *)

TypeOK ==
    /\ graph \in Graphs
    /\ from \in Starts
    /\ dir \in {"forward", "backward"}
    /\ maxDepth \in Depths
    /\ pc \in {"start", "walk", "done"}
    /\ visited \subseteq Names(graph)
    /\ steps \in Seq([edge : DOMAIN graph.edges, exited : Names(graph),
                      entered : Names(graph)])
    /\ pc = "walk" => current \in visited

\* The steps are one path through the graph: it starts where the caller said,
\* each step exits where the one before entered, along an edge that leads from
\* the one to the other in the direction asked for.
ChainIsAPath ==
    \A n \in DOMAIN steps :
        /\ steps[n].exited = IF n = 1 THEN from ELSE steps[n - 1].entered
        /\ \E i \in DOMAIN Tails(graph.edges[steps[n].edge]) :
              Tails(graph.edges[steps[n].edge])[i] = steps[n].exited
        /\ \E i \in DOMAIN Heads(graph.edges[steps[n].edge]) :
              Heads(graph.edges[steps[n].edge])[i] = steps[n].entered

\* No element is exited twice, so a chain is never longer than the graph has
\* elements, however deep the caller asks to go and whatever cycles the graph
\* has; only the last step may enter an element again.
NothingExitedTwice ==
    /\ \A m, n \in DOMAIN steps : steps[m].exited = steps[n].exited => m = n
    /\ Len(steps) =< Cardinality(Names(graph))

\* Wherever it goes and however deep, a chain is a simple path of the graph.
ChainIsASimplePath == ChainIsAPath /\ NothingExitedTwice

BreaksAt(x, why) == Cardinality({ n \in DOMAIN breaks : breaks[n] = [at |-> x, reason |-> why] })

\* Every way not taken is put down at the element where it was passed by, as
\* often as the graph offers it, and nowhere else ("Breaks are analytically
\* significant", ChainBreak): steps and breaks together account for all
\* entries of every element exited.
EveryBranchIsNamed ==
    /\ \A n \in DOMAIN steps :
          BreaksAt(steps[n].exited, "branch-not-taken") + 1
              = Cardinality(Entries(steps[n].exited))
    /\ \A k \in DOMAIN breaks : breaks[k].reason = "branch-not-taken" =>
          \E n \in DOMAIN steps : steps[n].exited = breaks[k].at

LastElement == IF steps = <<>> THEN from ELSE steps[Len(steps)].entered

\* What must hold where a chain stopped for this reason.
Explains(why) ==
    CASE why = "element-not-in-graph" -> from \notin Names(graph) /\ steps = <<>>
      [] why = "depth-limit" -> Len(steps) = maxDepth
      [] why = "cycle-detected" ->
            \E n \in DOMAIN steps : steps[n].exited = LastElement
      [] why \in {"no-outgoing-edges", "no-incoming-edges"} ->
            /\ (why = "no-outgoing-edges") = (dir = "forward")
            /\ Entries(LastElement) = {}

\* A finished chain says exactly once why it stopped, at the element it
\* stopped at, and the reason is true; an unfinished one does not say so yet.
StopsForOneReason ==
    LET stops == { k \in DOMAIN breaks : breaks[k].reason # "branch-not-taken" } IN
    /\ pc = "done" => Cardinality(stops) = 1
    /\ pc # "done" => stops = {}
    /\ \A k \in stops : breaks[k].at = LastElement /\ Explains(breaks[k].reason)

\* The breaks of a chain tell all that it is not: every way not taken, and why
\* it went no further (FollowTranslation appends them in three places).
BreaksTellAll == EveryBranchIsNamed /\ StopsForOneReason

\* Of two ways on, the one recorded first in the data is taken ("the traversal
\* is deterministic: ... the first by dataset order"): no earlier edge offers a
\* way on from where a step exits.
EarliestEdgeIsTaken ==
    \A n \in DOMAIN steps : \A i \in 1..(steps[n].edge - 1) :
        steps[n].exited \in Range(Tails(graph.edges[i])) =>
            Heads(graph.edges[i]) = <<>>

\* Every call returns, through cycles too and without a depth limit.
EveryChainEnds == <>(pc = "done")
============================================================================
