----------------------------- MODULE MeshGraph -----------------------------
(***************************************************************************)
(* The readings MeshAnt makes of a list of traces (meshant/graph): the      *)
(* graph one observer position articulates with the shadow it cannot see,   *)
(* and what compares or summarises such graphs.  No variables.              *)
(*                                                                          *)
(* A trace is a record [id, timestamp, observer, tags, source, target,      *)
(* mediation]; source and target are sequences of element names, tags is a  *)
(* set, "" stands for no mediation.  A cut is a record [observers, start,   *)
(* end, tags]; an empty set or 0 stands for no filter.                      *)
(***************************************************************************)
EXTENDS Integers, Sequences, FiniteSets, Functions, Subsequences

(* One trace against one cut.                                               *)

PassesObserver(t, o) == o.observers = {} \/ t.observer \in o.observers

PassesTime(t, o) ==
    /\ o.start # 0 => t.timestamp >= o.start
    /\ o.end # 0 => t.timestamp =< o.end

PassesTags(t, o) == o.tags = {} \/ t.tags \cap o.tags # {}

\* The filters a trace fails: what would be written down as the reasons of
\* its exclusion.
Failed(t, o) ==
    (IF PassesObserver(t, o) THEN {} ELSE {"observer"})
        \cup (IF PassesTags(t, o) THEN {} ELSE {"tag-filter"})
        \cup (IF PassesTime(t, o) THEN {} ELSE {"time-window"})

Mentioned(t) == Range(t.source) \cup Range(t.target)

----------------------------------------------------------------------------
(* Articulate.                                                              *)

Included(ts, o) == { k \in DOMAIN ts : Failed(ts[k], o) = {} }

Excluded(ts, o) == { k \in DOMAIN ts : Failed(ts[k], o) # {} }

\* Every place of e in a source or a target counts.
Appearances(ts, K, e) ==
    LET Places(t) == { j \in 1..Len(t.source \o t.target) :
                          (t.source \o t.target)[j] = e }
    IN  Cardinality(UNION { {k} \X Places(ts[k]) : k \in K })

Visible(ts, o) == UNION { Mentioned(ts[k]) : k \in Included(ts, o) }

\* The excluded traces that mention e, once each.
ShadowTraces(ts, o, e) == { k \in Excluded(ts, o) : e \in Mentioned(ts[k]) }

buildNodes(ts, o) ==
    [e \in Visible(ts, o) |->
        [appearances |-> Appearances(ts, Included(ts, o), e),
         shadows     |-> Cardinality(ShadowTraces(ts, o, e))]]

\* Each excluded trace overwrites the reasons of the one before.
buildShadow_MutantLast(ts, o) ==
    [e \in (UNION { Mentioned(ts[k]) : k \in Excluded(ts, o) }) \ Visible(ts, o) |->
        [seenFrom |-> { ts[k].observer : k \in ShadowTraces(ts, o, e) },
         reasons  |-> Failed(ts[CHOOSE k \in ShadowTraces(ts, o, e) :
                                  \A j \in ShadowTraces(ts, o, e) : j =< k], o)]]

\* What only excluded traces mention, with who mentions it and every reason
\* one of those traces was excluded for.
buildShadow(ts, o) ==
    [e \in (UNION { Mentioned(ts[k]) : k \in Excluded(ts, o) }) \ Visible(ts, o) |->
        [seenFrom |-> { ts[k].observer : k \in ShadowTraces(ts, o, e) },
         reasons  |-> UNION { Failed(ts[k], o) : k \in ShadowTraces(ts, o, e) }]]

\* One edge per included trace, in the order of the list.
buildEdges(ts, o) == Subsequence(ts, Included(ts, o))

Articulate(ts, o) ==
    [nodes    |-> buildNodes(ts, o),
     edges    |-> buildEdges(ts, o),
     shadow   |-> buildShadow(ts, o),
     cut      |-> o,
     included |-> Cardinality(Included(ts, o)),
     total    |-> Len(ts),
     excludedObservers |->
        IF o.observers = {} THEN {}
        ELSE { ts[k].observer : k \in DOMAIN ts } \ o.observers]

Names(g) == DOMAIN g.nodes

----------------------------------------------------------------------------
(* The list itself.                                                         *)

\* What the list may be once t is stored: t takes the place of the trace with
\* its ID, if there is one, and the list is in order of time, traces of one
\* instant in any order.
StoredInto(ts, t) ==
    LET kept == { k \in DOMAIN ts : ts[k].id # t.id }
        after == { ts[k] : k \in kept } \cup {t}
    IN  { s \in [1..Cardinality(kept) + 1 -> after] :
            /\ Range(s) = after
            /\ \A j, k \in DOMAIN s : j < k => s[j].timestamp =< s[k].timestamp }

----------------------------------------------------------------------------
(* Diff, AnalyseGaps, SuggestRearticulations.                               *)

EdgesOf(g) == Range(g.edges)

TraceIDs(g) == { e.id : e \in EdgesOf(g) }

\* What both shadows hold is reported whether its reasons changed or not.
shadowShifts_Mutant(g1, g2) ==
    [e \in (DOMAIN g1.shadow \cup DOMAIN g2.shadow) |->
        IF e \in DOMAIN g1.shadow /\ e \in Names(g2) THEN "emerged"
        ELSE IF e \in Names(g1) /\ e \in DOMAIN g2.shadow THEN "submerged"
        ELSE "reason-changed"]

\* An element that was in neither shadow has not crossed the boundary.
shadowShifts(g1, g2) ==
    [e \in { n \in DOMAIN g1.shadow \cup DOMAIN g2.shadow :
                \/ n \in Names(g1) \cup Names(g2)
                \/ /\ n \in DOMAIN g1.shadow \cap DOMAIN g2.shadow
                   /\ g1.shadow[n].reasons # g2.shadow[n].reasons } |->
        IF e \in DOMAIN g1.shadow /\ e \in Names(g2) THEN "emerged"
        ELSE IF e \in Names(g1) /\ e \in DOMAIN g2.shadow THEN "submerged"
        ELSE "reason-changed"]

Diff(g1, g2) ==
    [added     |-> Names(g2) \ Names(g1),
     removed   |-> Names(g1) \ Names(g2),
     persisted |-> [e \in Names(g1) \cap Names(g2) |->
                      <<g1.nodes[e].appearances, g2.nodes[e].appearances>>],
     edgesAdded   |-> { e \in EdgesOf(g2) : e.id \notin TraceIDs(g1) },
     edgesRemoved |-> { e \in EdgesOf(g1) : e.id \notin TraceIDs(g2) },
     shifts    |-> shadowShifts(g1, g2)]

AnalyseGaps(g1, g2) ==
    [onlyInA |-> Names(g1) \ Names(g2),
     onlyInB |-> Names(g2) \ Names(g1),
     inBoth  |-> Names(g1) \cap Names(g2),
     cutA    |-> g1.cut,
     cutB    |-> g2.cut]

HasWindow(o) == o.start # 0 \/ o.end # 0

\* What is suggested for one side, that lacks the elements "missing".
SuggestFor(cut, other, missing) ==
    IF missing = {} THEN {}
    ELSE { kind \in {"observer-expansion", "time-window-expansion", "tag-relaxation"} :
             \/ kind = "observer-expansion" /\ cut.observers # {}
             \/ /\ kind = "time-window-expansion"
                /\ HasWindow(cut) /\ ~HasWindow(other)
             \/ kind = "tag-relaxation" /\ cut.tags # {} /\ other.tags = {} }

SuggestRearticulations(gap) ==
    [A |-> SuggestFor(gap.cutA, gap.cutB, gap.onlyInB),
     B |-> SuggestFor(gap.cutB, gap.cutA, gap.onlyInA)]

----------------------------------------------------------------------------
(* SummariseShadow, IdentifyBottlenecks.                                    *)

SummariseShadow(g) ==
    LET Reasons == UNION { g.shadow[e].reasons : e \in DOMAIN g.shadow }
        Seers == UNION { g.shadow[e].seenFrom : e \in DOMAIN g.shadow }
    IN  [byReason |-> [r \in Reasons |->
                        Cardinality({ e \in DOMAIN g.shadow : r \in g.shadow[e].reasons })],
         seenFromCounts |-> [s \in Seers |->
                        Cardinality({ e \in DOMAIN g.shadow : s \in g.shadow[e].seenFrom })]]

\* An element may have the empty name, and then mediates nothing.
Mediations(g, e) ==
    Cardinality({ k \in DOMAIN g.edges : g.edges[k].mediation # "" /\ g.edges[k].mediation = e })

\* The shadow of an element overlooked.
IdentifyBottlenecks_Mutant(g) ==
    { e \in Names(g) : Mediations(g, e) > 0 \/ g.nodes[e].appearances >= 2 }

IdentifyBottlenecks(g) ==
    { e \in Names(g) : \/ Mediations(g, e) > 0
                       \/ g.nodes[e].appearances >= 2
                       \/ g.nodes[e].shadows > 0 }
============================================================================
