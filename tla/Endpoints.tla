------------------------------ MODULE Endpoints ------------------------------
(***************************************************************************)
(* What the HTTP server answers (serve/handlers.go): each handler loads all *)
(* traces once and computes an envelope, the data and the cut they were     *)
(* read from.  No variables.                                                *)
(*                                                                          *)
(* A query is a record [observer, start, end, tags]; "" stands for a        *)
(* parameter that is missing, 0 for a bound that is missing.                *)
(***************************************************************************)
EXTENDS MeshGraph

CONSTANT Second     \* how many instants a second has

ASSUME SecondAssumption == Second \in Nat \ {0}

\* A request answered with 400, before anything is loaded.
Refused(q) ==
    \/ q.observer = ""
    \/ q.start # 0 /\ q.end # 0 /\ q.end < q.start

Options(q) ==
    [observers |-> {q.observer}, start |-> q.start, end |-> q.end, tags |-> q.tags]

\* A bound as RFC 3339 prints it, to the whole second; null if there is none.
Printed(bound) == IF bound = 0 THEN {} ELSE {bound - (bound % Second)}

CutMetaFromGraph(g) ==
    [observer    |-> IF g.cut.observers = {} THEN ""
                     ELSE CHOOSE p \in g.cut.observers : TRUE,
     from        |-> Printed(g.cut.start),
     to          |-> Printed(g.cut.end),
     tags        |-> g.cut.tags,
     traceCount  |-> g.included,
     shadowCount |-> Cardinality(DOMAIN g.shadow)]

Envelope(cut, data) == [cut |-> cut, data |-> data]

\* The endpoints that read a graph.

handleArticulate(ts, q) ==
    LET g == Articulate(ts, Options(q)) IN Envelope(CutMetaFromGraph(g), g)

handleShadow(ts, q) ==
    LET g == Articulate(ts, Options(q)) IN Envelope(CutMetaFromGraph(g), g.shadow)

\* Both sides share the window and the tags; the envelope names side A.
handleDiff(ts, q, observerB) ==
    LET gA == Articulate(ts, Options(q))
        gB == Articulate(ts, Options([q EXCEPT !.observer = observerB]))
    IN  Envelope(CutMetaFromGraph(gA), Diff(gA, gB))

\* The endpoints that read traces.  They have a filter of their own.

\* As if every tag asked for had to be there, as in QueryOpts.
filterTraces_Mutant(ts, q) ==
    Subsequence(ts, { k \in DOMAIN ts :
        /\ ts[k].observer = q.observer
        /\ q.start # 0 => ts[k].timestamp >= q.start
        /\ q.end # 0 => ts[k].timestamp =< q.end
        /\ q.tags \subseteq ts[k].tags })

filterTraces(ts, q) ==
    Subsequence(ts, { k \in DOMAIN ts :
        /\ ts[k].observer = q.observer
        /\ q.start # 0 => ts[k].timestamp >= q.start
        /\ q.end # 0 => ts[k].timestamp =< q.end
        /\ q.tags # {} => ts[k].tags \cap q.tags # {} })

\* The second of the two loops is forgotten.
filterByElement_Mutant(ts, e) ==
    Subsequence(ts, { k \in DOMAIN ts : e \in Range(ts[k].source) })

filterByElement(ts, e) ==
    Subsequence(ts, { k \in DOMAIN ts : e \in Range(ts[k].source) \/ e \in Range(ts[k].target) })

\* Here the shadow is counted in traces, and those of the limit are counted
\* neither as seen nor as shadow.
TraceMeta(q, seen, hidden) ==
    [observer |-> q.observer, from |-> Printed(q.start), to |-> Printed(q.end),
     tags |-> q.tags, traceCount |-> seen, shadowCount |-> hidden]

handleTraces(ts, q, limit) ==
    LET filtered == filterTraces(ts, q)
        page == IF limit > 0 /\ Len(filtered) > limit THEN SubSeq(filtered, 1, limit)
                ELSE filtered
    IN  Envelope(TraceMeta(q, Len(page), Len(ts) - Len(filtered)), page)

handleElement(ts, q, name) ==
    LET filtered == filterTraces(ts, q)
        result == filterByElement(filtered, name)
    IN  Envelope(TraceMeta(q, Len(result), Len(ts) - Len(filtered)), result)

handleObservers(ts) == { ts[k].observer : k \in DOMAIN ts } \ {""}
============================================================================
