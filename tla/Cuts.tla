-------------------------------- MODULE Cuts --------------------------------
(***************************************************************************)
(* A substrate of traces that others add to and amend, and the readings     *)
(* made of it: each command, tool call or request loads all traces once and *)
(* articulates them one or more times (cmd_diff.go, cmd_gaps.go, the diff   *)
(* and gaps tools of mcp/tools.go, handleDiff of serve/handlers.go).        *)
(* A call of a cut-producing tool is itself recorded as a trace.            *)
(***************************************************************************)
EXTENDS Tools

CONSTANTS
    Trace,        \* the traces that may be recorded
    CutOptions,   \* the cuts a reader may ask for
    MaxTraces,    \* bound: traces others store
    MaxCalls,     \* bound: recorded calls of tools
    Now, FreshID  \* the time and the first ID of those calls

\* Every command, tool and request refuses a cut without an observer or with
\* an inverted window before it loads anything.  The elements of a trace are
\* slices; only recordInvocation sets the tag of a call.
ASSUME CutsAssumption ==
    /\ MaxTraces \in Nat /\ MaxCalls \in Nat /\ Now \in Nat \ {0}
    /\ \A t \in Trace :
          /\ t.timestamp \in Nat \ {0} /\ t.id < FreshID
          /\ t.source \in Seq(Range(t.source)) /\ t.target \in Seq(Range(t.target))
          /\ "mcp-invocation" \notin t.tags
    /\ \A o \in CutOptions :
          /\ o.observers # {}
          /\ o.start \in Nat /\ o.end \in Nat /\ (o.end # 0 => o.start =< o.end)

VARIABLES
    traces,       \* the substrate, in the order it is loaded
    report        \* the last comparison: two graphs and what was made of them,
                  \* or the last answer of a tool

vars == <<traces, report>>

NoReport == [made |-> FALSE]

Init == traces = <<>> /\ report = NoReport

IsCall(t) == "mcp-invocation" \in t.tags

Calls(ts) == Cardinality({ k \in DOMAIN ts : IsCall(ts[k]) })

\* Somebody stores a trace, under a new ID or under one the substrate holds.
Store(t) ==
    /\ \A k \in DOMAIN traces : traces[k] # t
    /\ \E s \in StoredInto(traces, t) : Len(s) - Calls(s) =< MaxTraces /\ traces' = s
    /\ report' = NoReport

\* Two cuts of the same load are compared.
Compare(oA, oB) ==
    /\ report = NoReport
    /\ LET gA == Articulate(traces, oA)
           gB == Articulate(traces, oB)
           gap == AnalyseGaps(gA, gB)
       IN  report' = [made |-> TRUE, a |-> gA, b |-> gB, diff |-> Diff(gA, gB),
                      gap |-> gap, suggestions |-> SuggestRearticulations(gap)]
    /\ UNCHANGED traces

\* As if the call were a relation of its observer's.
recordInvocation_Mutant(who) ==
    [id |-> FreshID + Calls(traces), timestamp |-> Now, observer |-> who, tags |-> {"mcp-invocation"},
     source |-> <<who>>, target |-> <<>>, mediation |-> ""]

\* The trace of a call: it names no elements.  The tag with the tool's name is
\* left out; a number no trace has stands for the new UUID.
recordInvocation(who) ==
    [id |-> FreshID + Calls(traces), timestamp |-> Now, observer |-> who, tags |-> {"mcp-invocation"},
     source |-> <<>>, target |-> <<>>, mediation |-> ""]

\* A cut-producing tool answers, and the call is stored unless that fails.
CallTool(tool, o, oB) ==
    /\ report = NoReport
    /\ Calls(traces) < MaxCalls
    /\ report' = [made |-> FALSE, answer |-> CutAnswer(tool, traces, o, oB)]
    /\ \E who \in o.observers :
          traces' \in {traces} \cup StoredInto(traces, recordInvocation(who))

Validate(tags) ==
    /\ report = NoReport
    /\ report' = [made |-> FALSE, answer |-> meshant_validate(traces, tags)]
    /\ UNCHANGED traces

\* What was read is put aside; the next reading loads anew.
Done ==
    /\ report # NoReport
    /\ report' = NoReport
    /\ UNCHANGED traces

\* The cuts a tool can be asked for.
ToolCuts == { o \in CutOptions : Cardinality(o.observers) = 1 }

Next ==
    \/ \E tool \in CutTools, o \in ToolCuts :
          \E oB \in IF tool \in TwoSided THEN ToolCuts ELSE {o} : CallTool(tool, o, oB)
    \/ Done
    \/ \E o \in ToolCuts : Validate(o.tags)
    \/ \E t \in Trace : Store(t)
    \/ \E oA, oB \in CutOptions : Compare(oA, oB)

Spec == Init /\ [][Next]_vars

----------------------------------------------------------------------------
(* Properties.                                                              *)

Elements == UNION { Mentioned(traces[k]) : k \in DOMAIN traces }

\* Every element of the substrate is in the graph or in its shadow, never in
\* both: a cut names all it cannot see ("Shadow is mandatory output", Cut).
NothingIsLost ==
    report.made =>
        \A g \in {report.a, report.b} :
            /\ Names(g) \cup DOMAIN g.shadow = Elements
            /\ Names(g) \cap DOMAIN g.shadow = {}

\* The cut o without the filters named in R, and with no others.
Without(o, R) ==
    [observers |-> IF "observer" \in R THEN {} ELSE o.observers,
     start     |-> IF "time-window" \in R THEN 0 ELSE o.start,
     end       |-> IF "time-window" \in R THEN 0 ELSE o.end,
     tags      |-> IF "tag-filter" \in R THEN {} ELSE o.tags]

AllReasons == {"observer", "tag-filter", "time-window"}

\* The reasons of a shadow element are exactly what keeps it there: it shows
\* in the cut without those filters, and is hidden by those filters alone
\* (buildShadowData, "accumulated across all excluding traces").
ReasonsExplainShadow ==
    report.made =>
        \A g \in {report.a, report.b} : \A e \in DOMAIN g.shadow :
            LET R == g.shadow[e].reasons IN
            /\ e \in Visible(traces, Without(g.cut, R))
            /\ e \notin Visible(traces, Without(g.cut, AllReasons \ R))

\* A cut accounts for what it leaves out: all of it, each element with the reasons
\* that keep it there.
ShadowAccountsForAll == NothingIsLost /\ ReasonsExplainShadow

\* A diff leads from A to B: applied to the nodes and edges of A it gives those
\* of B; what it adds emerged from A's shadow and what it removes went into
\* B's, and it says so; the gap between the two cuts is the same story.
DiffLeadsFromAToB ==
    report.made =>
        LET d == report.diff
            Shifted(kind) == { e \in DOMAIN d.shifts : d.shifts[e] = kind }
        IN  /\ Names(report.b) = (Names(report.a) \ d.removed) \cup d.added
            /\ EdgesOf(report.b) = (EdgesOf(report.a) \ d.edgesRemoved) \cup d.edgesAdded
            /\ Shifted("emerged") = d.added
            /\ Shifted("submerged") = d.removed
            /\ \A e \in DOMAIN report.a.shadow \cap DOMAIN report.b.shadow :
                  e \in Shifted("reason-changed")
                    <=> report.a.shadow[e].reasons # report.b.shadow[e].reasons
            /\ report.gap.onlyInA = d.removed
            /\ report.gap.onlyInB = d.added

\* The filters of one side that hide what it misses and that the other side
\* either does not have or, for observers, must differ in.
Named(g, other, only) ==
    UNION { { CASE r = "observer" -> "observer-expansion"
                [] r = "time-window" -> "time-window-expansion"
                [] r = "tag-filter" -> "tag-relaxation"
              : r \in { f \in g.shadow[e].reasons :
                          \/ f = "observer"
                          \/ f = "time-window" /\ ~HasWindow(other)
                          \/ f = "tag-filter" /\ other.tags = {} } }
            : e \in DOMAIN g.shadow \cap only }

\* A side that misses an element behind a filter the other side does not have
\* is told to relax that very filter, though SuggestRearticulations sees the
\* gap only, neither the shadows nor the traces.
OneSidedFilterIsNamed ==
    /\ Named(report.a, report.b.cut, report.gap.onlyInB) \subseteq report.suggestions.A
    /\ Named(report.b, report.a.cut, report.gap.onlyInA) \subseteq report.suggestions.B

\* What IdentifyBottlenecks leaves out is mentioned once in the whole
\* substrate, seen or unseen, and mediates nothing the cut sees: an element
\* that two traces share is noted from every cut that shows it.
OmittedIsMentionedOnce(g) ==
    \A e \in Names(g) \ IdentifyBottlenecks(g) :
        /\ Appearances(traces, DOMAIN traces, e) = 1
        /\ \A k \in DOMAIN g.edges : g.edges[k].mediation = e => e = ""

\* From the position of an observer the shadow summary names, exactly so many of
\* the shadow's elements show as it says, if window and tags are dropped, too;
\* from the position of anybody else none would (SummariseShadow, over what
\* buildShadowData collected from the excluded traces).
SummaryCountsWhatLifts(g) ==
    LET seen == SummariseShadow(g).seenFromCounts
        Lifts(who) == DOMAIN g.shadow
                         \cap Visible(traces, [Without(g.cut, AllReasons) EXCEPT !.observers = {who}])
    IN  \A who \in { traces[k].observer : k \in DOMAIN traces } :
            IF who \in DOMAIN seen THEN seen[who] = Cardinality(Lifts(who)) ELSE Lifts(who) = {}

\* meshant_validate looks at the traces a cut with those tags and no other filter
\* includes, though it filters them itself ("consistent with graph.Articulate",
\* handleValidate).
ValidateReadsTheTagCut(o) ==
    meshant_validate(traces, o.tags).total
        = Cardinality(Included(traces, Without(o, {"observer", "time-window"})))

\* What is read out of one or two cuts is true of the substrate, though the
\* readings see graphs only (suggest.go, bottleneck.go, shadow.go).
ReadingsAreTrue ==
    report.made =>
        /\ OneSidedFilterIsNamed
        /\ OmittedIsMentionedOnce(report.a)
        /\ SummaryCountsWhatLifts(report.a)
        /\ ValidateReadsTheTagCut(report.a.cut)

\* The edges of a graph that are not calls.
Uncalled(g) == { e \in EdgesOf(g) : ~IsCall(e) }

\* A call that was recorded is an edge of later cuts and counts as a trace, but
\* changes nothing they say of elements: graphs and shadows, so everything that
\* compares them; only that a large part is in shadow may no longer be said,
\* for there are more traces, and a graph without edges has one to tell of.
CallChangesNoReading(before, after) ==
    LET told == DraftNarrative(before)
        retold == DraftNarrative(after)
    IN  /\ after.nodes = before.nodes /\ after.shadow = before.shadow
        /\ Uncalled(after) = Uncalled(before)
        /\ IdentifyBottlenecks(after) = IdentifyBottlenecks(before)
        /\ told.told =>
              /\ retold.told
              /\ retold.top = told.top /\ retold.mediations = told.mediations
              /\ retold.shadow = told.shadow /\ retold.reasons = told.reasons
              /\ retold.caveats \in {told.caveats, told.caveats \ {"large-shadow"}}

\* In every cut all nodes stay, no count falls, an element leaves the shadow only
\* by becoming a node, and stays with all the reasons it had.
NothingIsHidden(before, after) ==
    /\ \A e \in Names(before) :
          /\ e \in Names(after)
          /\ before.nodes[e].appearances =< after.nodes[e].appearances
          /\ before.nodes[e].shadows =< after.nodes[e].shadows
    /\ \A e \in DOMAIN before.shadow :
          \/ e \in Names(after)
          \/ /\ e \in DOMAIN after.shadow
             /\ before.shadow[e].reasons \subseteq after.shadow[e].reasons
    /\ before.excludedObservers \subseteq after.excludedObservers

\* Recording a trace hides nothing from any cut, and asking for a cut changes
\* none, although the question becomes a trace (Articulate reads each trace
\* against the cut alone; "invocation traces do not obscure the original network
\* structure", recordInvocation).
RecordingOnlyReveals ==
    [][Len(traces') > Len(traces) =>
        \A o \in CutOptions :
            LET before == Articulate(traces, o)
                after == Articulate(traces', o)
            IN  /\ NothingIsHidden(before, after)
                /\ Calls(traces') > Calls(traces) => CallChangesNoReading(before, after)]_traces
============================================================================
