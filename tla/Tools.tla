-------------------------------- MODULE Tools --------------------------------
(***************************************************************************)
(* What the tools of the MCP server compute (mcp/tools.go), once their      *)
(* arguments are accepted: each loads all traces once and answers with an   *)
(* envelope that names the cut, of side A if there are two.  No variables.  *)
(* The analyst's name in the envelope is left out; meshant_follow is in     *)
(* TranslationChain.                                                        *)
(***************************************************************************)
EXTENDS Endpoints

\* The elements that may be among the three that appear most: of those that
\* appear equally often, which are left out is up to their names.
Top(g) ==
    { e \in Names(g) :
        Cardinality({ f \in Names(g) : g.nodes[f].appearances > g.nodes[e].appearances }) < 3 }

\* The paragraphs of a narrative, by what they are made of; none for a graph
\* without edges.
DraftNarrative(g) ==
    IF g.edges = <<>> THEN [told |-> FALSE]
    ELSE LET hidden == Cardinality(DOMAIN g.shadow)
             mediators == { g.edges[k].mediation : k \in DOMAIN g.edges } \ {""}
         IN  [told       |-> TRUE,
              included   |-> g.included,
              top        |-> Top(g),
              mediations |-> mediators,
              shadow     |-> hidden,
              reasons    |-> UNION { g.shadow[e].reasons : e \in DOMAIN g.shadow },
              caveats    |-> { c \in {"large-shadow", "time-window", "tags"} :
                                 \/ c = "large-shadow" /\ 2 * hidden > g.total
                                 \/ c = "time-window" /\ HasWindow(g.cut)
                                 \/ c = "tags" /\ g.cut.tags # {} }]

meshant_articulate(ts, o) ==
    LET g == Articulate(ts, o) IN Envelope(CutMetaFromGraph(g), g)

meshant_shadow(ts, o) ==
    LET g == Articulate(ts, o) IN Envelope(CutMetaFromGraph(g), SummariseShadow(g))

meshant_bottleneck(ts, o) ==
    LET g == Articulate(ts, o) IN Envelope(CutMetaFromGraph(g), IdentifyBottlenecks(g))

meshant_summarize(ts, o) ==
    LET g == Articulate(ts, o) IN Envelope(CutMetaFromGraph(g), DraftNarrative(g))

meshant_diff(ts, oA, oB) ==
    LET gA == Articulate(ts, oA) IN Envelope(CutMetaFromGraph(gA), Diff(gA, Articulate(ts, oB)))

\* Suggestions if they are asked for.
meshant_gaps(ts, oA, oB, suggest) ==
    LET gA == Articulate(ts, oA)
        gap == AnalyseGaps(gA, Articulate(ts, oB))
    IN  Envelope(CutMetaFromGraph(gA),
                 [gap |-> gap,
                  suggestions |-> IF suggest THEN {SuggestRearticulations(gap)} ELSE {}])

\* What a cut-producing tool answers for the cut o, and oB as side B.
CutTools == {"articulate", "shadow", "bottleneck", "summarize", "diff", "gaps", "suggestions"}

TwoSided == {"diff", "gaps", "suggestions"}

CutAnswer(tool, ts, o, oB) ==
    CASE tool = "articulate"  -> meshant_articulate(ts, o)
      [] tool = "shadow"      -> meshant_shadow(ts, o)
      [] tool = "bottleneck"  -> meshant_bottleneck(ts, o)
      [] tool = "summarize"   -> meshant_summarize(ts, o)
      [] tool = "diff"        -> meshant_diff(ts, o, oB)
      [] tool = "gaps"        -> meshant_gaps(ts, o, oB, FALSE)
      [] tool = "suggestions" -> meshant_gaps(ts, o, oB, TRUE)

\* meshant_validate takes no position and names none.  What it counts is valid,
\* for a store with an invalid trace cannot be read.
filterByTagsOR(ts, tags) ==
    Subsequence(ts, { k \in DOMAIN ts : tags = {} \/ ts[k].tags \cap tags # {} })

meshant_validate(ts, tags) ==
    LET kept == filterByTagsOR(ts, tags) IN [total |-> Len(kept), valid |-> Len(kept), invalid |-> 0]
============================================================================
