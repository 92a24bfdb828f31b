-------------------------------- MODULE Drafts --------------------------------
(***************************************************************************)
(* What MeshAnt reads out of a list of drafts (meshant/loader and           *)
(* cmd_lineage.go): the chains of derivation, how one analyst's chain       *)
(* differs from another's, what one extracted and the other did not, and    *)
(* the traces drafts become.  No variables.                                 *)
(*                                                                          *)
(* A draft is a record of DraftFields.  IDs and instants are numbers, 0 for *)
(* none.  "what" stands for what_changed and mediation, which are strings,  *)
(* "source" for source, target and tags, which are lists; "doc", "note" and *)
(* "blank" are source_doc_ref, uncertainty_note and intentionally_blank.    *)
(***************************************************************************)
EXTENDS Functions, Subsequences

CONSTANT UUID       \* the IDs that are lower-case UUIDs

DraftFields ==
    {"id", "timestamp", "derivedFrom", "by", "span", "stage",
     "what", "source", "observer", "doc", "note", "blank"}

\* A record with these fields, whose IDs and instants are numbers; the span is
\* there, or the file is refused.
IsDraft(d) ==
    /\ d = [f \in DraftFields |-> d[f]]
    /\ d.id \in Nat /\ d.timestamp \in Nat /\ d.derivedFrom \in Nat
    /\ d.span # ""

Order(ds) == [k \in DOMAIN ds |-> k]

\* As if every load gave every draft a new ID.
LoadDrafts_Mutant(file, fresh) ==
    [k \in DOMAIN file |->
        [file[k] EXCEPT !.id = fresh + k,
                        !.timestamp = IF @ = 0 THEN fresh ELSE @]]

\* A draft without an ID gets a new one and a draft without a time the present
\* one, others in every load.
LoadDrafts(file, fresh) ==
    [k \in DOMAIN file |->
        [file[k] EXCEPT !.id = IF @ = 0 THEN fresh + k ELSE @,
                        !.timestamp = IF @ = 0 THEN fresh ELSE @]]

----------------------------------------------------------------------------
(* Derivation.                                                              *)

\* The draft a map from IDs holds under i: the last one with that ID, if any.
ByID(ds, i) == { k \in DOMAIN ds : /\ ds[k].id = i
                                   /\ \A j \in DOMAIN ds : j > k => ds[j].id # i }

Prior(ds, k) == IF ds[k].derivedFrom = 0 THEN {} ELSE ByID(ds, ds[k].derivedFrom)

Subsequent(ds, n) == Subsequence(Order(ds), { k \in DOMAIN ds : n \in Prior(ds, k) })

\* The drafts that start a chain: derived from nothing, or from what is not here.
Anchors(ds) == Subsequence(Order(ds), { k \in DOMAIN ds : Prior(ds, k) = {} })

\* An anchor and everything below it.
collectMembers(ds, n) ==
    LET Down[d \in 0..Len(ds)] ==
            IF d = 0 THEN {n}
            ELSE Down[d - 1] \cup { k \in DOMAIN ds : Prior(ds, k) \cap Down[d - 1] # {} }
    IN  Down[Len(ds)]

\* The first chain that has a draft with ID i.
filterLineageByID(ds, i) ==
    LET anchors == Anchors(ds)
        Holds(n) == \E k \in collectMembers(ds, anchors[n]) : ds[k].id = i
    IN  { anchors[n] : n \in { n \in DOMAIN anchors : Holds(n) /\ \A m \in 1..(n - 1) : ~Holds(m) } }

\* The ID of the first draft that is derived from the ID i, if any.
FirstChild(ds, i) ==
    { ds[k].id : k \in { k \in DOMAIN ds : /\ ds[k].derivedFrom = i
                                          /\ \A j \in 1..(k - 1) : ds[j].derivedFrom # i } }

Under(ds, ids) == Subsequence(Order(ds), UNION { ByID(ds, i) : i \in ids })

\* From child to first child, until there is none or the chain has its ID.
FollowDraftChain(ds, from) ==
    LET Seen(chain) == { ds[k].id : k \in Range(chain) }
        Walk[n \in 0..Len(ds)] ==
            IF n = 0 THEN Under(ds, {from})
            ELSE LET chain == Walk[n - 1] IN
                 IF chain = <<>> THEN <<>>
                 ELSE chain \o Under(ds, FirstChild(ds, ds[chain[Len(chain)]].id) \ Seen(chain))
    IN  Walk[Len(ds)]

\* Lists are compared in their order; doc, note and blank are not looked at.
draftContentChanged(p, d) == p.what # d.what \/ p.source # d.source \/ p.observer # d.observer

draftStageChanged(p, d) == d.stage # "" /\ d.stage # p.stage

classifyDraftStep(p, d) ==
    CASE draftContentChanged(p, d) /\ draftStageChanged(p, d) -> "translation"
      [] draftContentChanged(p, d) /\ ~draftStageChanged(p, d) -> "mediator"
      [] ~draftContentChanged(p, d) /\ draftStageChanged(p, d) -> "endorsement"
      [] OTHER -> "intermediary"

\* One kind per step of a chain of positions of ds.
ClassifyDraftChain(ds, chain) ==
    [n \in 1..(Len(chain) - 1) |-> classifyDraftStep(ds[chain[n]], ds[chain[n + 1]])]

\* An endorsement is a kind of mediator.
Kind(c) == IF c = "endorsement" THEN "mediator" ELSE c

CompareChainClassifications(cA, cB) ==
    { n \in DOMAIN cA \cap DOMAIN cB : Kind(cA[n]) # Kind(cB[n]) }

----------------------------------------------------------------------------
(* Analysts.                                                                *)

Analysts(ds) == { ds[k].by : k \in DOMAIN ds }

GroupByAnalyst(ds, a) == Subsequence(ds, { k \in DOMAIN ds : ds[k].by = a })

OfSpan(ds, span) == Subsequence(ds, { k \in DOMAIN ds : ds[k].span = span })

\* As if a draft derived from outside its own span did not start a chain.
Roots_Mutant(mine) ==
    Subsequence(Order(mine), { k \in DOMAIN mine : mine[k].derivedFrom = 0 })

\* The drafts of a span that are derived from none of that span.
Roots(mine) ==
    LET Starts(k) == \/ mine[k].derivedFrom = 0
                     \/ \A j \in DOMAIN mine : mine[j].id # mine[k].derivedFrom
    IN  Subsequence(Order(mine), { k \in DOMAIN mine : Starts(k) })

\* One analyst's chain for a span, refused unless it has exactly one root.
buildChain(ds, a, span) ==
    LET mine == OfSpan(GroupByAnalyst(ds, a), span)
        roots == Roots(mine)
    IN  IF Len(roots) # 1 THEN [refused |-> TRUE, mine |-> mine, chain |-> <<>>]
        ELSE [refused |-> FALSE, mine |-> mine,
              chain |-> FollowDraftChain(mine, mine[roots[1]].id)]

Spans(ds) == { ds[k].span : k \in DOMAIN ds }

\* A list without its order.
AsBag(s) == [x \in Range(s) |-> Cardinality({ n \in DOMAIN s : s[n] = x })]

\* The fields two drafts of a span disagree in; lists are compared as bags.
Disagreements(d, e) ==
    { f \in {"what", "observer", "doc", "note"} : d[f] # e[f] }
        \cup { f \in {"source", "blank"} : AsBag(d[f]) # AsBag(e[f]) }

compareSpan(ofA, ofB) ==
    IF Len(ofA) # 1 \/ Len(ofB) # 1 THEN {"(multiple-drafts)"}
    ELSE Disagreements(ofA[1], ofB[1])

CompareExtractions(setA, setB) ==
    [onlyInA |-> Spans(setA) \ Spans(setB),
     onlyInB |-> Spans(setB) \ Spans(setA),
     inBoth  |-> [s \in Spans(setA) \cap Spans(setB) |->
                    compareSpan(OfSpan(setA, s), OfSpan(setB, s))]]

----------------------------------------------------------------------------
(* Promotion.                                                               *)

IsPromotable(d) == d.id \in UUID /\ d.what # "" /\ d.observer # ""

\* The tag that says so is not modelled.
Promote(d) == [id |-> d.id, timestamp |-> d.timestamp, what |-> d.what,
               source |-> d.source, observer |-> d.observer]
============================================================================
