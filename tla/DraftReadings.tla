---------------------------- MODULE DraftReadings ----------------------------
(***************************************************************************)
(* The commands that read a file of drafts: lineage, whose search for       *)
(* cycles (buildLineage, cmd_lineage.go) is taken call by call, chain-diff, *)
(* extraction-gap, and promote followed by store.                           *)
(***************************************************************************)
EXTENDS Drafts

CONSTANTS
    DraftFile,      \* the files there may be: hand-made or written by a session
    MaxPromotions   \* bound: times the file is promoted

ASSUME DraftReadingsAssumption ==
    /\ MaxPromotions \in Nat
    /\ \A f \in DraftFile : f \in Seq(Range(f)) /\ \A k \in DOMAIN f : IsDraft(f[k])

VARIABLES
    file,           \* the drafts as they are in the file
    scan,           \* the search for cycles
    report,         \* what the last comparison said
    mesh,           \* the traces stored so far, by ID
    promotions      \* how often the file was promoted

readingVars == <<file, scan, report, mesh, promotions>>

(* The search.  A frame is one call of detectCycleDFS: its draft, the       *)
(* subsequent drafts it still has to call, and whether it looked up already.*)

NoSearch == [status |-> "idle", roots |-> <<>>, rest |-> <<>>, stack |-> <<>>,
         visited |-> {}, inPath |-> {}, culprit |-> 0]

NoReport == [of |-> "nothing"]

InitReadings ==
    /\ file \in DraftFile
    /\ scan = NoSearch /\ report = NoReport /\ mesh = {} /\ promotions = 0

\* The n-th load of a promotion: its IDs and its time are above those of any file.
Fresh(n) == 1000 * (n + 1)

loaded == LoadDrafts(file, Fresh(0))

ID(k) == loaded[k].id

\* What detectCycleDFS does when it is called for k, s being the search so far.
Call(s, k) ==
    IF ID(k) \in s.inPath THEN [s EXCEPT !.status = "cycle", !.culprit = k]
    ELSE IF ID(k) \in s.visited THEN s
    ELSE [s EXCEPT !.visited = @ \cup {ID(k)},
                   !.inPath = @ \cup {ID(k)},
                   !.stack = Append(@, [draft |-> k, left |-> Subsequent(loaded, k),
                                        up |-> FALSE])]

Scans(s) == scan' = s /\ UNCHANGED <<file, report, mesh, promotions>>

Walking == scan.status = "walking"

Top == scan.stack[Len(scan.stack)]

InTop(s, frame) == [s EXCEPT !.stack[Len(s.stack)] = frame]

StartLineage ==
    /\ scan.status = "idle"
    /\ report' = NoReport /\ UNCHANGED <<file, mesh, promotions>>
    /\ scan' = [NoSearch EXCEPT !.status = "walking", !.roots = Anchors(loaded),
                            !.rest = Order(loaded)]

\* The next anchor, each with a path of its own.
FromAnchor ==
    /\ Walking /\ scan.stack = <<>> /\ scan.roots # <<>>
    /\ Scans(Call([scan EXCEPT !.roots = Tail(@), !.inPath = {}], scan.roots[1]))

\* After the anchors, the next draft nothing led to.
FromUnvisited ==
    /\ Walking /\ scan.stack = <<>> /\ scan.roots = <<>> /\ scan.rest # <<>>
    /\ Scans(Call([scan EXCEPT !.rest = Tail(@), !.inPath = {}], scan.rest[1]))

\* The drafts nothing led to are not looked at.
Finish_Mutant ==
    /\ Walking /\ scan.stack = <<>> /\ scan.roots = <<>>
    /\ Scans([scan EXCEPT !.status = "done"])

Finish ==
    /\ Walking /\ scan.stack = <<>> /\ scan.roots = <<>> /\ scan.rest = <<>>
    /\ Scans([scan EXCEPT !.status = "done"])

Descend ==
    /\ Walking /\ scan.stack # <<>> /\ Top.left # <<>>
    /\ Scans(Call(InTop(scan, [Top EXCEPT !.left = Tail(@)]), Top.left[1]))

\* Does not return when there is no prior to look at.
Climb_Mutant ==
    LET unseen == { p \in Prior(loaded, Top.draft) : ID(p) \notin scan.visited }
    IN  /\ Walking /\ scan.stack # <<>> /\ Top.left = <<>> /\ ~Top.up
        /\ \E p \in unseen : Scans(Call(InTop(scan, [Top EXCEPT !.up = TRUE]), p))

\* The prior of a draft, if nothing led to it yet.
Climb ==
    LET unseen == { p \in Prior(loaded, Top.draft) : ID(p) \notin scan.visited }
        climbed == InTop(scan, [Top EXCEPT !.up = TRUE])
    IN  /\ Walking /\ scan.stack # <<>> /\ Top.left = <<>> /\ ~Top.up
        /\ IF unseen = {} THEN Scans(climbed)
           ELSE \E p \in unseen : Scans(Call(climbed, p))

Leave ==
    /\ Walking /\ scan.stack # <<>> /\ Top.left = <<>> /\ Top.up
    /\ Scans([scan EXCEPT !.inPath = @ \ {ID(Top.draft)},
                          !.stack = SubSeq(@, 1, Len(@) - 1)])

Search == FromAnchor \/ FromUnvisited \/ Finish \/ Descend \/ Climb \/ Leave

----------------------------------------------------------------------------
(* The commands that do their work at once.                                 *)

ChainDiff(a, b, span) ==
    /\ ~Walking
    /\ {a, b} \subseteq Analysts(loaded)
    /\ LET A == buildChain(loaded, a, span)
           B == buildChain(loaded, b, span)
       IN  /\ ~A.refused /\ ~B.refused
           /\ report' = [of |-> "chain-diff", a |-> A, b |-> B,
                         kindsA |-> ClassifyDraftChain(A.mine, A.chain),
                         kindsB |-> ClassifyDraftChain(B.mine, B.chain),
                         diffs |-> CompareChainClassifications(
                                      ClassifyDraftChain(A.mine, A.chain),
                                      ClassifyDraftChain(B.mine, B.chain))]
    /\ UNCHANGED <<file, scan, mesh, promotions>>

ExtractionGap(a, b) ==
    /\ ~Walking
    /\ {a, b} \subseteq Analysts(loaded)
    /\ LET setA == GroupByAnalyst(loaded, a)
           setB == GroupByAnalyst(loaded, b)
       IN  report' = [of |-> "gap", setA |-> setA, setB |-> setB,
                      gap |-> CompareExtractions(setA, setB)]
    /\ UNCHANGED <<file, scan, mesh, promotions>>

\* promote writes the traces to a file, and store puts them into the mesh: of
\* two with one ID, there or here, the later one stays.
PromoteAndStore ==
    LET again == LoadDrafts(file, Fresh(promotions + 1))
        kept == { k \in DOMAIN again : IsPromotable(again[k]) }
        last == { k \in kept : \A j \in kept : j > k => again[j].id # again[k].id }
    IN  /\ ~Walking
        /\ promotions < MaxPromotions
        /\ promotions' = promotions + 1
        /\ mesh' = { t \in mesh : \A k \in kept : again[k].id # t.id }
                      \cup { Promote(again[k]) : k \in last }
        /\ report' = NoReport
        /\ UNCHANGED <<file, scan>>

NextReading ==
    \/ StartLineage
    \/ Search
    \/ \E a, b \in Analysts(loaded) :
          /\ a # b /\ "" \notin {a, b}
          /\ \/ ExtractionGap(a, b)
             \/ \E span \in Spans(loaded) : ChainDiff(a, b, span)
    \/ PromoteAndStore

\* A command that runs goes on.
ReadingsSpec == InitReadings /\ [][NextReading]_readingVars /\ WF_readingVars(Search)

----------------------------------------------------------------------------
(* Properties.                                                              *)

UniqueIDs == \A j, k \in DOMAIN loaded : ID(j) = ID(k) => j = k

\* The IDs that a draft is derived from, directly or not.
Ancestors(k) ==
    LET Named(ids) == { loaded[j].derivedFrom : j \in { j \in DOMAIN loaded : ID(j) \in ids } } \ {0}
        Up[n \in 0..Len(loaded)] ==
            IF n = 0 THEN {loaded[k].derivedFrom} \ {0} ELSE Up[n - 1] \cup Named(Up[n - 1])
    IN  Up[Len(loaded)]

Circular(k) == ID(k) \in Ancestors(k)

Cyclic == \E k \in DOMAIN loaded : Circular(k)

\* If IDs are unique, an error means that derivation goes round in a circle and
\* no error that it does not, each draft is then in one of the chains and in one
\* only, and --id finds it there.  With a repeated ID a circle may be overlooked,
\* or reported where there is none, but no draft is in two chains (buildLineage,
\* which has to look at drafts no chain leads to, and meets a draft by two kinds
\* of links).
LineageFindsCycles ==
    /\ scan.status = "cycle" /\ UniqueIDs => Cyclic
    /\ scan.status = "done" =>
          \A k \in DOMAIN loaded :
              LET chains == { r \in Range(Anchors(loaded)) : k \in collectMembers(loaded, r) }
              IN  /\ Cardinality(chains) =< 1
                  /\ UniqueIDs => /\ ~Circular(k)
                                  /\ Cardinality(chains) = 1
                                  /\ filterLineageByID(loaded, ID(k)) = chains

\* A chain visits no draft twice and goes from each draft to one derived from
\* it; where lineage finds no fault and no draft of the span has two derived
\* from it, nothing of the span is left out (FollowDraftChain takes the first
\* child and says nothing of the others, buildChain sees one span of one
\* analyst).
ChainIsWhole(side) ==
    LET mine == side.mine
        chain == side.chain
        forked == \E j, k \in DOMAIN mine : /\ j # k /\ mine[j].derivedFrom # 0
                                           /\ mine[j].derivedFrom = mine[k].derivedFrom
    IN  /\ \A m, n \in DOMAIN chain : chain[m] = chain[n] => m = n
        /\ UniqueIDs => \A n \in 2..Len(chain) :
                           mine[chain[n]].derivedFrom = mine[chain[n - 1]].id
        /\ UniqueIDs /\ ~Cyclic /\ ~forked => Range(chain) = DOMAIN mine

\* What the two analysts' comparisons say holds: chains are whole, they differ
\* only where both have a step, the gap is the same seen from the other side and
\* names every span once, and where it compares two drafts it and a chain that had
\* the one derived from the other would disagree about content in one case only:
\* a list in another order, which the chain calls a change and the gap does not
\* (compareSpan, draftContentChanged).
ComparisonsHold ==
    /\ report.of = "chain-diff" =>
          /\ ChainIsWhole(report.a) /\ ChainIsWhole(report.b)
          /\ \A n \in report.diffs : n < Len(report.a.chain) /\ n < Len(report.b.chain)
    /\ report.of = "gap" =>
          LET gap == report.gap
              back == CompareExtractions(report.setB, report.setA)
          IN  /\ back = [onlyInA |-> gap.onlyInB, onlyInB |-> gap.onlyInA, inBoth |-> gap.inBoth]
              /\ gap.onlyInA \cup gap.onlyInB \cup DOMAIN gap.inBoth
                    = Spans(report.setA) \cup Spans(report.setB)
              /\ gap.onlyInA \cap gap.onlyInB = {}
              /\ \A j \in DOMAIN report.setA, k \in DOMAIN report.setB :
                    LET p == report.setA[j]
                        d == report.setB[k]
                        fields == gap.inBoth[p.span]
                    IN  p.span = d.span /\ fields # {"(multiple-drafts)"} =>
                            (draftContentChanged(p, d) <=>
                                \/ fields \cap {"what", "source", "observer"} # {}
                                \/ AsBag(p.source) = AsBag(d.source) /\ p.source # d.source)

MeshIDs(m) == { t.id : t \in m }

FileHas(field) == \A k \in DOMAIN file : file[k][field] # 0

\* Promoting and storing a file again adds no trace if each of its drafts has an
\* ID, and changes none if each has a time, too: what has none becomes another
\* trace every time (LoadDrafts assigns both, promote does not write them back).
PromotingAgainAddsNothing ==
    [][promotions > 0 /\ FileHas("id") =>
          /\ MeshIDs(mesh') = MeshIDs(mesh)
          /\ FileHas("timestamp") => mesh' = mesh]_mesh

\* The search for cycles ends on any file, also one whose links are circular
\* (detectCycleDFS calls itself along links in both directions).
LineageEnds == Walking ~> scan.status \in {"done", "cycle"}
============================================================================
