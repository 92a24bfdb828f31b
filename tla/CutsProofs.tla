----------------------------- MODULE CutsProofs -----------------------------
(***************************************************************************)
(* Proofs about Cuts, for every set of traces and of cuts and any number of *)
(* recorded calls.  The invariant is what storing keeps of the substrate;   *)
(* the rest follows from what Articulate and the readings compute.          *)
(***************************************************************************)
EXTENDS Cuts, SubsequencesProofs

\* The elements of a trace come in two slices.
Sound(t) == t.source \in Seq(Range(t.source)) /\ t.target \in Seq(Range(t.target))

\* A list of traces with an ID each.
Substrate(ts) ==
    /\ ts \in Seq(Range(ts))
    /\ \A k \in DOMAIN ts : Sound(ts[k])
    /\ \A j, k \in DOMAIN ts : ts[j].id = ts[k].id => j = k

\* The traces a list has once t is stored.
After(ts, t) == { ts[k] : k \in { j \in DOMAIN ts : ts[j].id # t.id } } \cup {t}

\* Storing a trace leaves one trace for each ID, and no trace twice.
LEMMA StoredOnce ==
    ASSUME NEW ts, Substrate(ts), NEW t, Sound(t), NEW s \in StoredInto(ts, t)
    PROVE  /\ Substrate(s) /\ Range(s) = After(ts, t)
           /\ Len(s) = Cardinality({ j \in DOMAIN ts : ts[j].id # t.id }) + 1
<1> DEFINE kept == { j \in DOMAIN ts : ts[j].id # t.id }
           held == { ts[k] : k \in kept }
           n == Cardinality(kept)
<1>1. IsFiniteSet(kept) /\ n \in Nat
  <2>1. kept \in SUBSET DOMAIN ts
    OBVIOUS
  <2> QED
    BY <2>1, Places, FS_CardinalityType DEF Substrate
<1>2. IsFiniteSet(held) /\ Cardinality(held) = n
  <2> DEFINE g == [k \in kept |-> ts[k]]
  <2>1. g \in Injection(kept, held)
    <3>1. g \in [kept -> held] /\ \A a, b \in kept : g[a] = g[b] => a = b
      BY DEF Substrate
    <3> QED
      BY <3>1, Fun_IsInj
  <2>2. g \in Surjection(kept, held)
    <3>1. g \in [kept -> held] /\ \A x \in held : \E k \in kept : g[k] = x
      OBVIOUS
    <3> QED
      BY <3>1, Fun_IsSurj
  <2>3. ExistsBijection(kept, held)
    BY <2>1, <2>2 DEF Bijection, ExistsBijection
  <2> HIDE DEF kept, held
  <2> QED
    BY <1>1, <2>3, FS_Bijection
<1>3. t \notin held
  OBVIOUS
<1>4. IsFiniteSet(After(ts, t)) /\ Cardinality(After(ts, t)) = n + 1
  <2> HIDE DEF held, n
  <2>1. After(ts, t) = held \cup {t}
    BY DEF After, held
  <2> QED
    BY <1>2, <1>3, <2>1, FS_AddElement
<1>5. s \in [1..(n + 1) -> After(ts, t)] /\ Range(s) = After(ts, t)
  BY DEF StoredInto, After
<1> HIDE DEF kept, held, n
<1>6. s \in Seq(Range(s)) /\ Len(s) = n + 1 /\ DOMAIN s = 1..(n + 1)
  BY <1>1, <1>5
<1>7. \A j, k \in DOMAIN s : s[j] = s[k] => j = k
  <2>1. IsFiniteSet(1..(n + 1)) /\ Cardinality(1..(n + 1)) = n + 1
    BY <1>1, FS_Interval
  <2>2. s \in Surjection(1..(n + 1), After(ts, t))
    BY <1>5, Fun_RangeProperties
  <2>3. s \in Injection(1..(n + 1), After(ts, t))
    BY <1>4, <2>1, <2>2, FS_Surjection
  <2> QED
    BY <1>6, <2>3, Fun_InjectionProperties
<1>8. \A x, y \in After(ts, t) : x.id = y.id => x = y
  BY DEF After, Substrate
<1>9. \A x \in After(ts, t) : Sound(x)
  BY DEF After, Substrate
<1>10. \A j \in DOMAIN s : s[j] \in After(ts, t)
  BY <1>5, <1>6
<1> QED
  BY <1>5, <1>6, <1>7, <1>8, <1>9, <1>10 DEF Substrate, kept, n

\* What has been read is what Articulate and the comparisons make of the
\* substrate as it is.
Made(ts, r, oA, oB) ==
    LET gA == Articulate(ts, oA)
        gB == Articulate(ts, oB)
    IN  /\ r.a = gA /\ r.b = gB /\ r.diff = Diff(gA, gB) /\ r.gap = AnalyseGaps(gA, gB)
        /\ r.suggestions = SuggestRearticulations(AnalyseGaps(gA, gB))

CInv ==
    /\ Substrate(traces)
    /\ report.made => \E oA, oB \in CutOptions : Made(traces, report, oA, oB)

\* The traces of calls have their elements in slices, too: empty ones.
LEMMA CallSound ==
    ASSUME NEW who
    PROVE  Sound(recordInvocation(who))
<1>1. recordInvocation(who).source = <<>> /\ recordInvocation(who).target = <<>>
  BY DEF recordInvocation
<1>2. <<>> \in Seq(Range(<<>>))
  OBVIOUS
<1> QED
  BY <1>1, <1>2 DEF Sound

\* Each step that changes the substrate stores one trace into it, of a call or not.
LEMMA Stores ==
    ASSUME [Next]_vars, traces' # traces
    PROVE  \E t : /\ Sound(t) /\ traces' \in StoredInto(traces, t)
                  /\ \/ ~IsCall(t)
                     \/ IsCall(t) /\ Mentioned(t) = {} /\ t.mediation = ""
                  /\ report' = NoReport \/ report'.made = FALSE
<1>1. ASSUME NEW t \in Trace, Store(t)
      PROVE  Sound(t) /\ traces' \in StoredInto(traces, t) /\ ~IsCall(t) /\ report' = NoReport
  BY <1>1, CutsAssumption DEF Store, Sound, IsCall
<1>2. ASSUME NEW tool, NEW o, NEW oB, CallTool(tool, o, oB)
      PROVE  \E who : /\ traces' \in StoredInto(traces, recordInvocation(who))
                      /\ report'.made = FALSE
  BY <1>2 DEF CallTool
<1>3. ASSUME NEW who
      PROVE  LET t == recordInvocation(who)
             IN  Sound(t) /\ IsCall(t) /\ Mentioned(t) = {} /\ t.mediation = ""
  <2>1. Range(<<>>) = {}
    BY DEF Range
  <2> QED
    BY <2>1, CallSound DEF recordInvocation, IsCall, Mentioned
<1> QED
  BY <1>1, <1>2, <1>3 DEF Next, vars, Done, Validate, Compare

\* The substrate keeps one trace for each ID, and a comparison is of the substrate
\* as it stands.
THEOREM CutsInvariant == Spec => []CInv
<1>1. Init => CInv
  BY DEF Init, CInv, NoReport, Substrate
<1>2. CInv /\ [Next]_vars => CInv'
  <2> SUFFICES ASSUME CInv, [Next]_vars PROVE CInv'
    OBVIOUS
  <2>1. CASE traces' # traces
    <3>1. PICK t : /\ Sound(t) /\ traces' \in StoredInto(traces, t)
                   /\ report' = NoReport \/ report'.made = FALSE
      BY <2>1, Stores
    <3>2. Substrate(traces')
      BY <3>1, StoredOnce DEF CInv
    <3> QED
      BY <3>1, <3>2 DEF CInv, NoReport
  <2>2. CASE traces' = traces
    <3>1. CASE report' = report
      BY <2>2, <3>1 DEF CInv
    <3>2. ASSUME NEW oA \in CutOptions, NEW oB \in CutOptions, Compare(oA, oB)
          PROVE  Made(traces', report', oA, oB)
      BY <2>2, <3>2 DEF Compare, Made
    <3>3. CASE report'.made = FALSE
      BY <2>2, <3>3 DEF CInv
    <3> QED
      BY <2>2, <3>1, <3>2, <3>3 DEF Next, vars, CInv, Done, Validate, CallTool, Store, NoReport
  <2> QED
    BY <2>1, <2>2
<1> QED
  BY <1>1, <1>2, PTL DEF Spec

(***************************************************************************)
(* One cut.                                                                 *)
(***************************************************************************)

\* What Articulate makes of a list, for the proofs below.
LEMMA Articulated ==
    ASSUME NEW ts, NEW o
    PROVE  LET g == Articulate(ts, o) IN
           /\ g.cut = o /\ g.total = Len(ts) /\ g.edges = buildEdges(ts, o)
           /\ g.included = Cardinality(Included(ts, o))
           /\ g.nodes = buildNodes(ts, o) /\ Names(g) = Visible(ts, o)
           /\ g.shadow = buildShadow(ts, o)
           /\ DOMAIN g.shadow
                 = (UNION { Mentioned(ts[k]) : k \in Excluded(ts, o) }) \ Visible(ts, o)
           /\ \A e \in DOMAIN g.shadow :
                 /\ g.shadow[e].reasons = UNION { Failed(ts[k], o) : k \in ShadowTraces(ts, o, e) }
                 /\ g.shadow[e].seenFrom = { ts[k].observer : k \in ShadowTraces(ts, o, e) }
           /\ \A e \in Names(g) :
                 /\ g.nodes[e].appearances = Appearances(ts, Included(ts, o), e)
                 /\ g.nodes[e].shadows = Cardinality(ShadowTraces(ts, o, e))
<1> DEFINE g == Articulate(ts, o)
<1>1. /\ g.cut = o /\ g.total = Len(ts) /\ g.edges = buildEdges(ts, o)
      /\ g.included = Cardinality(Included(ts, o))
      /\ g.nodes = buildNodes(ts, o) /\ g.shadow = buildShadow(ts, o)
  BY DEF Articulate
<1> HIDE DEF g
<1> QED
  BY <1>1 DEF Names, buildNodes, buildShadow, g

\* A cut and its shadow share out the elements of a list.
LEMMA SharedOut ==
    ASSUME NEW ts, NEW o
    PROVE  LET g == Articulate(ts, o) IN
           /\ Names(g) \cup DOMAIN g.shadow = UNION { Mentioned(ts[k]) : k \in DOMAIN ts }
           /\ Names(g) \cap DOMAIN g.shadow = {}
<1>1. Included(ts, o) \cup Excluded(ts, o) = DOMAIN ts
  BY DEF Included, Excluded
<1> DEFINE g == Articulate(ts, o)
<1>2. /\ Names(g) = UNION { Mentioned(ts[k]) : k \in Included(ts, o) }
      /\ DOMAIN g.shadow = (UNION { Mentioned(ts[k]) : k \in Excluded(ts, o) }) \ Names(g)
  BY Articulated DEF Visible
<1> HIDE DEF g
<1> QED
  BY <1>1, <1>2 DEF g

\* Whatever the traces and the cuts, no cut loses an element (Cut, Articulate).
THEOREM NothingLost == Spec => []NothingIsLost
<1>1. CInv => NothingIsLost
  BY SharedOut DEF CInv, Made, NothingIsLost, Elements
<1> QED
  BY <1>1, CutsInvariant, PTL

\* A trace passes a cut without the filters R if and only if R has all it failed.
LEMMA Relaxed ==
    ASSUME NEW t, NEW o, NEW R \in SUBSET AllReasons
    PROVE  Failed(t, Without(o, R)) = Failed(t, o) \ R
<1>1. /\ PassesObserver(t, Without(o, R)) <=> "observer" \in R \/ PassesObserver(t, o)
      /\ PassesTime(t, Without(o, R)) <=> "time-window" \in R \/ PassesTime(t, o)
      /\ PassesTags(t, Without(o, R)) <=> "tag-filter" \in R \/ PassesTags(t, o)
  BY DEF Without, PassesObserver, PassesTime, PassesTags
<1> QED
  BY <1>1 DEF Failed

\* The reasons given for an element in shadow are neither too few nor too many to
\* show it, whatever the traces and the cuts (buildShadowData).
THEOREM ReasonsExplain == Spec => []ReasonsExplainShadow
<1>1. ASSUME NEW ts, NEW o, NEW e \in DOMAIN Articulate(ts, o).shadow
      PROVE  LET R == Articulate(ts, o).shadow[e].reasons IN
             /\ e \in Visible(ts, Without(o, R))
             /\ e \notin Visible(ts, Without(o, AllReasons \ R))
  <2> DEFINE R == UNION { Failed(ts[k], o) : k \in ShadowTraces(ts, o, e) }
  <2>1. Articulate(ts, o).shadow[e].reasons = R
    BY Articulated
  <2>2. \A t : Failed(t, o) \in SUBSET AllReasons
    BY DEF Failed, AllReasons
  <2>3. R \in SUBSET AllReasons /\ AllReasons \ R \in SUBSET AllReasons
    BY <2>2
  <2>4. e \notin Visible(ts, o) /\ \E k \in Excluded(ts, o) : e \in Mentioned(ts[k])
    BY Articulated
  <2>5. PICK k \in ShadowTraces(ts, o, e) : TRUE
    BY <2>4 DEF ShadowTraces
  <2>6. k \in DOMAIN ts /\ e \in Mentioned(ts[k]) /\ Failed(ts[k], o) \subseteq R
    BY <2>5 DEF ShadowTraces, Excluded
  <2>7. ASSUME NEW j \in DOMAIN ts, e \in Mentioned(ts[j])
        PROVE  Failed(ts[j], o) # {} /\ Failed(ts[j], o) \subseteq R
    <3>1. Failed(ts[j], o) # {}
      BY <2>4, <2>7 DEF Visible, Included
    <3> QED
      BY <2>7, <3>1 DEF ShadowTraces, Excluded
  <2> HIDE DEF R
  <2>8. e \in Visible(ts, Without(o, R))
    <3>1. Failed(ts[k], Without(o, R)) = {}
      BY <2>3, <2>6, Relaxed
    <3> QED
      BY <2>6, <3>1 DEF Visible, Included
  <2>9. e \notin Visible(ts, Without(o, AllReasons \ R))
    <3>1. \A j \in DOMAIN ts : Failed(ts[j], Without(o, AllReasons \ R))
                                  = Failed(ts[j], o) \ (AllReasons \ R)
      BY <2>3, Relaxed
    <3>2. ASSUME NEW j \in DOMAIN ts, e \in Mentioned(ts[j])
          PROVE  Failed(ts[j], Without(o, AllReasons \ R)) # {}
      BY <2>2, <2>7, <3>1, <3>2
    <3> QED
      BY <3>2 DEF Visible, Included
  <2> QED
    BY <2>1, <2>8, <2>9
<1>2. \A ts, o : Articulate(ts, o).cut = o
  BY Articulated
<1>3. CInv => ReasonsExplainShadow
  <2> SUFFICES ASSUME CInv, report.made, NEW g \in {report.a, report.b}, NEW e \in DOMAIN g.shadow
               PROVE  LET R == g.shadow[e].reasons IN
                      /\ e \in Visible(traces, Without(g.cut, R))
                      /\ e \notin Visible(traces, Without(g.cut, AllReasons \ R))
    BY DEF ReasonsExplainShadow
  <2>1. PICK o \in CutOptions : g = Articulate(traces, o)
    BY DEF CInv, Made
  <2>2. g.cut = o
    BY <1>2, <2>1
  <2> QED
    BY <1>1, <2>1, <2>2
<1> QED
  BY <1>3, CutsInvariant, PTL

\* What a cut leaves out is accounted for, whatever the traces and the cuts
\* (Articulate, buildShadowData).
THEOREM ShadowAccounts == Spec => []ShadowAccountsForAll
<1>1. NothingIsLost /\ ReasonsExplainShadow => ShadowAccountsForAll
  BY DEF ShadowAccountsForAll
<1> QED
  BY <1>1, NothingLost, ReasonsExplain, PTL

(***************************************************************************)
(* Two cuts of one list.                                                    *)
(***************************************************************************)

\* The edges of a graph are the traces the cut includes.
LEMMA Edges ==
    ASSUME NEW ts, Substrate(ts), NEW o
    PROVE  /\ EdgesOf(Articulate(ts, o)) = { ts[k] : k \in Included(ts, o) }
           /\ Len(buildEdges(ts, o)) = Cardinality(Included(ts, o))
           /\ DOMAIN buildEdges(ts, o) = 1..Cardinality(Included(ts, o))
           /\ Included(ts, o) \in SUBSET Int /\ IsFiniteSet(Included(ts, o))
           /\ Cardinality(Included(ts, o)) \in Nat
<1> DEFINE K == Included(ts, o)
           b == buildEdges(ts, o)
<1>1. K \in SUBSET DOMAIN ts
  BY DEF Included
<1>2. K \in SUBSET Int /\ IsFiniteSet(K)
  BY <1>1, Places DEF Substrate
<1>3. b = Subsequence(ts, K)
  BY DEF buildEdges
<1>4. Articulate(ts, o).edges = b
  BY DEF Articulate
<1> HIDE DEF K, b
<1>5. /\ DOMAIN b = 1..Cardinality(K) /\ Cardinality(K) \in Nat
      /\ \A n \in DOMAIN b : Nth(K, n) \in K /\ b[n] = ts[Nth(K, n)]
      /\ \A k \in K : \E n \in DOMAIN b : Nth(K, n) = k /\ b[n] = ts[k]
  BY <1>2, <1>3, SubsequenceFacts
<1>6. Range(b) = { ts[k] : k \in K }
  BY <1>5 DEF Range
<1>7. Len(b) = Cardinality(K)
  <2>1. \A k \in K : ts[k] \in Range(ts)
    BY <1>1 DEF Range
  <2> QED
    BY <1>2, <1>3, <2>1, SubsequenceType
<1> QED
  BY <1>2, <1>4, <1>5, <1>6, <1>7 DEF EdgesOf, K, b

\* A comparison is true of any two cuts of one list: what it adds and removes, of
\* nodes and of edges, makes B of A, and agrees with the shadows and with the gap.
LEMMA DiffLeads ==
    ASSUME NEW ts, Substrate(ts), NEW oA, NEW oB
    PROVE  LET a == Articulate(ts, oA)
               b == Articulate(ts, oB)
               d == Diff(a, b)
               Shifted(kind) == { e \in DOMAIN d.shifts : d.shifts[e] = kind }
           IN  /\ Names(b) = (Names(a) \ d.removed) \cup d.added
               /\ EdgesOf(b) = (EdgesOf(a) \ d.edgesRemoved) \cup d.edgesAdded
               /\ Shifted("emerged") = d.added
               /\ Shifted("submerged") = d.removed
               /\ \A e \in DOMAIN a.shadow \cap DOMAIN b.shadow :
                     e \in Shifted("reason-changed")
                        <=> a.shadow[e].reasons # b.shadow[e].reasons
               /\ AnalyseGaps(a, b).onlyInA = d.removed
               /\ AnalyseGaps(a, b).onlyInB = d.added
<1> DEFINE a == Articulate(ts, oA)
           b == Articulate(ts, oB)
           d == Diff(a, b)
<1>1. /\ d.added = Names(b) \ Names(a) /\ d.removed = Names(a) \ Names(b)
      /\ d.edgesAdded = { e \in EdgesOf(b) : e.id \notin TraceIDs(a) }
      /\ d.edgesRemoved = { e \in EdgesOf(a) : e.id \notin TraceIDs(b) }
      /\ d.shifts = shadowShifts(a, b)
      /\ AnalyseGaps(a, b).onlyInA = Names(a) \ Names(b)
      /\ AnalyseGaps(a, b).onlyInB = Names(b) \ Names(a)
  BY DEF Diff, AnalyseGaps
<1>2. /\ EdgesOf(a) \subseteq Range(ts) /\ EdgesOf(b) \subseteq Range(ts)
      /\ \A x, y \in Range(ts) : x.id = y.id => x = y
  <2>1. /\ EdgesOf(a) = { ts[k] : k \in Included(ts, oA) }
        /\ EdgesOf(b) = { ts[k] : k \in Included(ts, oB) }
    BY Edges
  <2>2. Included(ts, oA) \subseteq DOMAIN ts /\ Included(ts, oB) \subseteq DOMAIN ts
    BY DEF Included
  <2> HIDE DEF a, b
  <2> QED
    BY <2>1, <2>2 DEF Range, Substrate
<1>3. /\ Names(a) \cup DOMAIN a.shadow = Names(b) \cup DOMAIN b.shadow
      /\ Names(a) \cap DOMAIN a.shadow = {} /\ Names(b) \cap DOMAIN b.shadow = {}
  BY SharedOut
<1> HIDE DEF a, b, d
<1>4. EdgesOf(b) = (EdgesOf(a) \ d.edgesRemoved) \cup d.edgesAdded
  BY <1>1, <1>2 DEF TraceIDs
<1>5. /\ { e \in DOMAIN d.shifts : d.shifts[e] = "emerged" } = d.added
      /\ { e \in DOMAIN d.shifts : d.shifts[e] = "submerged" } = d.removed
      /\ \A e \in DOMAIN a.shadow \cap DOMAIN b.shadow :
            e \in { n \in DOMAIN d.shifts : d.shifts[n] = "reason-changed" }
               <=> a.shadow[e].reasons # b.shadow[e].reasons
  BY <1>1, <1>3 DEF shadowShifts
<1> QED
  BY <1>1, <1>4, <1>5 DEF a, b, d

\* A diff is a way from A to B and the gap tells the same story, whatever the
\* substrate and the two cuts (Diff, AnalyseGaps).
THEOREM DiffIsAWay == Spec => []DiffLeadsFromAToB
<1>1. CInv => DiffLeadsFromAToB
  <2> SUFFICES ASSUME CInv, report.made PROVE DiffLeadsFromAToB
    BY DEF DiffLeadsFromAToB
  <2>1. PICK oA \in CutOptions, oB \in CutOptions : Made(traces, report, oA, oB)
    BY DEF CInv
  <2> QED
    BY <2>1, DiffLeads DEF CInv, Made, DiffLeadsFromAToB
<1> QED
  BY <1>1, CutsInvariant, PTL

(***************************************************************************)
(* What the readings say of the substrate.                                  *)
(***************************************************************************)

\* A filter a cut does not have keeps nothing out of it.
LEMMA Filters ==
    ASSUME NEW o
    PROVE  \A t : /\ "observer" \in Failed(t, o) => o.observers # {}
                  /\ "time-window" \in Failed(t, o) => HasWindow(o)
                  /\ "tag-filter" \in Failed(t, o) => o.tags # {}
  BY DEF Failed, PassesObserver, PassesTime, PassesTags, HasWindow

\* What a shadow names, SuggestFor suggests.
LEMMA NamedIsSuggested ==
    ASSUME NEW ts, NEW o, NEW other, NEW only
    PROVE  Named(Articulate(ts, o), other, only) \subseteq SuggestFor(o, other, only)
<1> DEFINE g == Articulate(ts, o)
           To(r) == CASE r = "observer" -> "observer-expansion"
                      [] r = "time-window" -> "time-window-expansion"
                      [] r = "tag-filter" -> "tag-relaxation"
<1>1. \A e \in DOMAIN g.shadow : \A r \in g.shadow[e].reasons :
         /\ r = "observer" => o.observers # {}
         /\ r = "time-window" => HasWindow(o)
         /\ r = "tag-filter" => o.tags # {}
  <2> SUFFICES ASSUME NEW e \in DOMAIN g.shadow, NEW r \in g.shadow[e].reasons
               PROVE  \E t : r \in Failed(t, o)
    BY Filters
  <2>1. r \in UNION { Failed(ts[k], o) : k \in ShadowTraces(ts, o, e) }
    BY Articulated
  <2> QED
    BY <2>1
<1>2. ASSUME NEW x \in Named(g, other, only)
      PROVE  \E e \in DOMAIN g.shadow \cap only : \E r \in g.shadow[e].reasons :
                /\ x = To(r)
                /\ \/ r = "observer"
                   \/ r = "time-window" /\ ~HasWindow(other)
                   \/ r = "tag-filter" /\ other.tags = {}
  <2> HIDE DEF g
  <2> QED
    BY <1>2 DEF Named
<1>3. ASSUME NEW x \in Named(g, other, only)
      PROVE  x \in SuggestFor(o, other, only)
  <2>a. PICK e \in DOMAIN g.shadow \cap only : \E r \in g.shadow[e].reasons :
           /\ x = To(r)
           /\ \/ r = "observer"
              \/ r = "time-window" /\ ~HasWindow(other)
              \/ r = "tag-filter" /\ other.tags = {}
    BY <1>2
  <2>1. PICK r \in g.shadow[e].reasons :
           /\ x = To(r)
           /\ \/ r = "observer"
              \/ r = "time-window" /\ ~HasWindow(other)
              \/ r = "tag-filter" /\ other.tags = {}
    BY <2>a
  <2>2. only # {}
    OBVIOUS
  <2>3. /\ r = "observer" => o.observers # {} /\ x = "observer-expansion"
        /\ r = "time-window" => HasWindow(o) /\ x = "time-window-expansion"
        /\ r = "tag-filter" => o.tags # {} /\ x = "tag-relaxation"
    <3>1. /\ To("observer") = "observer-expansion"
          /\ To("time-window") = "time-window-expansion"
          /\ To("tag-filter") = "tag-relaxation"
      OBVIOUS
    <3> QED
      BY <1>1, <2>1, <3>1
  <2> HIDE DEF g, To
  <2> QED
    BY <2>1, <2>2, <2>3 DEF SuggestFor
<1> QED
  BY <1>3

\* The places of e in a trace, and in the traces K of a list.
PlacesIn(t, e) == { j \in 1..Len(t.source \o t.target) : (t.source \o t.target)[j] = e }

Occurrences(ts, K, e) == UNION { {k} \X PlacesIn(ts[k], e) : k \in K }

\* A trace mentions what has a place in it, and has finitely many places.
LEMMA PlacesFacts ==
    ASSUME NEW t, Sound(t), NEW e
    PROVE  IsFiniteSet(PlacesIn(t, e)) /\ (PlacesIn(t, e) = {} <=> e \notin Mentioned(t))
<1> DEFINE s == t.source
           u == t.target
<1>1. s \in Seq(Range(s)) /\ u \in Seq(Range(u))
  BY DEF Sound
<1> HIDE DEF s, u
<1>2. /\ Len(s) \in Nat /\ Len(u) \in Nat /\ Len(s \o u) = Len(s) + Len(u)
      /\ \A j \in 1..Len(s) : (s \o u)[j] = s[j]
      /\ \A j \in (Len(s) + 1)..(Len(s) + Len(u)) : (s \o u)[j] = u[j - Len(s)]
      /\ DOMAIN s = 1..Len(s) /\ DOMAIN u = 1..Len(u)
  <2>1. s \in Seq(Range(s) \cup Range(u)) /\ u \in Seq(Range(s) \cup Range(u))
    BY <1>1
  <2> QED
    BY <2>1
<1>3. IsFiniteSet(PlacesIn(t, e))
  <2>1. IsFiniteSet(1..Len(s \o u))
    BY <1>2, FS_Interval
  <2>2. PlacesIn(t, e) \in SUBSET (1..Len(s \o u))
    BY DEF PlacesIn, s, u
  <2> QED
    BY <2>1, <2>2, FS_Subset
<1>4. e \in Range(s) => \E j \in 1..Len(s \o u) : (s \o u)[j] = e
  <2> SUFFICES ASSUME NEW j \in 1..Len(s), e = s[j] PROVE \E i \in 1..Len(s \o u) : (s \o u)[i] = e
    BY <1>2 DEF Range
  <2> QED
    BY <1>2
<1>5. e \in Range(u) => \E j \in 1..Len(s \o u) : (s \o u)[j] = e
  <2> SUFFICES ASSUME NEW j \in 1..Len(u), e = u[j] PROVE \E i \in 1..Len(s \o u) : (s \o u)[i] = e
    BY <1>2 DEF Range
  <2>1. j + Len(s) \in (Len(s) + 1)..(Len(s) + Len(u)) /\ (j + Len(s)) - Len(s) = j
    BY <1>2
  <2> QED
    BY <1>2, <2>1
<1>6. ASSUME NEW j \in 1..Len(s \o u) PROVE (s \o u)[j] \in Range(s) \cup Range(u)
  <2>1. CASE j =< Len(s)
    BY <1>2, <2>1 DEF Range
  <2>2. CASE ~(j =< Len(s))
    <3>1. j \in (Len(s) + 1)..(Len(s) + Len(u)) /\ j - Len(s) \in 1..Len(u)
      BY <1>2, <2>2
    <3> QED
      BY <1>2, <3>1 DEF Range
  <2> QED
    BY <2>1, <2>2
<1> QED
  BY <1>3, <1>4, <1>5, <1>6 DEF PlacesIn, Mentioned, s, u

\* Appearances counts finitely many places.
LEMMA OccurrencesFinite ==
    ASSUME NEW ts, Substrate(ts), NEW K \in SUBSET DOMAIN ts, NEW e
    PROVE  /\ IsFiniteSet(Occurrences(ts, K, e))
           /\ Appearances(ts, K, e) = Cardinality(Occurrences(ts, K, e))
           /\ Appearances(ts, K, e) \in Nat
<1> DEFINE f == [k \in K |-> {k} \X PlacesIn(ts[k], e)]
           S == { {k} \X PlacesIn(ts[k], e) : k \in K }
<1>1. IsFiniteSet(K)
  BY Places DEF Substrate
<1>2. IsFiniteSet(S)
  <2>1. f \in [K -> S] /\ \A x \in S : \E k \in K : f[k] = x
    OBVIOUS
  <2> HIDE DEF f, S
  <2>2. f \in Surjection(K, S)
    BY <2>1, Fun_IsSurj
  <2> QED
    BY <1>1, <2>2, FS_Surjection
<1>3. ASSUME NEW T \in S PROVE IsFiniteSet(T)
  <2>1. PICK k \in K : T = {k} \X PlacesIn(ts[k], e)
    OBVIOUS
  <2>2. IsFiniteSet({k}) /\ IsFiniteSet(PlacesIn(ts[k], e))
    BY FS_Singleton, PlacesFacts DEF Substrate
  <2> QED
    BY <2>1, <2>2, FS_Product
<1> HIDE DEF S
<1>4. IsFiniteSet(UNION S)
  BY <1>2, <1>3, FS_UNION
<1>5. Appearances(ts, K, e) = Cardinality(UNION S)
  BY DEF Appearances, PlacesIn, S
<1> QED
  BY <1>4, <1>5, FS_CardinalityType DEF Occurrences, S

\* What is mentioned nowhere in M \ K appears in M as often as in K.
LEMMA SameOccurrences ==
    ASSUME NEW ts, Substrate(ts), NEW M \in SUBSET DOMAIN ts, NEW K \in SUBSET M, NEW e,
           \A k \in M \ K : e \notin Mentioned(ts[k])
    PROVE  Occurrences(ts, M, e) = Occurrences(ts, K, e)
<1>1. \A k \in M \ K : PlacesIn(ts[k], e) = {}
  BY PlacesFacts DEF Substrate
<1>2. \A k \in M \ K : {k} \X PlacesIn(ts[k], e) = {}
  BY <1>1
<1> QED
  BY <1>2 DEF Occurrences

\* An element IdentifyBottlenecks leaves out appears once in the whole substrate.
LEMMA OmittedOnce ==
    ASSUME Substrate(traces), NEW o
    PROVE  OmittedIsMentionedOnce(Articulate(traces, o))
<1> DEFINE g == Articulate(traces, o)
           K == Included(traces, o)
<1> SUFFICES ASSUME NEW e \in Names(g), e \notin IdentifyBottlenecks(g)
             PROVE  /\ Appearances(traces, DOMAIN traces, e) = 1
                    /\ \A k \in DOMAIN g.edges : g.edges[k].mediation = e => e = ""
  BY DEF OmittedIsMentionedOnce
<1>1. /\ ~(Mediations(g, e) > 0) /\ ~(g.nodes[e].appearances >= 2)
      /\ ~(g.nodes[e].shadows > 0)
  BY DEF IdentifyBottlenecks
<1>2. /\ g.nodes[e].appearances = Appearances(traces, K, e)
      /\ g.nodes[e].shadows = Cardinality(ShadowTraces(traces, o, e))
      /\ g.edges = buildEdges(traces, o)
      /\ e \in Visible(traces, o)
  BY Articulated
<1> HIDE DEF g
<1>3. \A k \in DOMAIN g.edges : g.edges[k].mediation = e => e = ""
  <2> DEFINE M == { k \in DOMAIN g.edges : g.edges[k].mediation # "" /\ g.edges[k].mediation = e }
  <2>1. IsFiniteSet(DOMAIN g.edges)
    <3>1. DOMAIN g.edges = 1..Cardinality(K) /\ Cardinality(K) \in Nat
      BY <1>2, Edges
    <3> QED
      BY <3>1, FS_Interval
  <2>2. M \in SUBSET DOMAIN g.edges
    OBVIOUS
  <2>3. Mediations(g, e) = Cardinality(M)
    BY DEF Mediations
  <2> HIDE DEF M
  <2>4. IsFiniteSet(M) /\ Cardinality(M) \in Nat
    BY <2>1, <2>2, FS_Subset, FS_CardinalityType
  <2>5. M = {}
    BY <1>1, <2>3, <2>4, FS_EmptySet
  <2> QED
    BY <2>5 DEF M
<1>4. ShadowTraces(traces, o, e) = {}
  <2>1. ShadowTraces(traces, o, e) \in SUBSET DOMAIN traces
    BY DEF ShadowTraces, Excluded
  <2>2. IsFiniteSet(ShadowTraces(traces, o, e)) /\ Cardinality(ShadowTraces(traces, o, e)) \in Nat
    BY <2>1, Places, FS_CardinalityType DEF Substrate
  <2> QED
    BY <1>1, <1>2, <2>2, FS_EmptySet
<1>5. K \in SUBSET DOMAIN traces /\ \A k \in DOMAIN traces \ K : e \notin Mentioned(traces[k])
  BY <1>4 DEF ShadowTraces, Included, Excluded
<1>6. Appearances(traces, DOMAIN traces, e) = Appearances(traces, K, e)
  <2>1. Occurrences(traces, DOMAIN traces, e) = Occurrences(traces, K, e)
    BY <1>5, SameOccurrences
  <2> QED
    BY <1>5, <2>1, OccurrencesFinite
<1>7. /\ IsFiniteSet(Occurrences(traces, K, e))
      /\ Appearances(traces, K, e) = Cardinality(Occurrences(traces, K, e))
      /\ Appearances(traces, K, e) \in Nat
  BY <1>5, OccurrencesFinite
<1>8. Occurrences(traces, K, e) # {}
  <2>1. PICK k \in K : e \in Mentioned(traces[k])
    BY <1>2 DEF Visible
  <2>2. PICK j \in PlacesIn(traces[k], e) : TRUE
    BY <1>5, <2>1, PlacesFacts DEF Substrate
  <2>3. <<k, j>> \in Occurrences(traces, K, e)
    BY <2>1, <2>2 DEF Occurrences
  <2> QED
    BY <2>3
<1>9. Appearances(traces, K, e) # 0
  BY <1>7, <1>8, FS_EmptySet
<1>10. Appearances(traces, K, e) = 1
  BY <1>1, <1>2, <1>7, <1>9
<1> QED
  BY <1>3, <1>6, <1>10

\* The counts of a shadow summary are the elements that show from each position.
LEMMA SummaryCounts ==
    ASSUME NEW o
    PROVE  SummaryCountsWhatLifts(Articulate(traces, o))
<1> DEFINE g == Articulate(traces, o)
           Seers == UNION { g.shadow[e].seenFrom : e \in DOMAIN g.shadow }
           seen == SummariseShadow(g).seenFromCounts
           Cut(who) == [Without(g.cut, AllReasons) EXCEPT !.observers = {who}]
           Lifts(who) == DOMAIN g.shadow \cap Visible(traces, Cut(who))
<1>1. DOMAIN seen = Seers
      /\ \A who \in Seers : seen[who]
            = Cardinality({ e \in DOMAIN g.shadow : who \in g.shadow[e].seenFrom })
  BY DEF SummariseShadow
<1>2. \A who : \A e \in DOMAIN g.shadow :
         e \in Visible(traces, Cut(who)) <=> who \in g.shadow[e].seenFrom
  <2> SUFFICES ASSUME NEW who, NEW e \in DOMAIN g.shadow
               PROVE  e \in Visible(traces, Cut(who)) <=> who \in g.shadow[e].seenFrom
    OBVIOUS
  <2>1. \A k \in DOMAIN traces : k \in Included(traces, Cut(who)) <=> traces[k].observer = who
    <3>1. /\ Cut(who).observers = {who} /\ Cut(who).start = 0 /\ Cut(who).end = 0
          /\ Cut(who).tags = {}
      BY DEF Without, AllReasons
    <3> HIDE DEF Cut
    <3> QED
      BY <3>1 DEF Included, Failed, PassesObserver, PassesTime, PassesTags
  <2>2. e \notin Visible(traces, o)
        /\ g.shadow[e].seenFrom = { traces[k].observer : k \in ShadowTraces(traces, o, e) }
    BY Articulated
  <2>3. \A k \in DOMAIN traces : e \in Mentioned(traces[k]) => k \in ShadowTraces(traces, o, e)
    BY <2>2 DEF Visible, Included, Excluded, ShadowTraces
  <2>4. \A k \in ShadowTraces(traces, o, e) : k \in DOMAIN traces /\ e \in Mentioned(traces[k])
    BY DEF ShadowTraces, Excluded
  <2>5. Included(traces, Cut(who)) \subseteq DOMAIN traces
    BY DEF Included
  <2>6. e \in Visible(traces, Cut(who))
           <=> \E k \in DOMAIN traces : traces[k].observer = who /\ e \in Mentioned(traces[k])
    <3> HIDE DEF Cut
    <3> QED
      BY <2>1, <2>5 DEF Visible
  <2> HIDE DEF g, Cut
  <2> QED
    BY <2>2, <2>3, <2>4, <2>6
<1>3. \A who : Lifts(who) = { e \in DOMAIN g.shadow : who \in g.shadow[e].seenFrom }
  <2> HIDE DEF g, Cut
  <2> QED
    BY <1>2
<1>4. \A who : who \notin Seers => { e \in DOMAIN g.shadow : who \in g.shadow[e].seenFrom } = {}
  <2> HIDE DEF g
  <2> QED
    OBVIOUS
<1>5. \A who : IF who \in DOMAIN seen THEN seen[who] = Cardinality(Lifts(who)) ELSE Lifts(who) = {}
  <2> HIDE DEF Seers, seen, Lifts, g
  <2> QED
    BY <1>1, <1>3, <1>4
<1> QED
  BY <1>5 DEF SummaryCountsWhatLifts

\* The filter of meshant_validate is that of a cut with tags only.
LEMMA ValidateCounts ==
    ASSUME Substrate(traces), NEW o
    PROVE  ValidateReadsTheTagCut(o)
<1> DEFINE K == { k \in DOMAIN traces : o.tags = {} \/ traces[k].tags \cap o.tags # {} }
<1>1. K = Included(traces, Without(o, {"observer", "time-window"}))
  <2> DEFINE u == Without(o, {"observer", "time-window"})
  <2>1. u.observers = {} /\ u.start = 0 /\ u.end = 0 /\ u.tags = o.tags
    BY DEF Without
  <2> HIDE DEF u
  <2> QED
    BY <2>1 DEF Included, Failed, PassesObserver, PassesTime, PassesTags, u
<1>2. K \in SUBSET DOMAIN traces /\ \A k \in K : traces[k] \in Range(traces)
  BY DEF Range
<1>3. filterByTagsOR(traces, o.tags) = Subsequence(traces, K)
  BY DEF filterByTagsOR
<1> HIDE DEF K
<1>4. Len(Subsequence(traces, K)) = Cardinality(K)
  <2>1. K \in SUBSET Int /\ IsFiniteSet(K)
    BY <1>2, Places DEF Substrate
  <2> QED
    BY <1>2, <2>1, SubsequenceType
<1> QED
  BY <1>1, <1>3, <1>4 DEF ValidateReadsTheTagCut, meshant_validate

\* Whatever the substrate and the cuts, what is suggested, left out, summarised
\* and counted is true of the traces (suggest.go, bottleneck.go, shadow.go).
THEOREM ReadingsHold == Spec => []ReadingsAreTrue
<1>1. CInv => ReadingsAreTrue
  <2> SUFFICES ASSUME CInv, report.made PROVE ReadingsAreTrue
    BY DEF ReadingsAreTrue
  <2>1. PICK oA \in CutOptions, oB \in CutOptions : Made(traces, report, oA, oB)
    BY DEF CInv
  <2>2. /\ report.a = Articulate(traces, oA) /\ report.b = Articulate(traces, oB)
        /\ report.a.cut = oA /\ report.b.cut = oB
        /\ report.suggestions = SuggestRearticulations(report.gap)
        /\ report.gap.cutA = oA /\ report.gap.cutB = oB
    BY <2>1, Articulated DEF Made, AnalyseGaps
  <2>3. OneSidedFilterIsNamed
    <3>1. /\ report.suggestions.A = SuggestFor(oA, oB, report.gap.onlyInB)
          /\ report.suggestions.B = SuggestFor(oB, oA, report.gap.onlyInA)
      BY <2>2 DEF SuggestRearticulations
    <3> QED
      BY <2>2, <3>1, NamedIsSuggested DEF OneSidedFilterIsNamed
  <2>4. OmittedIsMentionedOnce(report.a) /\ SummaryCountsWhatLifts(report.a)
    BY <2>2, OmittedOnce, SummaryCounts DEF CInv
  <2>5. ValidateReadsTheTagCut(report.a.cut)
    BY ValidateCounts DEF CInv
  <2> QED
    BY <2>3, <2>4, <2>5 DEF ReadingsAreTrue
<1> QED
  BY <1>1, CutsInvariant, PTL

(***************************************************************************)
(* A trace more.                                                            *)
(***************************************************************************)

\* s is ts with t put in at m; f says where the old traces went.
Insertion(ts, s, t, f, m) ==
    /\ f \in [DOMAIN ts -> DOMAIN s] /\ m \in DOMAIN s
    /\ s[m] = t
    /\ \A k \in DOMAIN ts : s[f[k]] = ts[k] /\ f[k] # m
    /\ \A a, b \in DOMAIN ts : f[a] = f[b] => a = b
    /\ \A j \in DOMAIN s : j = m \/ \E k \in DOMAIN ts : f[k] = j

\* A list that got longer got one trace more and kept the others.
LEMMA Longer ==
    ASSUME NEW ts, Substrate(ts), NEW t, Sound(t), NEW s \in StoredInto(ts, t),
           Len(s) > Len(ts)
    PROVE  \E f, m : Insertion(ts, s, t, f, m)
<1> DEFINE kept == { j \in DOMAIN ts : ts[j].id # t.id }
           f == [k \in DOMAIN ts |-> CHOOSE j \in DOMAIN s : s[j] = ts[k]]
           m == CHOOSE j \in DOMAIN s : s[j] = t
<1>1. Substrate(s) /\ Range(s) = After(ts, t) /\ Len(s) = Cardinality(kept) + 1
  BY StoredOnce
<1>2. kept = DOMAIN ts
  <2>1. kept \in SUBSET DOMAIN ts
    OBVIOUS
  <2> HIDE DEF kept
  <2>2. DOMAIN ts = 1..Len(ts) /\ Len(ts) \in Nat
    BY DEF Substrate
  <2>3. IsFiniteSet(DOMAIN ts) /\ Cardinality(DOMAIN ts) = Len(ts)
    <3> DEFINE n == Len(ts)
    <3>1. n \in Nat /\ DOMAIN ts = 1..n
      BY <2>2
    <3> HIDE DEF n
    <3>2. IsFiniteSet(1..n) /\ Cardinality(1..n) = n
      BY <3>1, FS_Interval
    <3> QED
      BY <3>1, <3>2 DEF n
  <2>4. Cardinality(kept) =< Len(ts) /\ Cardinality(kept) \in Nat
    BY <2>1, <2>3, FS_Subset, FS_CardinalityType
  <2>5. Cardinality(kept) = Cardinality(DOMAIN ts)
    BY <1>1, <2>2, <2>3, <2>4
  <2> QED
    BY <2>1, <2>3, <2>5, FS_Subset
<1>3. After(ts, t) = { ts[k] : k \in DOMAIN ts } \cup {t} /\ \A k \in DOMAIN ts : ts[k] # t
  BY <1>2 DEF After
<1> HIDE DEF kept
<1>4. ASSUME NEW k \in DOMAIN ts PROVE f[k] \in DOMAIN s /\ s[f[k]] = ts[k]
  <2>1. ts[k] \in Range(s)
    BY <1>1, <1>3
  <2> QED
    BY <2>1 DEF Range
<1>5. m \in DOMAIN s /\ s[m] = t
  BY <1>1, <1>3 DEF Range
<1>6. \A a, b \in DOMAIN s : s[a] = s[b] => a = b
  BY <1>1 DEF Substrate
<1>7. \A a, b \in DOMAIN ts : ts[a] = ts[b] => a = b
  BY DEF Substrate
<1>8. f \in [DOMAIN ts -> DOMAIN s]
  BY <1>4
<1> HIDE DEF f, m
<1>9. ASSUME NEW j \in DOMAIN s PROVE j = m \/ \E k \in DOMAIN ts : f[k] = j
  <2>1. s[j] = t \/ \E k \in DOMAIN ts : s[j] = ts[k]
    BY <1>1, <1>3 DEF Range
  <2> QED
    BY <1>4, <1>5, <1>6, <2>1
<1>10. Insertion(ts, s, t, f, m)
  BY <1>3, <1>4, <1>5, <1>7, <1>8, <1>9 DEF Insertion
<1> QED
  BY <1>10

\* A set of places has as many as the set they went to, or fewer.
LEMMA Counted ==
    ASSUME NEW ts, Substrate(ts), NEW s, Substrate(s), NEW t, NEW f, NEW m,
           Insertion(ts, s, t, f, m), NEW K \in SUBSET DOMAIN ts, NEW M \in SUBSET DOMAIN s,
           \A k \in K : f[k] \in M
    PROVE  /\ Cardinality(K) \in Nat /\ Cardinality(M) \in Nat
           /\ Cardinality(K) =< Cardinality(M)
           /\ (\A j \in M : \E k \in K : f[k] = j) => Cardinality(K) = Cardinality(M)
<1> DEFINE h == [k \in K |-> f[k]]
<1>1. IsFiniteSet(K) /\ IsFiniteSet(M)
  BY Places DEF Substrate
<1>2. h \in [K -> M] /\ \A a, b \in K : h[a] = h[b] => a = b
  BY DEF Insertion
<1>3. (\A j \in M : \E k \in K : f[k] = j) => \A j \in M : \E k \in K : h[k] = j
  OBVIOUS
<1> HIDE DEF h
<1>4. h \in Injection(K, M)
  BY <1>2, Fun_IsInj
<1>5. (\A j \in M : \E k \in K : h[k] = j) => h \in Surjection(K, M)
  BY <1>2, Fun_IsSurj
<1> QED
  BY <1>1, <1>3, <1>4, <1>5, FS_Injection, FS_CardinalityType

\* So with the places an element has in the traces.
LEMMA AppearancesGrow ==
    ASSUME NEW ts, Substrate(ts), NEW s, Substrate(s), NEW t, NEW f, NEW m,
           Insertion(ts, s, t, f, m), NEW K \in SUBSET DOMAIN ts, NEW M \in SUBSET DOMAIN s,
           \A k \in K : f[k] \in M, NEW e
    PROVE  /\ Appearances(ts, K, e) =< Appearances(s, M, e)
           /\ (\A j \in M : \E k \in K : f[k] = j) =>
                 Appearances(ts, K, e) = Appearances(s, M, e)
<1> DEFINE O == Occurrences(ts, K, e)
           Q == Occurrences(s, M, e)
           h == [p \in O |-> <<f[p[1]], p[2]>>]
<1>1. \A p : p \in O <=> \E k \in K : \E j \in PlacesIn(ts[k], e) : p = <<k, j>>
  BY DEF Occurrences
<1>2. \A p : p \in Q <=> \E k \in M : \E j \in PlacesIn(s[k], e) : p = <<k, j>>
  BY DEF Occurrences
<1>3. \A k \in K : k \in DOMAIN ts /\ s[f[k]] = ts[k]
  BY DEF Insertion
<1> HIDE DEF O, Q
<1>4. ASSUME NEW p \in O PROVE h[p] \in Q
  BY <1>1, <1>2, <1>3
<1>5. ASSUME NEW p \in O, NEW q \in O, h[p] = h[q] PROVE p = q
  <2>1. PICK k \in K : \E j \in PlacesIn(ts[k], e) : p = <<k, j>>
    BY <1>1
  <2>2. PICK l \in K : \E j \in PlacesIn(ts[l], e) : q = <<l, j>>
    BY <1>1
  <2>3. f[k] = f[l] => k = l
    BY <1>3 DEF Insertion
  <2> QED
    BY <1>5, <2>1, <2>2, <2>3
<1>6. ASSUME \A j \in M : \E k \in K : f[k] = j, NEW q \in Q
      PROVE  \E p \in O : h[p] = q
  <2>1. PICK j \in M : \E i \in PlacesIn(s[j], e) : q = <<j, i>>
    BY <1>2
  <2>2. PICK k \in K : f[k] = j
    BY <1>6
  <2>3. PICK i \in PlacesIn(s[j], e) : q = <<j, i>>
    BY <2>1
  <2>4. <<k, i>> \in O
    BY <1>1, <1>3, <2>2, <2>3
  <2> QED
    BY <2>2, <2>3, <2>4
<1>7. h \in [O -> Q]
  BY <1>4
<1> HIDE DEF h
<1>8. h \in Injection(O, Q)
  BY <1>5, <1>7, Fun_IsInj
<1>9. (\A j \in M : \E k \in K : f[k] = j) => h \in Surjection(O, Q)
  BY <1>6, <1>7, Fun_IsSurj
<1>10. /\ IsFiniteSet(Q) /\ Appearances(s, M, e) = Cardinality(Q)
       /\ Appearances(ts, K, e) = Cardinality(O)
  BY OccurrencesFinite DEF O, Q
<1> QED
  BY <1>8, <1>9, <1>10, FS_Injection

\* Which places a cut includes, and which tell of an element in shadow, before and
\* after.
LEMMA Moved ==
    ASSUME NEW ts, NEW s, NEW t, NEW f, NEW m, Insertion(ts, s, t, f, m), NEW o
    PROVE  /\ Included(ts, o) \in SUBSET DOMAIN ts /\ Included(s, o) \in SUBSET DOMAIN s
           /\ \A k \in DOMAIN ts : /\ k \in Included(ts, o) <=> f[k] \in Included(s, o)
                                   /\ k \in Excluded(ts, o) <=> f[k] \in Excluded(s, o)
           /\ \A e : /\ ShadowTraces(ts, o, e) \in SUBSET DOMAIN ts
                     /\ ShadowTraces(s, o, e) \in SUBSET DOMAIN s
                     /\ \A k \in DOMAIN ts :
                           k \in ShadowTraces(ts, o, e) <=> f[k] \in ShadowTraces(s, o, e)
           /\ \A e : e \in Visible(ts, o) => e \in Visible(s, o)
           /\ \A e : e \in Visible(s, o) => e \in Visible(ts, o) \/ e \in Mentioned(t)
<1>1. \A k \in DOMAIN ts : f[k] \in DOMAIN s /\ s[f[k]] = ts[k]
  BY DEF Insertion
<1>2. /\ Included(ts, o) \in SUBSET DOMAIN ts /\ Included(s, o) \in SUBSET DOMAIN s
      /\ \A k \in DOMAIN ts : /\ k \in Included(ts, o) <=> f[k] \in Included(s, o)
                              /\ k \in Excluded(ts, o) <=> f[k] \in Excluded(s, o)
  BY <1>1 DEF Included, Excluded
<1>3. \A e : /\ ShadowTraces(ts, o, e) \in SUBSET DOMAIN ts
             /\ ShadowTraces(s, o, e) \in SUBSET DOMAIN s
             /\ \A k \in DOMAIN ts :
                   k \in ShadowTraces(ts, o, e) <=> f[k] \in ShadowTraces(s, o, e)
  BY <1>1 DEF ShadowTraces, Excluded
<1>4. /\ \A e : e \in Visible(ts, o) <=> \E k \in Included(ts, o) : e \in Mentioned(ts[k])
      /\ \A e : e \in Visible(s, o) <=> \E j \in Included(s, o) : e \in Mentioned(s[j])
  BY DEF Visible
<1>5. \A j \in DOMAIN s : s[j] = t \/ \E k \in DOMAIN ts : f[k] = j
  BY DEF Insertion
<1>6. \A e : e \in Visible(ts, o) => e \in Visible(s, o)
  BY <1>1, <1>2, <1>4
<1>7. \A e : e \in Visible(s, o) => e \in Visible(ts, o) \/ e \in Mentioned(t)
  BY <1>1, <1>2, <1>4, <1>5
<1> QED
  BY <1>2, <1>3, <1>6, <1>7

\* A trace more hides nothing from a cut.
LEMMA InsertionHidesNothing ==
    ASSUME NEW ts, Substrate(ts), NEW s, Substrate(s), NEW t, NEW f, NEW m,
           Insertion(ts, s, t, f, m), NEW o
    PROVE  NothingIsHidden(Articulate(ts, o), Articulate(s, o))
<1> DEFINE a == Articulate(ts, o)
           b == Articulate(s, o)
<1>1. /\ Names(a) = Visible(ts, o) /\ Names(b) = Visible(s, o)
      /\ \A e \in Names(a) :
            /\ a.nodes[e].appearances = Appearances(ts, Included(ts, o), e)
            /\ a.nodes[e].shadows = Cardinality(ShadowTraces(ts, o, e))
      /\ \A e \in Names(b) :
            /\ b.nodes[e].appearances = Appearances(s, Included(s, o), e)
            /\ b.nodes[e].shadows = Cardinality(ShadowTraces(s, o, e))
  BY Articulated
<1>2. /\ DOMAIN a.shadow
            = (UNION { Mentioned(ts[k]) : k \in Excluded(ts, o) }) \ Visible(ts, o)
      /\ DOMAIN b.shadow
            = (UNION { Mentioned(s[k]) : k \in Excluded(s, o) }) \ Visible(s, o)
      /\ \A e \in DOMAIN a.shadow :
            a.shadow[e].reasons = UNION { Failed(ts[k], o) : k \in ShadowTraces(ts, o, e) }
      /\ \A e \in DOMAIN b.shadow :
            b.shadow[e].reasons = UNION { Failed(s[k], o) : k \in ShadowTraces(s, o, e) }
  BY Articulated
<1>3. a.excludedObservers \subseteq b.excludedObservers
  <2>1. \A k \in DOMAIN ts : f[k] \in DOMAIN s /\ s[f[k]] = ts[k]
    BY DEF Insertion
  <2> QED
    BY <2>1 DEF Articulate
<1>4. \A k \in DOMAIN ts : f[k] \in DOMAIN s /\ s[f[k]] = ts[k]
  BY DEF Insertion
<1> HIDE DEF a, b
<1>5. ASSUME NEW e \in Names(a)
      PROVE  /\ e \in Names(b)
             /\ a.nodes[e].appearances =< b.nodes[e].appearances
             /\ a.nodes[e].shadows =< b.nodes[e].shadows
  <2>1. e \in Names(b)
    BY <1>1, Moved
  <2>2. Appearances(ts, Included(ts, o), e) =< Appearances(s, Included(s, o), e)
    <3>1. \A k \in Included(ts, o) : f[k] \in Included(s, o)
      BY Moved
    <3> QED
      BY <3>1, Moved, AppearancesGrow
  <2>3. Cardinality(ShadowTraces(ts, o, e)) =< Cardinality(ShadowTraces(s, o, e))
    <3> DEFINE K == ShadowTraces(ts, o, e)
               M == ShadowTraces(s, o, e)
    <3>1. /\ K \in SUBSET DOMAIN ts /\ M \in SUBSET DOMAIN s
          /\ \A k \in K : f[k] \in M
      BY Moved
    <3> HIDE DEF K, M
    <3>2. Cardinality(K) =< Cardinality(M)
      BY <3>1, Counted
    <3> QED
      BY <3>2 DEF K, M
  <2> QED
    BY <1>1, <2>1, <2>2, <2>3
<1>6. ASSUME NEW e \in DOMAIN a.shadow, e \notin Names(b)
      PROVE  /\ e \in DOMAIN b.shadow
             /\ a.shadow[e].reasons \subseteq b.shadow[e].reasons
  <2>1. PICK k \in Excluded(ts, o) : e \in Mentioned(ts[k])
    BY <1>2
  <2>2. f[k] \in Excluded(s, o) /\ e \in Mentioned(s[f[k]])
    BY <1>4, <2>1, Moved DEF Excluded
  <2>3. e \in DOMAIN b.shadow
    BY <1>1, <1>2, <1>6, <2>2
  <2>4. \A j \in ShadowTraces(ts, o, e) :
           f[j] \in ShadowTraces(s, o, e) /\ Failed(ts[j], o) = Failed(s[f[j]], o)
    BY <1>4, Moved DEF ShadowTraces, Excluded
  <2> QED
    BY <1>2, <2>3, <2>4
<1> QED
  BY <1>3, <1>5, <1>6 DEF NothingIsHidden, a, b

\* A trace that is no call leaves the number of calls as it was.
LEMMA CallsKept ==
    ASSUME NEW ts, Substrate(ts), NEW s, Substrate(s), NEW t, NEW f, NEW m,
           Insertion(ts, s, t, f, m), ~IsCall(t)
    PROVE  Calls(s) = Calls(ts)
<1> DEFINE K == { k \in DOMAIN ts : IsCall(ts[k]) }
           M == { j \in DOMAIN s : IsCall(s[j]) }
<1>1. /\ K \in SUBSET DOMAIN ts /\ M \in SUBSET DOMAIN s
      /\ \A k \in K : f[k] \in M
      /\ \A j \in M : \E k \in K : f[k] = j
  BY DEF Insertion
<1>2. Calls(ts) = Cardinality(K) /\ Calls(s) = Cardinality(M)
  BY DEF Calls
<1> HIDE DEF K, M
<1> QED
  BY <1>1, <1>2, Counted


\* Some edge of g is mediated by e.
Mediates(g, e) == \E x \in EdgesOf(g) : x.mediation # "" /\ x.mediation = e

\* An element mediates not at all or at least once.
LEMMA Mediating ==
    ASSUME NEW ts, Substrate(ts), NEW o, NEW e
    PROVE  Mediations(Articulate(ts, o), e) > 0 <=> Mediates(Articulate(ts, o), e)
<1> DEFINE g == Articulate(ts, o)
           M == { k \in DOMAIN g.edges : g.edges[k].mediation # "" /\ g.edges[k].mediation = e }
<1>1. EdgesOf(g) = Range(g.edges)
  BY DEF EdgesOf
<1>2. IsFiniteSet(DOMAIN g.edges)
  <2>1. g.edges = buildEdges(ts, o)
    BY Articulated
  <2>2. DOMAIN g.edges = 1..Cardinality(Included(ts, o)) /\ Cardinality(Included(ts, o)) \in Nat
    BY <2>1, Edges
  <2> QED
    BY <2>2, FS_Interval
<1>3. Mediations(g, e) = Cardinality(M)
  BY DEF Mediations
<1> HIDE DEF g
<1>4. IsFiniteSet(M) /\ Cardinality(M) \in Nat
  <2>1. M \in SUBSET DOMAIN g.edges
    OBVIOUS
  <2> HIDE DEF M
  <2> QED
    BY <1>2, <2>1, FS_Subset, FS_CardinalityType
<1>5. M # {} <=> \E x \in Range(g.edges) : x.mediation # "" /\ x.mediation = e
  BY DEF Range
<1> HIDE DEF M
<1>6. Cardinality(M) > 0 <=> M # {}
  BY <1>4, FS_EmptySet
<1> QED
  BY <1>1, <1>3, <1>5, <1>6 DEF g, Mediates

\* A trace without elements is nothing to nodes and shadow.
LEMMA NamelessChangesNoElement ==
    ASSUME NEW ts, Substrate(ts), NEW s, Substrate(s), NEW t, NEW f, NEW m,
           Insertion(ts, s, t, f, m), Mentioned(t) = {}, NEW o
    PROVE  buildNodes(s, o) = buildNodes(ts, o) /\ buildShadow(s, o) = buildShadow(ts, o)
<1>1. /\ \A k \in DOMAIN ts : f[k] \in DOMAIN s /\ s[f[k]] = ts[k] /\ f[k] # m
      /\ \A j \in DOMAIN s : j = m \/ \E k \in DOMAIN ts : f[k] = j
      /\ m \in DOMAIN s /\ s[m] = t
  BY DEF Insertion
<1>2. Visible(s, o) = Visible(ts, o)
  BY Moved
<1>3. ASSUME NEW e
      PROVE  Appearances(s, Included(s, o), e) = Appearances(ts, Included(ts, o), e)
  <2> DEFINE K == Included(ts, o)
             M == Included(s, o)
             N == M \ {m}
  <2>1. /\ K \in SUBSET DOMAIN ts /\ M \in SUBSET DOMAIN s
        /\ \A k \in DOMAIN ts : k \in K <=> f[k] \in M
    BY Moved
  <2> HIDE DEF K, M
  <2>2. /\ N \in SUBSET DOMAIN s /\ N \in SUBSET M
        /\ \A k \in K : f[k] \in N
        /\ \A j \in N : \E k \in K : f[k] = j
    BY <1>1, <2>1
  <2>3. \A k \in M \ N : e \notin Mentioned(s[k])
    BY <1>1
  <2> HIDE DEF N
  <2>4. Appearances(ts, K, e) = Appearances(s, N, e)
    BY <2>1, <2>2, AppearancesGrow
  <2>5. Occurrences(s, M, e) = Occurrences(s, N, e)
    BY <2>1, <2>2, <2>3, SameOccurrences
  <2>6. /\ Appearances(s, M, e) = Cardinality(Occurrences(s, M, e))
        /\ Appearances(s, N, e) = Cardinality(Occurrences(s, N, e))
    BY <2>1, <2>2, OccurrencesFinite
  <2> QED
    BY <2>4, <2>5, <2>6 DEF K, M
<1>4. ASSUME NEW e
      PROVE  /\ ShadowTraces(ts, o, e) \in SUBSET DOMAIN ts
             /\ ShadowTraces(s, o, e) \in SUBSET DOMAIN s
             /\ \A k \in ShadowTraces(ts, o, e) : f[k] \in ShadowTraces(s, o, e)
             /\ \A j \in ShadowTraces(s, o, e) : \E k \in ShadowTraces(ts, o, e) : f[k] = j
  <2>1. /\ ShadowTraces(ts, o, e) \in SUBSET DOMAIN ts
        /\ ShadowTraces(s, o, e) \in SUBSET DOMAIN s
        /\ \A k \in DOMAIN ts : k \in ShadowTraces(ts, o, e) <=> f[k] \in ShadowTraces(s, o, e)
    BY Moved
  <2>2. m \notin ShadowTraces(s, o, e)
    BY <1>1 DEF ShadowTraces
  <2> QED
    BY <1>1, <2>1, <2>2
<1>5. ASSUME NEW e
      PROVE  Cardinality(ShadowTraces(s, o, e)) = Cardinality(ShadowTraces(ts, o, e))
  <2> DEFINE K == ShadowTraces(ts, o, e)
             M == ShadowTraces(s, o, e)
  <2>1. /\ K \in SUBSET DOMAIN ts /\ M \in SUBSET DOMAIN s
        /\ \A k \in K : f[k] \in M
        /\ \A j \in M : \E k \in K : f[k] = j
    BY <1>4
  <2> HIDE DEF K, M
  <2>2. Cardinality(K) = Cardinality(M)
    BY <2>1, Counted
  <2> QED
    BY <2>2 DEF K, M
<1>6. buildNodes(s, o) = buildNodes(ts, o)
  BY <1>2, <1>3, <1>5 DEF buildNodes
<1>7. (UNION { Mentioned(s[k]) : k \in Excluded(s, o) })
         = UNION { Mentioned(ts[k]) : k \in Excluded(ts, o) }
  <2>1. \A k \in DOMAIN ts : k \in Excluded(ts, o) <=> f[k] \in Excluded(s, o)
    BY Moved
  <2>2. Excluded(ts, o) \in SUBSET DOMAIN ts /\ Excluded(s, o) \in SUBSET DOMAIN s
    BY DEF Excluded
  <2>3. ASSUME NEW k \in Excluded(s, o), NEW e \in Mentioned(s[k])
        PROVE  \E j \in Excluded(ts, o) : e \in Mentioned(ts[j])
    BY <1>1, <2>1, <2>2
  <2>4. ASSUME NEW k \in Excluded(ts, o), NEW e \in Mentioned(ts[k])
        PROVE  \E j \in Excluded(s, o) : e \in Mentioned(s[j])
    BY <1>1, <2>1, <2>2
  <2> QED
    BY <2>3, <2>4
<1>8. ASSUME NEW e
      PROVE  /\ { s[k].observer : k \in ShadowTraces(s, o, e) }
                   = { ts[k].observer : k \in ShadowTraces(ts, o, e) }
             /\ (UNION { Failed(s[k], o) : k \in ShadowTraces(s, o, e) })
                   = UNION { Failed(ts[k], o) : k \in ShadowTraces(ts, o, e) }
  <2>1. \A k \in ShadowTraces(ts, o, e) : s[f[k]] = ts[k] /\ f[k] \in ShadowTraces(s, o, e)
    BY <1>1, <1>4
  <2>2. \A j \in ShadowTraces(s, o, e) : \E k \in ShadowTraces(ts, o, e) : s[j] = ts[k]
    BY <1>4, <2>1
  <2> QED
    BY <2>1, <2>2
<1>9. buildShadow(s, o) = buildShadow(ts, o)
  BY <1>2, <1>7, <1>8 DEF buildShadow
<1> QED
  BY <1>6, <1>9


\* Finitely many elements are in shadow.
LEMMA ShadowFinite ==
    ASSUME NEW ts, Substrate(ts), NEW o
    PROVE  Cardinality(DOMAIN buildShadow(ts, o)) \in Nat
<1> DEFINE X == Excluded(ts, o)
           f == [k \in X |-> Mentioned(ts[k])]
           S == { Mentioned(ts[k]) : k \in X }
<1>1. X \in SUBSET DOMAIN ts
  BY DEF Excluded
<1>2. IsFiniteSet(X)
  BY <1>1, Places DEF Substrate
<1>3. IsFiniteSet(S)
  <2>1. f \in [X -> S] /\ \A x \in S : \E k \in X : f[k] = x
    OBVIOUS
  <2> HIDE DEF f, S
  <2>2. f \in Surjection(X, S)
    BY <2>1, Fun_IsSurj
  <2> QED
    BY <1>2, <2>2, FS_Surjection
<1>4. ASSUME NEW u, u \in Seq(Range(u)) PROVE IsFiniteSet(Range(u))
  <2>1. DOMAIN u = 1..Len(u) /\ Len(u) \in Nat /\ u \in [DOMAIN u -> Range(u)]
    BY <1>4
  <2>2. IsFiniteSet(DOMAIN u)
    <3> DEFINE n == Len(u)
    <3>1. n \in Nat /\ DOMAIN u = 1..n
      BY <2>1
    <3> HIDE DEF n
    <3> QED
      BY <3>1, FS_Interval
  <2>3. u \in Surjection(DOMAIN u, Range(u))
    BY <2>1, Fun_RangeProperties
  <2> QED
    BY <2>2, <2>3, FS_Surjection
<1>5. ASSUME NEW T \in S PROVE IsFiniteSet(T)
  <2>1. PICK k \in X : T = Mentioned(ts[k])
    OBVIOUS
  <2>2. IsFiniteSet(Range(ts[k].source)) /\ IsFiniteSet(Range(ts[k].target))
    BY <1>1, <1>4, <2>1 DEF Substrate, Sound
  <2> QED
    BY <2>1, <2>2, FS_Union DEF Mentioned
<1> HIDE DEF S
<1>6. IsFiniteSet(UNION S)
  BY <1>3, <1>5, FS_UNION
<1>7. DOMAIN buildShadow(ts, o) = (UNION S) \ Visible(ts, o)
  BY DEF buildShadow, S
<1>8. (UNION S) \ Visible(ts, o) \in SUBSET (UNION S)
  OBVIOUS
<1> QED
  BY <1>6, <1>7, <1>8, FS_Subset, FS_CardinalityType

\* What is more than half of a number is more than half of a smaller one.
LEMMA TwiceAsMuch ==
    ASSUME NEW h \in Nat, NEW x \in Nat, NEW y \in Nat, y > x
    PROVE  2 * h > y => 2 * h > x
  OBVIOUS

\* A longer list of edges that adds no mediator, to the same nodes and shadow,
\* tells the same story, but for the caveat of a large shadow.
LEMMA NarrativeKept ==
    ASSUME NEW a, NEW b, a.nodes = b.nodes, a.shadow = b.shadow, a.cut = b.cut,
           EdgesOf(a) \subseteq EdgesOf(b),
           \A x \in EdgesOf(b) : x \in EdgesOf(a) \/ x.mediation = "",
           a.edges # <<>> => b.edges # <<>>,
           2 * Cardinality(DOMAIN b.shadow) > b.total
              => 2 * Cardinality(DOMAIN a.shadow) > a.total
    PROVE  LET told == DraftNarrative(a)
               retold == DraftNarrative(b)
           IN  told.told =>
                  /\ retold.told
                  /\ retold.top = told.top /\ retold.mediations = told.mediations
                  /\ retold.shadow = told.shadow /\ retold.reasons = told.reasons
                  /\ retold.caveats \in {told.caveats, told.caveats \ {"large-shadow"}}
<1> DEFINE M(g) == { g.edges[k].mediation : k \in DOMAIN g.edges } \ {""}
           Large(g) == 2 * Cardinality(DOMAIN g.shadow) > g.total
           C(g) == { c \in {"large-shadow", "time-window", "tags"} :
                       \/ c = "large-shadow" /\ 2 * Cardinality(DOMAIN g.shadow) > g.total
                       \/ c = "time-window" /\ HasWindow(g.cut)
                       \/ c = "tags" /\ g.cut.tags # {} }
<1>1. Top(b) = Top(a)
  BY DEF Top, Names
<1>2. M(b) = M(a)
  <2>1. \A g, x : x \in M(g) <=> x # "" /\ \E y \in EdgesOf(g) : y.mediation = x
    BY DEF EdgesOf, Range
  <2> HIDE DEF M
  <2>a. \A x : x \in M(a) <=> x # "" /\ \E y \in EdgesOf(a) : y.mediation = x
    BY <2>1
  <2>b. \A x : x \in M(b) <=> x # "" /\ \E y \in EdgesOf(b) : y.mediation = x
    BY <2>1
  <2>2. \A x : x \in M(a) <=> x \in M(b)
    BY <2>a, <2>b
  <2>3. M(a) = { x \in M(a) : TRUE } /\ M(b) = { x \in M(b) : TRUE }
    BY DEF M
  <2> QED
    BY <2>2, <2>3
<1>3. Large(b) => Large(a)
  OBVIOUS
<1>4. \A g, c : c \in C(g) <=> \/ c = "large-shadow" /\ Large(g)
                               \/ c = "time-window" /\ HasWindow(g.cut)
                               \/ c = "tags" /\ g.cut.tags # {}
  OBVIOUS
<1>5. C(b) \in {C(a), C(a) \ {"large-shadow"}}
  <2>1. \A g : C(g) = { c \in {"large-shadow", "time-window", "tags"} : c \in C(g) }
    OBVIOUS
  <2> HIDE DEF C, Large
  <2>2. CASE Large(a) <=> Large(b)
    <3>1. \A c : c \in C(a) <=> c \in C(b)
      BY <1>4, <2>2
    <3> QED
      BY <2>1, <3>1
  <2>3. CASE Large(a) /\ ~Large(b)
    <3>1. \A c : c \in C(b) <=> c \in C(a) \ {"large-shadow"}
      BY <1>4, <2>3
    <3>2. C(b) = C(a) \ {"large-shadow"}
      BY <2>1, <3>1
    <3> QED
      BY <3>2
  <2> QED
    BY <1>3, <2>2, <2>3
<1>6. ASSUME NEW g, g.edges # <<>>
      PROVE  /\ DraftNarrative(g).told = TRUE
             /\ DraftNarrative(g).top = Top(g) /\ DraftNarrative(g).mediations = M(g)
             /\ DraftNarrative(g).shadow = Cardinality(DOMAIN g.shadow)
             /\ DraftNarrative(g).reasons
                   = UNION { g.shadow[e].reasons : e \in DOMAIN g.shadow }
             /\ DraftNarrative(g).caveats = C(g)
  BY <1>6 DEF DraftNarrative
<1>7. DraftNarrative(a).told => a.edges # <<>>
  BY DEF DraftNarrative
<1> HIDE DEF M, C, Large
<1> SUFFICES ASSUME a.edges # <<>>, b.edges # <<>>
             PROVE  /\ DraftNarrative(b).told
                    /\ DraftNarrative(b).top = DraftNarrative(a).top
                    /\ DraftNarrative(b).mediations = DraftNarrative(a).mediations
                    /\ DraftNarrative(b).shadow = DraftNarrative(a).shadow
                    /\ DraftNarrative(b).reasons = DraftNarrative(a).reasons
                    /\ DraftNarrative(b).caveats
                          \in {DraftNarrative(a).caveats, DraftNarrative(a).caveats \ {"large-shadow"}}
  BY <1>7
<1>8. DraftNarrative(a).top = Top(a) /\ DraftNarrative(a).mediations = M(a)
      /\ DraftNarrative(a).caveats = C(a)
  BY <1>6
<1>9. DraftNarrative(b).top = Top(b) /\ DraftNarrative(b).mediations = M(b)
      /\ DraftNarrative(b).caveats = C(b) /\ DraftNarrative(b).told
  BY <1>6
<1>10. DraftNarrative(b).shadow = DraftNarrative(a).shadow
       /\ DraftNarrative(b).reasons = DraftNarrative(a).reasons
  <2>1. /\ DraftNarrative(a).shadow = Cardinality(DOMAIN a.shadow)
        /\ DraftNarrative(a).reasons = UNION { a.shadow[e].reasons : e \in DOMAIN a.shadow }
    BY <1>6
  <2>2. /\ DraftNarrative(b).shadow = Cardinality(DOMAIN b.shadow)
        /\ DraftNarrative(b).reasons = UNION { b.shadow[e].reasons : e \in DOMAIN b.shadow }
    BY <1>6
  <2> QED
    BY <2>1, <2>2
<1> QED
  BY <1>1, <1>2, <1>5, <1>8, <1>9, <1>10

\* A list has a length, and a graph that has edges has one to name.
LEMMA Lengths ==
    ASSUME NEW ts, Substrate(ts), NEW o
    PROVE  /\ Len(ts) \in Nat
           /\ Articulate(ts, o).edges # <<>> <=> EdgesOf(Articulate(ts, o)) # {}
<1>1. ts \in Seq(Range(ts))
  BY DEF Substrate
<1>2. Len(ts) \in Nat
  BY <1>1
<1> DEFINE es == Articulate(ts, o).edges
<1>3. es \in Seq(Range(ts))
  <2>1. es = Subsequence(ts, Included(ts, o))
    BY Articulated DEF buildEdges
  <2>2. Included(ts, o) \in SUBSET Int /\ IsFiniteSet(Included(ts, o))
    BY Edges
  <2>3. \A k \in Included(ts, o) : ts[k] \in Range(ts)
    BY DEF Included, Range
  <2> HIDE DEF es
  <2> QED
    BY <2>1, <2>2, <2>3, SubsequenceType
<1> HIDE DEF es
<1>4. es # <<>> <=> Range(es) # {}
  <2>1. DOMAIN es = 1..Len(es) /\ Len(es) \in Nat /\ (Len(es) = 0 <=> es = <<>>)
    BY <1>3
  <2>2. Range(es) # {} <=> DOMAIN es # {}
    BY DEF Range
  <2>3. DOMAIN es # {} <=> Len(es) # 0
    BY <2>1
  <2> QED
    BY <2>1, <2>2, <2>3
<1> QED
  BY <1>2, <1>4 DEF EdgesOf, es

\* Which traces the cut includes, before and after, if the one put in is a call.
LEMMA EdgesKept ==
    ASSUME NEW ts, Substrate(ts), NEW s, Substrate(s), NEW t, NEW f, NEW m,
           Insertion(ts, s, t, f, m), NEW o
    PROVE  /\ EdgesOf(Articulate(ts, o)) \subseteq EdgesOf(Articulate(s, o))
           /\ \A x \in EdgesOf(Articulate(s, o)) : x = t \/ x \in EdgesOf(Articulate(ts, o))
<1> DEFINE K == Included(ts, o)
           M == Included(s, o)
<1>1. /\ \A k \in DOMAIN ts : f[k] \in DOMAIN s /\ s[f[k]] = ts[k]
      /\ \A j \in DOMAIN s : s[j] = t \/ \E k \in DOMAIN ts : f[k] = j
  BY DEF Insertion
<1>2. /\ K \in SUBSET DOMAIN ts /\ M \in SUBSET DOMAIN s
      /\ \A k \in DOMAIN ts : k \in K <=> f[k] \in M
  BY Moved
<1>3. EdgesOf(Articulate(ts, o)) = { ts[k] : k \in K }
  BY Edges
<1>4. EdgesOf(Articulate(s, o)) = { s[j] : j \in M }
  BY Edges
<1> HIDE DEF K, M
<1>5. \A k \in K : f[k] \in M /\ s[f[k]] = ts[k]
  BY <1>1, <1>2
<1>6. ASSUME NEW j \in M, s[j] # t PROVE \E k \in K : s[j] = ts[k]
  <2>1. PICK k \in DOMAIN ts : f[k] = j
    BY <1>1, <1>2, <1>6
  <2> QED
    BY <1>1, <1>2, <2>1
<1> QED
  BY <1>3, <1>4, <1>5, <1>6

\* A recorded call changes nothing any reading says of elements.
LEMMA CallChangesNothing ==
    ASSUME NEW ts, Substrate(ts), NEW s, Substrate(s), NEW t, NEW f, NEW m,
           Insertion(ts, s, t, f, m), Len(s) > Len(ts), NEW o,
           IsCall(t), Mentioned(t) = {}, t.mediation = ""
    PROVE  CallChangesNoReading(Articulate(ts, o), Articulate(s, o))
<1> DEFINE a == Articulate(ts, o)
           b == Articulate(s, o)
<1>1. /\ a.nodes = buildNodes(ts, o) /\ a.shadow = buildShadow(ts, o)
      /\ a.cut = o /\ a.total = Len(ts)
  BY Articulated
<1>2. /\ b.nodes = buildNodes(s, o) /\ b.shadow = buildShadow(s, o)
      /\ b.cut = o /\ b.total = Len(s)
  BY Articulated
<1>3. buildNodes(s, o) = buildNodes(ts, o) /\ buildShadow(s, o) = buildShadow(ts, o)
  BY NamelessChangesNoElement
<1>4. /\ EdgesOf(a) \subseteq EdgesOf(b)
      /\ \A x \in EdgesOf(b) : x = t \/ x \in EdgesOf(a)
  BY EdgesKept
<1>5. a.edges # <<>> => b.edges # <<>>
  <2>1. a.edges # <<>> <=> EdgesOf(a) # {}
    BY Lengths
  <2>2. b.edges # <<>> <=> EdgesOf(b) # {}
    BY Lengths
  <2> QED
    BY <1>4, <2>1, <2>2
<1>6. 2 * Cardinality(DOMAIN b.shadow) > b.total => 2 * Cardinality(DOMAIN a.shadow) > a.total
  <2> DEFINE h == Cardinality(DOMAIN buildShadow(ts, o))
             x == Len(ts)
             y == Len(s)
  <2>1. h \in Nat /\ x \in Nat /\ y \in Nat /\ y > x
    BY ShadowFinite, Lengths
  <2>2. /\ Cardinality(DOMAIN a.shadow) = h /\ Cardinality(DOMAIN b.shadow) = h
        /\ a.total = x /\ b.total = y
    BY <1>1, <1>2, <1>3
  <2> HIDE DEF h, x, y, a, b
  <2>3. 2 * h > y => 2 * h > x
    BY <2>1, TwiceAsMuch
  <2> QED
    BY <2>2, <2>3
<1>7. \A e : Mediations(a, e) > 0 <=> Mediations(b, e) > 0
  <2> SUFFICES ASSUME NEW e PROVE Mediations(a, e) > 0 <=> Mediations(b, e) > 0
    OBVIOUS
  <2>1. Mediations(a, e) > 0 <=> Mediates(a, e)
    BY Mediating
  <2>2. Mediations(b, e) > 0 <=> Mediates(b, e)
    BY Mediating
  <2>3. Mediates(a, e) <=> Mediates(b, e)
    <3> HIDE DEF a, b
    <3> QED
      BY <1>4 DEF Mediates
  <2> QED
    BY <2>1, <2>2, <2>3
<1> HIDE DEF a, b
<1>8. a.nodes = b.nodes /\ a.shadow = b.shadow /\ a.cut = b.cut
  BY <1>1, <1>2, <1>3
<1>9. Uncalled(b) = Uncalled(a)
  BY <1>4 DEF Uncalled
<1>10. IdentifyBottlenecks(b) = IdentifyBottlenecks(a)
  BY <1>7, <1>8 DEF IdentifyBottlenecks, Names
<1>11. \A x \in EdgesOf(b) : x \in EdgesOf(a) \/ x.mediation = ""
  BY <1>4
<1>12. LET told == DraftNarrative(a)
           retold == DraftNarrative(b)
       IN  told.told =>
              /\ retold.told
              /\ retold.top = told.top /\ retold.mediations = told.mediations
              /\ retold.shadow = told.shadow /\ retold.reasons = told.reasons
              /\ retold.caveats \in {told.caveats, told.caveats \ {"large-shadow"}}
  BY <1>4, <1>5, <1>6, <1>8, <1>11, NarrativeKept
<1>13. CallChangesNoReading(a, b)
  BY <1>8, <1>9, <1>10, <1>12 DEF CallChangesNoReading
<1> QED
  BY <1>13 DEF a, b

\* Whatever is recorded, by others or for a call of a tool, hides nothing from any
\* cut, and a call changes no reading (recordInvocation, Articulate).
THEOREM RecordingReveals == Spec => RecordingOnlyReveals
<1>1. ASSUME CInv, [Next]_vars, Len(traces') > Len(traces), NEW o
      PROVE  LET before == Articulate(traces, o)
                 after == Articulate(traces', o)
             IN  /\ NothingIsHidden(before, after)
                 /\ Calls(traces') > Calls(traces) => CallChangesNoReading(before, after)
  <2> DEFINE ts == traces
             s == traces'
  <2>1. PICK t : /\ Sound(t) /\ s \in StoredInto(ts, t)
                 /\ \/ ~IsCall(t)
                    \/ IsCall(t) /\ Mentioned(t) = {} /\ t.mediation = ""
    <3>1. traces' # traces
      BY <1>1 DEF CInv, Substrate
    <3> QED
      BY <1>1, <3>1, Stores
  <2>2. Substrate(ts) /\ Substrate(s)
    BY <1>1, <2>1, StoredOnce DEF CInv
  <2>3. Len(s) > Len(ts)
    BY <1>1
  <2> HIDE DEF ts, s
  <2>4. PICK f, m : Insertion(ts, s, t, f, m)
    BY <2>1, <2>2, <2>3, Longer
  <2>5. NothingIsHidden(Articulate(ts, o), Articulate(s, o))
    BY <2>2, <2>4, InsertionHidesNothing
  <2>6. CASE IsCall(t) /\ Mentioned(t) = {} /\ t.mediation = ""
    <3>1. CallChangesNoReading(Articulate(ts, o), Articulate(s, o))
      BY <2>2, <2>3, <2>4, <2>6, CallChangesNothing
    <3> QED
      BY <2>5, <3>1 DEF ts, s
  <2>7. CASE ~IsCall(t)
    <3>1. Calls(s) = Calls(ts)
      BY <2>2, <2>4, <2>7, CallsKept
    <3>2. Calls(ts) \in Nat
      <4>1. { k \in DOMAIN ts : IsCall(ts[k]) } \in SUBSET DOMAIN ts
        OBVIOUS
      <4> QED
        BY <2>2, <4>1, Places, FS_CardinalityType DEF Calls, Substrate
    <3>3. ~(Calls(s) > Calls(ts))
      BY <3>1, <3>2
    <3> QED
      BY <2>5, <3>3 DEF ts, s
  <2> QED
    BY <2>1, <2>6, <2>7
<1>2. CInv /\ [Next]_vars =>
         [Len(traces') > Len(traces) =>
            \A o \in CutOptions :
                LET before == Articulate(traces, o)
                    after == Articulate(traces', o)
                IN  /\ NothingIsHidden(before, after)
                    /\ Calls(traces') > Calls(traces) => CallChangesNoReading(before, after)]_traces
  BY <1>1
<1> QED
  BY <1>2, CutsInvariant, PTL DEF Spec, RecordingOnlyReveals
=============================================================================
